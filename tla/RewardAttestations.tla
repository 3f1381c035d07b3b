------------------------- MODULE RewardAttestations -------------------------
(***************************************************************************)
(* Reward transfers of the reward-manager program: SubmitAttestations and *)
(* EvaluateAttestations (reward-manager/program/src/instruction.rs), over *)
(* the sender registry of RewardManager.  The processor is not in the     *)
(* repository: the accounts each instruction takes come from the builders, *)
(* the checks from the specification (the two-phase evaluation keyed by   *)
(* an opaque id, section 4.3's K-of-N binding with distinct operators).   *)
(*                                                                         *)
(* SubmitAttestations(id) takes one sender and its companion attestation, *)
(* and appends it to the verified-messages PDA of id, creating that       *)
(* account on first use.  EvaluateAttestations(amount, id, recipient)     *)
(* pays when the verified messages hold MinVotes attestations of that     *)
(* payment from distinct senders of distinct operators, and creates the   *)
(* transfer PDA of id, which exists only after a successful transfer.     *)
(* The bot-oracle account, and token amounts beyond a small set, are left *)
(* out.                                                                    *)
(***************************************************************************)
EXTENDS RewardManager

CONSTANTS
    Ids,          \* backend-generated transfer ids
    Recipients,   \* Ethereum addresses of reward recipients
    Amounts,      \* transfer amounts
    Reward,       \* Reward[id]: the payment the backend means by id
    MaxMessages   \* bound on the verified messages of one id

Claim == [recipient: Recipients, amount: Amounts]

ASSUME Reward \in [Ids -> Claim] /\ MaxMessages \in Nat

VARIABLES
    tsigned,      \* transfer attestations signed: [key, id, claim]
    verified,     \* verified[id]: the verified-messages account's entries
    transferred,  \* transferred[id]: the transfer PDA of id exists
    payments      \* ghost: payments made, [id, claim, n] (n-th payment)

avars == <<tsigned, verified, transferred, payments>>

allVars == <<vars, avars>>

Entry == [sender: Keys, operator: Operators, id: Ids, claim: Claim]

ATypeOK ==
    /\ tsigned \subseteq [key: Keys, id: Ids, claim: Claim]
    /\ verified \in [Ids -> Seq(Entry)]
    /\ transferred \in [Ids -> BOOLEAN]

AInit ==
    /\ Init
    /\ tsigned = {}
    /\ verified = [i \in Ids |-> << >>]
    /\ transferred = [i \in Ids |-> FALSE]
    /\ payments = {}

-----------------------------------------------------------------------------
\* SubmitAttestations(id) with sender s relaying the attestation of c:
\* s is a sender, its key signed c for id, and the entry is appended.
SubmitAttestations(id, s, c) ==
    /\ senders[s] # NoSender
    /\ [key |-> s, id |-> id, claim |-> c] \in tsigned
    /\ Len(verified[id]) < MaxMessages
    /\ verified' = [verified EXCEPT ![id] =
                      Append(@, [sender |-> s, operator |-> senders[s],
                                 id |-> id, claim |-> c])]
    /\ UNCHANGED <<vars, tsigned, transferred, payments>>

\* The entries of id attesting the payment c.
Matching(id, c) ==
    {verified[id][n] : n \in {m \in DOMAIN verified[id] :
                                 verified[id][m].claim = c}}

\* Mutation: distinct operators only, on the grounds that one sender has
\* one operator (not so once a sender is deleted and re-created).
EnoughVotesDistinctOperatorsOnly(id, c) ==
    \E es \in SUBSET Matching(id, c) :
        /\ Cardinality(es) = MinVotes
        /\ Cardinality({e.operator : e \in es}) = MinVotes

\* NotEnoughSigners / RepeatedSenders / OperatorCollision: MinVotes
\* matching entries of pairwise distinct senders and operators.
EnoughVotes(id, c) ==
    \E es \in SUBSET Matching(id, c) :
        /\ Cardinality(es) = MinVotes
        /\ Cardinality({e.sender : e \in es}) = MinVotes
        /\ Cardinality({e.operator : e \in es}) = MinVotes

\* Creating the transfer PDA of id fails once it exists.
TransferAccountFree(id) == ~transferred[id]

\* EvaluateAttestations(amount, id, recipient).
EvaluateAttestations(id, c) ==
    /\ manager # NoManager
    /\ TransferAccountFree(id)
    /\ EnoughVotes(id, c)
    /\ transferred' = [transferred EXCEPT ![id] = TRUE]
    /\ payments' = payments \cup
         {[id |-> id, claim |-> c, n |-> Cardinality(payments) + 1]}
    /\ UNCHANGED <<vars, tsigned, verified>>

\* Environment: a sender's key attests the payment the backend means by id.
AttestTransfer(s, id) ==
    /\ senders[s] # NoSender
    /\ [key |-> s, id |-> id, claim |-> Reward[id]] \notin tsigned
    /\ tsigned' = tsigned \cup {[key |-> s, id |-> id, claim |-> Reward[id]]}
    /\ UNCHANGED <<vars, verified, transferred, payments>>

ANext ==
    \/ Next /\ UNCHANGED avars
    \/ \E id \in Ids, s \in Keys, c \in Claim : SubmitAttestations(id, s, c)
    \/ \E id \in Ids, c \in Claim : EvaluateAttestations(id, c)
    \/ \E s \in Keys, id \in Ids : AttestTransfer(s, id)

ASpec == AInit /\ [][ANext]_allVars

-----------------------------------------------------------------------------
(***************************************************************************)
(* PaidAsAttested: every payment (id, recipient, amount) was attested, as *)
(* that payment, by at least MinVotes distinct sender keys.  A sender that *)
(* submits its attestation twice, or a relayer that picks the amount,    *)
(* must not make up the quorum.                                           *)
(***************************************************************************)
PaidAsAttested ==
    \A p \in payments :
        Cardinality({t.key : t \in {u \in tsigned :
                        u.id = p.id /\ u.claim = p.claim}}) >= MinVotes
=============================================================================
