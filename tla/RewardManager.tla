---------------------------- MODULE RewardManager ----------------------------
(***************************************************************************)
(* The sender registry of the reward-manager program                      *)
(* (reward-manager/program/src/instruction.rs; its processor is not in    *)
(* the repository, so the instructions' checks follow the specification,  *)
(* section 4.3 and 4.5, and the tests in tests/create_sender_public.rs).  *)
(*                                                                         *)
(* A sender is a PDA derived from the manager account and the sender's    *)
(* Ethereum address, holding that address and an operator.  Senders are  *)
(* created and deleted either by the manager account (CreateSender,       *)
(* DeleteSender) or publicly, by anyone relaying MinVotes attestations of *)
(* existing senders (CreateSenderPublic, DeleteSenderPublic).            *)
(*                                                                         *)
(* An attestation is identified with the (key, message) pair it is a      *)
(* secp256k1 signature for.  Once a transaction carrying it is submitted  *)
(* it is public, so every attestation ever signed can be relayed again.  *)
(* The locating and validating of each companion instruction is the       *)
(* SecpOffsets logic checked in SecpBinding; here a relayed attestation   *)
(* is accepted exactly when it was signed.                                *)
(***************************************************************************)
EXTENDS Integers, Sequences, FiniteSets

CONSTANTS
    Keys,        \* Ethereum addresses of (would-be) senders
    Operators,   \* operator addresses
    Managers,    \* Solana keys that may hold the manager role
    MinVotes,    \* min_votes of InitRewardManager
    MaxDeletes,  \* bound on the number of sender deletions
    NoSender,    \* no sender account at the PDA
    NoManager    \* reward manager not initialized

ASSUME MinVotes \in 1 .. Cardinality(Keys) - 1 /\ MaxDeletes \in Nat
ASSUME NoSender \notin Operators /\ NoManager \notin Managers

VARIABLES
    manager,      \* the manager account of the reward manager
    senders,      \* senders[k]: operator of k's sender account, or NoSender
    signed,       \* attestations signed so far
    createdWith,  \* ghost: keys whose attestations created k's sender
    createdOps,   \* ghost: the operators of those keys at the time
    freshAdd,     \* ghost: keys that attested adding k since k's last deletion
    deletes       \* number of deletions so far (bounded by MaxDeletes)

vars == <<manager, senders, signed, createdWith, createdOps, freshAdd, deletes>>

Tags == {"add", "delete"}

\* The message an attesting sender signs.  create_sender_public.rs
\* (lines 67-72) signs ADD_SENDER_MESSAGE_PREFIX ++ manager ++ eth_address:
\* the operation, the manager (fixed here) and the target, nothing else.
Message(tag, k) == [tag |-> tag, target |-> k]

Attestation == [key: Keys, msg: [tag: Tags, target: Keys]]

\* TypeOK: the state has its type; in particular the operators recorded
\* for the attesters of a created sender are real operators, which fails
\* if a signer that is not a sender can attest.
TypeOK ==
    /\ manager \in Managers \cup {NoManager}
    /\ senders \in [Keys -> Operators \cup {NoSender}]
    /\ signed \subseteq Attestation
    /\ createdWith \in [Keys -> SUBSET Keys]
    /\ createdOps \in [Keys -> SUBSET Operators]
    /\ freshAdd \in [Keys -> SUBSET Keys]
    /\ deletes \in 0 .. MaxDeletes

Init ==
    /\ manager = NoManager
    /\ senders = [k \in Keys |-> NoSender]
    /\ signed = {}
    /\ createdWith = [k \in Keys |-> {}]
    /\ createdOps = [k \in Keys |-> {}]
    /\ freshAdd = [k \in Keys |-> {}]
    /\ deletes = 0

-----------------------------------------------------------------------------
(* Manager-gated instructions.                                            *)

\* InitRewardManager: fails with AccountAlreadyInitialized the second time.
InitRewardManager(m) ==
    /\ manager = NoManager
    /\ manager' = m
    /\ UNCHANGED <<senders, signed, createdWith, createdOps, freshAdd, deletes>>

\* ChangeManagerAccount: signed by the current manager.
ChangeManagerAccount(cur, new) ==
    /\ manager # NoManager
    /\ cur = manager
    /\ manager' = new
    /\ UNCHANGED <<senders, signed, createdWith, createdOps, freshAdd, deletes>>

\* CreateSender: signed by the manager; the sender PDA must not exist.
CreateSender(m, k, op) ==
    /\ manager # NoManager
    /\ m = manager
    /\ senders[k] = NoSender
    /\ senders' = [senders EXCEPT ![k] = op]
    /\ createdWith' = [createdWith EXCEPT ![k] = {}]
    /\ createdOps' = [createdOps EXCEPT ![k] = {}]
    /\ UNCHANGED <<manager, signed, freshAdd, deletes>>

\* DeleteSender: signed by the manager; closes the sender account.
DeleteSender(m, k) ==
    /\ manager # NoManager
    /\ m = manager
    /\ senders[k] # NoSender
    /\ deletes < MaxDeletes
    /\ senders' = [senders EXCEPT ![k] = NoSender]
    /\ deletes' = deletes + 1
    /\ freshAdd' = [freshAdd EXCEPT ![k] = {}]
    /\ createdWith' = [createdWith EXCEPT ![k] = {}]
    /\ createdOps' = [createdOps EXCEPT ![k] = {}]
    /\ UNCHANGED <<manager, signed>>

-----------------------------------------------------------------------------
(* Attested instructions.  `signers` is the sequence of sender accounts    *)
(* passed after the fixed accounts; companion i+1 is the attestation of   *)
(* signers[i].                                                             *)

Attested(signers, msg) ==
    \A i \in DOMAIN signers :
        /\ senders[signers[i]] # NoSender
        /\ [key |-> signers[i], msg |-> msg] \in signed

\* NotEnoughSigners.
EnoughSigners(signers) == Len(signers) >= MinVotes

\* RepeatedSenders: the signer accounts are pairwise distinct.
DistinctSigners(signers) ==
    \A i, j \in DOMAIN signers : i # j => signers[i] # signers[j]

\* OperatorCollision: the new operator and the attesters' operators are
\* pairwise distinct.
OperatorsDistinct(signers, op) ==
    /\ \A i \in DOMAIN signers : senders[signers[i]] # op
    /\ \A i, j \in DOMAIN signers :
          i # j => senders[signers[i]] # senders[signers[j]]

\* Signer sequences: up to MinVotes accounts, repetitions allowed (with
\* the bounds used, no MinVotes + 1 distinct senders can attest one key).
SignerSeqs == UNION {[1 .. n -> Keys] : n \in 1 .. MinVotes}

\* CreateSenderPublic(k, op) relayed with the attestations of signers.
CreateSenderPublic(k, op, signers) ==
    /\ manager # NoManager
    /\ senders[k] = NoSender
    /\ Attested(signers, Message("add", k))
    /\ EnoughSigners(signers)
    /\ DistinctSigners(signers)
    /\ OperatorsDistinct(signers, op)
    /\ senders' = [senders EXCEPT ![k] = op]
    /\ createdWith' = [createdWith EXCEPT ![k] =
                         {signers[i] : i \in DOMAIN signers}]
    /\ createdOps' = [createdOps EXCEPT ![k] =
                        {senders[signers[i]] : i \in DOMAIN signers}]
    /\ UNCHANGED <<manager, signed, freshAdd, deletes>>

\* DeleteSenderPublic(k) relayed with the attestations of signers.
DeleteSenderPublic(k, signers) ==
    /\ manager # NoManager
    /\ senders[k] # NoSender
    /\ Attested(signers, Message("delete", k))
    /\ EnoughSigners(signers)
    /\ DistinctSigners(signers)
    /\ deletes < MaxDeletes
    /\ senders' = [senders EXCEPT ![k] = NoSender]
    /\ deletes' = deletes + 1
    /\ freshAdd' = [freshAdd EXCEPT ![k] = {}]
    /\ createdWith' = [createdWith EXCEPT ![k] = {}]
    /\ createdOps' = [createdOps EXCEPT ![k] = {}]
    /\ UNCHANGED <<manager, signed>>

-----------------------------------------------------------------------------
(* Environment: a sender's key attests an operation on another key: the   *)
(* addition of a key that is not a sender, the deletion of one that is.   *)
(* An approval of an addition may be given again after a deletion; the    *)
(* signature is the same bytes (the message carries nothing that changes).*)
Attest(s, tag, k) ==
    /\ senders[s] # NoSender
    /\ s # k
    /\ (tag = "add") = (senders[k] = NoSender)
    /\ tag = "add" => s \notin freshAdd[k]
    /\ tag = "delete" => [key |-> s, msg |-> Message(tag, k)] \notin signed
    /\ signed' = signed \cup {[key |-> s, msg |-> Message(tag, k)]}
    /\ freshAdd' = IF tag = "add"
                     THEN [freshAdd EXCEPT ![k] = @ \cup {s}]
                     ELSE freshAdd
    /\ UNCHANGED <<manager, senders, createdWith, createdOps, deletes>>

Next ==
    \/ \E m \in Managers : InitRewardManager(m)
    \/ \E cur, new \in Managers : ChangeManagerAccount(cur, new)
    \/ \E m \in Managers, k \in Keys, op \in Operators : CreateSender(m, k, op)
    \/ \E m \in Managers, k \in Keys : DeleteSender(m, k)
    \/ \E k \in Keys, op \in Operators, s \in SignerSeqs :
          CreateSenderPublic(k, op, s)
    \/ \E k \in Keys, s \in SignerSeqs : DeleteSenderPublic(k, s)
    \/ \E s, k \in Keys, tag \in Tags : Attest(s, tag, k)

Spec == Init /\ [][Next]_vars

-----------------------------------------------------------------------------
(***************************************************************************)
(* NoResurrection: a sender that exists because of attestations was       *)
(* attested by senders that approved adding it after it was last deleted. *)
(* The specification says the signed message binds the intent to the     *)
(* operation; a vote to delete a sender should not be undone by replaying *)
(* the votes that added it.                                                *)
(***************************************************************************)
NoResurrection ==
    \A k \in Keys :
        senders[k] # NoSender => createdWith[k] \subseteq freshAdd[k]
=============================================================================
