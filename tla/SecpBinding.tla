----------------------------- MODULE SecpBinding -----------------------------
(***************************************************************************)
(* One Transfer transaction assembled by an adversarial submitter and     *)
(* processed by the runtime: the precompile verifies every secp           *)
(* instruction, then the claimable-tokens program runs                    *)
(* check_ethereum_sign against the victim's address.                      *)
(*                                                                         *)
(* The submitter holds the attacker's key (so can sign any message with   *)
(* it) and knows the signatures the victim has published, but not the     *)
(* victim's key.  This is the index-confusion scenario of the registry    *)
(* test validate_signature_index_exploit, applied to claimable tokens.    *)
(***************************************************************************)
EXTENDS Integers, Sequences

CONSTANTS
    Victim,         \* the eth address whose bank the transfer claims
    Attacker,       \* an eth address whose key the submitter holds
    Msgs,           \* transfer messages, records with a `target` field
    Dests,          \* destination token accounts
    VictimSigned,   \* messages the victim has signed and published
    MaxCompanions   \* bound on instructions before the program instruction

ASSUME VictimSigned \subseteq Msgs /\ MaxCompanions \in 1..255

VARIABLES
    tx,         \* instructions assembled so far
    verdict     \* outcome of processing the transaction

vars == <<tx, verdict>>

Addrs == {Victim, Attacker}

INSTANCE SecpOffsets

\* Signatures the submitter can place in a transaction.
Known == {[addr |-> Victim, msg |-> m] : m \in VictimSigned}
           \cup {[addr |-> Attacker, msg |-> m] : m \in Msgs}

Instructions == Instruction(0 .. MaxCompanions - 1) \cup {OtherInstruction}

\* msg holds the decoded message the program acted on, if it accepted.
Verdicts == [status: {"building", "rejected"}, msg: {{}}]
              \cup [status: {"accepted"}, msg: {{m} : m \in Msgs}]

TypeOK ==
    /\ tx \in Seq(Instructions) /\ Len(tx) <= MaxCompanions
    /\ verdict \in Verdicts

Init ==
    /\ tx = << >>
    /\ verdict = [status |-> "building", msg |-> {}]

\* The submitter appends one more instruction.
AppendInstruction ==
    /\ verdict.status = "building"
    /\ Len(tx) < MaxCompanions
    /\ \E c \in Instructions : tx' = Append(tx, c)
    /\ UNCHANGED verdict

\* The transaction, ending with Transfer(Victim) to d, is processed.
Submit(d) ==
    /\ verdict.status = "building"
    /\ verdict' =
        IF PrecompileVerifies(tx, Known) /\ CheckEthereumSign(tx, Victim, d)
        THEN [status |-> "accepted", msg |-> {Companion(tx).msg}]
        ELSE [status |-> "rejected", msg |-> {}]
    /\ UNCHANGED tx

Next ==
    \/ AppendInstruction
    \/ \E d \in Dests : Submit(d)

Spec == Init /\ [][Next]_vars

-----------------------------------------------------------------------------
(***************************************************************************)
(* BindingSound: when check_ethereum_sign accepts a transaction for the   *)
(* victim's address, the message it decoded and will act on is one the   *)
(* victim really signed.  It fails if any of the index, offset, count or  *)
(* program checks of validate_eth_signature / check_ethereum_sign lets    *)
(* the precompile verify one (address, message) pair while the program    *)
(* reads another.                                                         *)
(***************************************************************************)
BindingSound ==
    verdict.status = "accepted" => verdict.msg \subseteq VictimSigned
=============================================================================
