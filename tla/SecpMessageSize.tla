---------------------------- MODULE SecpMessageSize ----------------------------
(***************************************************************************)
(* The message bytes of the claimable-tokens companion instruction, at    *)
(* the granularity of the fields of TransferInstructionData.              *)
(*                                                                         *)
(* validate_eth_signature (processor.rs) checks the count, the three index *)
(* fields and the three offsets of SecpSignatureOffsets, but not           *)
(* message_data_size.  The secp256k1 precompile verifies the signature    *)
(* over message_data_size bytes from offset 97; the program borsh-decodes *)
(* every byte from offset 97 to the end of the instruction.  Here a byte  *)
(* string is a sequence of chunks, one per encoded field (32-byte target, *)
(* 8-byte amount, 8-byte nonce), and message_data_size counts chunks: a   *)
(* size that cuts a field is one more prefix, which the victim signs no   *)
(* more often than these.                                                 *)
(*                                                                         *)
(* The companion is otherwise canonical (offsets and indices as the       *)
(* program demands, the victim's address at offset 12): SecpBinding       *)
(* covers the rest of the record.                                         *)
(***************************************************************************)
EXTENDS Integers, Sequences

CONSTANTS
    Dests,       \* destination token accounts (32-byte keys)
    Amounts,     \* u64 amounts
    MaxNonce,    \* bound on the victim's nonce
    Balance,     \* tokens in the victim's bank at the start
    FieldOrder,  \* borsh field order of TransferInstructionData
    Foreign      \* byte strings the victim's key signs for other purposes

Fields == {"target", "amount", "nonce"}

ASSUME FieldOrder \in [1 .. 3 -> Fields] /\ MaxNonce \in Nat /\ Balance \in Nat

VARIABLES
    nonce,    \* NonceAccount.nonce of the victim
    signed,   \* byte strings the victim has signed (all public)
    paid,     \* orders the program has paid from the victim's bank
    bank      \* the balance of the victim's bank token account

vars == <<nonce, signed, paid, bank>>

Order == [target: Dests, amount: Amounts, nonce: 0 .. MaxNonce]

\* The value of one encoded field.
Chunk == [f: {"target"}, v: Dests] \cup [f: {"amount"}, v: Amounts]
           \cup [f: {"nonce"}, v: 0 .. MaxNonce]

\* Byte strings of up to one encoded order.
Bytes == UNION {[1 .. n -> Chunk] : n \in 0 .. 3}

\* borsh serialization of TransferInstructionData: the fields in order.
Encode(o) == [i \in 1 .. 3 |-> [f |-> FieldOrder[i], v |-> o[FieldOrder[i]]]]

\* TransferInstructionData::try_from_slice succeeds only on exactly the
\* encoded fields, no byte missing or left over (else unwrap panics).
Decodes(bytes) == Len(bytes) = 3 /\ \A i \in 1 .. 3 : bytes[i].f = FieldOrder[i]

Decode(bytes) ==
    [fld \in Fields |-> bytes[CHOOSE i \in 1 .. 3 : FieldOrder[i] = fld].v]

TypeOK ==
    /\ nonce \in 0 .. MaxNonce
    /\ signed \subseteq Bytes
    /\ paid \subseteq Order
    /\ bank \in 0 .. Balance

Init ==
    /\ nonce = 0
    /\ signed = {}
    /\ paid = {}
    /\ bank = Balance

\* The victim signs a transfer order at the chain nonce or ahead of it.
SignOrder(o) ==
    /\ o.nonce >= nonce
    /\ signed' = signed \cup {Encode(o)}
    /\ UNCHANGED <<nonce, paid, bank>>

\* The victim's key signs a message of another protocol.
SignForeign(m) ==
    /\ signed' = signed \cup {m}
    /\ UNCHANGED <<nonce, paid, bank>>

\* The precompile: the signature stored at offset 32 is valid for the
\* victim's address over the first size bytes at offset 97; bytes beyond
\* the instruction fail it.
PrecompileVerifiesPrefix(data, size) ==
    /\ size \in 0 .. Len(data)
    /\ SubSeq(data, 1, size) \in signed

\* token_transfer: reject a zero amount or one above the balance.
FundsSufficient(amount, balance) == amount # 0 /\ amount <= balance

\* Transfer(d) with companion message bytes data and message_data_size
\* size: validate_eth_signature decodes data[97..], the target must be d,
\* then the nonce check and increment of check_ethereum_sign, then
\* token_transfer; a failure of any step aborts the whole transaction.
Transfer(d, data, size) ==
    /\ PrecompileVerifiesPrefix(data, size)
    /\ Decodes(data)
    /\ LET o == Decode(data) IN
          /\ o.target = d
          /\ o.nonce = nonce
          /\ nonce < MaxNonce
          /\ FundsSufficient(o.amount, bank)
          /\ nonce' = nonce + 1
          /\ bank' = bank - o.amount
          /\ paid' = paid \cup {o}
    /\ UNCHANGED signed

Next ==
    \/ \E o \in Order : SignOrder(o)
    \/ \E m \in Foreign : SignForeign(m)
    \/ \E d \in Dests, data \in Bytes, size \in 0 .. 3 : Transfer(d, data, size)

Spec == Init /\ [][Next]_vars

(***************************************************************************)
(* PaidOnlySignedOrders: every order paid from the victim's bank was       *)
(* signed by the victim as that whole order.  It fails if the signature    *)
(* the precompile checked covers fewer bytes than the program decoded:    *)
(* the bytes beyond message_data_size are the submitter's choice.         *)
(***************************************************************************)
PaidOnlySignedOrders == \A o \in paid : Encode(o) \in signed
=============================================================================
