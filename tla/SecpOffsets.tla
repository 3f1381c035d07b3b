----------------------------- MODULE SecpOffsets -----------------------------
(***************************************************************************)
(* The companion secp256k1 instruction and what the claimable-tokens      *)
(* program reads of it (claimable-tokens/program/src/processor.rs).        *)
(*                                                                         *)
(* A transaction is the sequence of instructions that precede the program *)
(* instruction: the instruction at (0-based) position i is tx[i+1], and   *)
(* the program instruction itself sits at position Len(tx).               *)
(*                                                                         *)
(* Byte layout is abstracted to what the checks tell apart.  Each of the  *)
(* three offsets of SecpSignatureOffsets is either the fixed constant the *)
(* program demands (12, 32, 97) or "Moved" (any other value).  The        *)
(* instruction's own address bytes at offset 12 are `addr`, its message   *)
(* bytes from offset 97 on are `msg`.  A signature is identified with the *)
(* (address, message) pair it is valid for.                              *)
(*                                                                         *)
(* The runtime's secp256k1 precompile is an external collaborator: it     *)
(* verifies, for each secp instruction, the signature it finds through    *)
(* the offsets record against the address and message it finds there.    *)
(* Bytes behind a moved offset, and the data of a non-secp instruction,   *)
(* are chosen by whoever builds the transaction.                          *)
(***************************************************************************)
EXTENDS Integers, Sequences

CONSTANTS
    Addrs,      \* 20-byte Ethereum addresses, as model values
    Msgs        \* decoded messages; each carries a `target` field

Secp  == "secp256k1"
Other == "other"
Fixed == "fixed"
Moved == "moved"

\* SecpSignatureOffsets together with the bytes the program reads.
Instruction(Ix) ==
    [program: {Secp}, count: {0, 1},
     signature_instruction_index: Ix, eth_address_instruction_index: Ix,
     message_instruction_index: Ix,
     signature_offset: {Fixed, Moved}, eth_address_offset: {Fixed, Moved},
     message_data_offset: {Fixed, Moved},
     addr: Addrs, msg: Msgs]

\* Any instruction of another program; its data is arbitrary.
OtherInstruction ==
    [program |-> Other, count |-> 0,
     signature_instruction_index |-> 0, eth_address_instruction_index |-> 0,
     message_instruction_index |-> 0,
     signature_offset |-> Fixed, eth_address_offset |-> Fixed,
     message_data_offset |-> Fixed,
     addr |-> CHOOSE a \in Addrs : TRUE, msg |-> CHOOSE m \in Msgs : TRUE]

\* The index fields are u8; the program casts its usize index to u8.
AsU8(i) == i % 256

(***************************************************************************)
(* The precompile's view of secp instruction c in transaction tx: the set *)
(* of values it can read for a field.  A fixed offset into a secp         *)
(* instruction reads that instruction's bytes; into another program's     *)
(* instruction, bytes its builder chose; into the program instruction     *)
(* (21 bytes) or past the end of the transaction, nothing (the precompile *)
(* fails).  A moved offset reads bytes the builder chose.                 *)
(***************************************************************************)
ReadField(tx, off, ix, field, Any) ==
    IF off = Moved THEN Any
    ELSE IF ix >= Len(tx) THEN {}
    ELSE IF tx[ix + 1].program = Secp THEN {tx[ix + 1][field]}
    ELSE Any

\* slot[j] is the signature stored at the fixed signature offset of tx[j].
ReadSignature(tx, c, slot, Known) ==
    IF c.signature_offset = Moved THEN Known
    ELSE IF c.signature_instruction_index >= Len(tx) THEN {}
    ELSE {slot[c.signature_instruction_index + 1]}

\* The precompile accepts tx when some choice of stored signatures, each
\* one the builder can produce (Known), makes every signature it checks
\* valid.  A count of 0 checks nothing.
PrecompileVerifies(tx, Known) ==
    \E slot \in [DOMAIN tx -> Known] :
        \A i \in DOMAIN tx :
            (tx[i].program = Secp /\ tx[i].count = 1) =>
                LET c == tx[i] IN
                \E a \in ReadField(tx, c.eth_address_offset,
                                   c.eth_address_instruction_index, "addr", Addrs),
                   m \in ReadField(tx, c.message_data_offset,
                                   c.message_instruction_index, "msg", Msgs) :
                    [addr |-> a, msg |-> m] \in ReadSignature(tx, c, slot, Known)

(***************************************************************************)
(* check_ethereum_sign, locating part: the program instruction must not be *)
(* first, and the instruction just before it must target the secp256k1    *)
(* program.                                                                *)
(***************************************************************************)
CurrentIndex(tx) == Len(tx)

LocateCompanion(tx) ==
    /\ CurrentIndex(tx) # 0
    /\ tx[CurrentIndex(tx)].program = Secp

Companion(tx) == tx[CurrentIndex(tx)]

\* Mutation: trusts the three index fields of the offsets record.
ValidateEthSignatureTrustingIndices(expected_signer, expected_target, c, instruction_index) ==
    /\ c.count = 1
    /\ c.eth_address_offset = Fixed
    /\ c.signature_offset = Fixed
    /\ c.message_data_offset = Fixed
    /\ c.addr = expected_signer
    /\ c.msg.target = expected_target

(***************************************************************************)
(* validate_eth_signature: one signature, all three index fields equal to *)
(* the companion's own position, the three fixed offsets, the address at  *)
(* offset 12 equal to the expected signer and the decoded message's       *)
(* target equal to the destination.  It returns c.msg.                    *)
(***************************************************************************)
ValidateEthSignature(expected_signer, expected_target, c, instruction_index) ==
    /\ c.count = 1
    /\ c.message_instruction_index = instruction_index
    /\ c.signature_instruction_index = instruction_index
    /\ c.eth_address_instruction_index = instruction_index
    /\ c.eth_address_offset = Fixed
    /\ c.signature_offset = Fixed
    /\ c.message_data_offset = Fixed
    /\ c.addr = expected_signer
    /\ c.msg.target = expected_target

\* Both parts of check_ethereum_sign that read the instructions sysvar.
CheckEthereumSign(tx, expected_signer, expected_target) ==
    /\ LocateCompanion(tx)
    /\ ValidateEthSignature(expected_signer, expected_target, Companion(tx),
                            AsU8(CurrentIndex(tx) - 1))

\* The companion a well-behaved client builds (new_secp256k1_instruction
\* in the tests): canonical offsets, every index its own position.
CanonicalCompanion(addr, msg, index) ==
    [program |-> Secp, count |-> 1,
     signature_instruction_index |-> index,
     eth_address_instruction_index |-> index,
     message_instruction_index |-> index,
     signature_offset |-> Fixed, eth_address_offset |-> Fixed,
     message_data_offset |-> Fixed,
     addr |-> addr, msg |-> msg]
=============================================================================
