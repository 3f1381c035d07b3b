-------------------------- MODULE MCSecpMessageSize --------------------------
EXTENDS SecpMessageSize

\* TransferInstructionData { target_pubkey, amount, nonce }.
MCFieldOrder == <<"target", "amount", "nonce">>

\* Outside this program the victim's key signs one 32-byte message: the
\* key of its own destination account.
MCForeign == {<<[f |-> "target", v |-> "d1"]>>}
=============================================================================
