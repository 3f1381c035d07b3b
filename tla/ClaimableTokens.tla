--------------------------- MODULE ClaimableTokens ---------------------------
(***************************************************************************)
(* The claimable-tokens program (claimable-tokens/program/src/            *)
(* processor.rs): per Ethereum address a token bank (a PDA token account) *)
(* and a lazily created nonce account, and the two instructions           *)
(* CreateTokenAccount and Transfer.  Each action is one whole transaction *)
(* of the runtime, which commits all of it or none of it, so a failing    *)
(* transaction is an action that is not enabled.                          *)
(*                                                                         *)
(* Environment actions: users sign transfer orders with the chain nonce   *)
(* their client reads; tokens arrive in banks; anyone may send lamports   *)
(* to any address, including a bank or nonce address not yet created.     *)
(***************************************************************************)
EXTENDS Integers, Sequences

CONSTANTS
    Users,          \* eth addresses of users with a claimable bank
    Attacker,       \* an eth address whose key the submitter holds
    Dests,          \* destination token accounts
    Amounts,        \* token amounts signed for
    MaxNonce,       \* bound on transfers per user (nonce counter cap)
    MaxBalance,     \* bound on a bank's balance
    NoAccount,      \* zero lamports at the address: no account
    Occupied        \* lamports at the address, but no data (system-owned)

ASSUME Attacker \notin Users /\ MaxNonce \in Nat /\ MaxBalance \in Nat
ASSUME Amounts \subseteq Nat

VARIABLES
    bank,       \* bank[e]: token balance of e's bank, or NoAccount / Occupied
    nonceAcct,  \* nonceAcct[e]: NonceAccount.nonce, or NoAccount / Occupied
    destBal,    \* destBal[d]: tokens received by destination d
    signed,     \* signatures users have published: [addr, msg]
    paid        \* history: paid[e] lists the messages paid from e's bank

vars == <<bank, nonceAcct, destBal, signed, paid>>

\* TransferInstructionData: the decoded signed message.
TransferData == [target: Dests, amount: Amounts, nonce: 0 .. MaxNonce]

Secp == INSTANCE SecpOffsets WITH Addrs <- Users \cup {Attacker},
                                  Msgs <- TransferData

\* TypeOK: every bank and nonce account is absent, occupied by a foreign
\* account, or holds a balance or nonce within its bound; the paid orders
\* are orders a user could sign.
TypeOK ==
    /\ bank \in [Users -> {NoAccount, Occupied} \cup 0 .. MaxBalance]
    /\ nonceAcct \in [Users -> {NoAccount, Occupied} \cup 0 .. MaxNonce]
    /\ destBal \in [Dests -> Nat]
    /\ signed \subseteq [addr: Users, msg: TransferData]
    /\ paid \in [Users -> Seq(TransferData)]

Init ==
    /\ bank = [e \in Users |-> NoAccount]
    /\ nonceAcct = [e \in Users |-> NoAccount]
    /\ destBal = [d \in Dests |-> 0]
    /\ signed = {}
    /\ paid = [e \in Users |-> << >>]

-----------------------------------------------------------------------------
(* Helpers of check_ethereum_sign and token_transfer.                     *)

\* Signatures a submitter can place in a companion instruction.
Known(sigs) == sigs \cup {[addr |-> Attacker, msg |-> m] : m \in TransferData}

\* Transactions a submitter can send: no companion, another program's
\* instruction, or a companion built the way clients build it.
SubmittedTxs(sigs) ==
    {<< >>, <<Secp!OtherInstruction>>}
      \cup {<<Secp!CanonicalCompanion(s.addr, s.msg, 0)>> : s \in Known(sigs)}

\* The nonce read from the nonce account: a missing account is created
\* with nonce 0; an occupied address cannot be unpacked (guarded apart).
CurrentChainNonce(acct) == IF acct = NoAccount THEN 0 ELSE acct

\* Mutation: accepts any nonce not below the chain nonce.
NonceVerifiedAhead(m, current) == m.nonce >= current

\* "Error if invalid nonce provided by user".
NonceVerified(m, current) == m.nonce = current

\* Mutation: rejects only a zero amount.
FundsSufficientNonZero(amount, balance) == amount # 0

\* token_transfer: reject a zero amount or one above the balance.
FundsSufficient(amount, balance) == amount # 0 /\ amount <= balance

\* check_ethereum_sign after the signature is validated: unpack the bank
\* token account, create the nonce account if it has no lamports or
\* unpack it, require the signed nonce to equal the stored one, and store
\* the incremented nonce.
NonceAccountStep(e, m) ==
    LET current == CurrentChainNonce(nonceAcct[e]) IN
    /\ bank[e] \in Nat
    /\ nonceAcct[e] # Occupied
    /\ NonceVerified(m, current)
    /\ current < MaxNonce
    /\ nonceAcct' = [nonceAcct EXCEPT ![e] = current + 1]

\* token_transfer from e's bank to d.
TokenTransfer(e, d, amount) ==
    /\ FundsSufficient(amount, bank[e])
    /\ bank' = [bank EXCEPT ![e] = @ - amount]
    /\ destBal' = [destBal EXCEPT ![d] = @ + amount]

-----------------------------------------------------------------------------
(* Program instructions.                                                  *)

\* create_token_account: create_account_with_seed at the bank PDA of e,
\* which the system program refuses once the address holds lamports.
CreateAccountWithSeed(e) == bank[e] = NoAccount

\* initialize_token_account: an empty token account of the mint, owned by
\* the program authority.
InitializeTokenAccount(e) == bank' = [bank EXCEPT ![e] = 0]

\* CreateTokenAccount: create the bank account, then initialize it.
CreateTokenAccount(e) ==
    /\ CreateAccountWithSeed(e)
    /\ InitializeTokenAccount(e)
    /\ UNCHANGED <<nonceAcct, destBal, signed, paid>>

\* Transfer(e) to destination d, submitted in transaction tx whose
\* submitter knows the signatures sigs.  The runtime verifies the
\* precompile instructions first; then check_ethereum_sign (locate and
\* validate the companion, read the token account, create or read the
\* nonce account, compare and increment the nonce), then token_transfer.
\* The conjuncts are guards of one atomic step, so their order is immaterial.
TransferTx(e, d, tx, sigs) ==
    /\ Secp!CheckEthereumSign(tx, e, d)
    /\ Secp!PrecompileVerifies(tx, Known(sigs))
    /\ NonceAccountStep(e, Secp!Companion(tx).msg)
    /\ TokenTransfer(e, d, Secp!Companion(tx).msg.amount)
    /\ paid' = [paid EXCEPT ![e] = Append(@, Secp!Companion(tx).msg)]
    /\ UNCHANGED signed

Transfer(e, d) == \E tx \in SubmittedTxs(signed) : TransferTx(e, d, tx, signed)

-----------------------------------------------------------------------------
(* Environment.                                                           *)

\* The nonce a client reads before signing (0 when there is no account).
ChainNonce(e) == IF nonceAcct[e] \in Nat THEN nonceAcct[e] ELSE 0

\* User e signs TransferInstructionData for d and a at nonce n: the nonce
\* read, or a later one when the client signs several orders ahead.
Sign(e, d, a, n) ==
    /\ n \in ChainNonce(e) .. MaxNonce - 1
    /\ signed' = signed \cup
         {[addr |-> e, msg |-> [target |-> d, amount |-> a, nonce |-> n]]}
    /\ UNCHANGED <<bank, nonceAcct, destBal, paid>>

\* Someone sends tokens to e's bank.
Fund(e) ==
    /\ bank[e] \in 0 .. MaxBalance - 1
    /\ bank' = [bank EXCEPT ![e] = @ + 1]
    /\ UNCHANGED <<nonceAcct, destBal, signed, paid>>

\* Someone sends lamports to the bank address before it is created.
OccupyBank(e) ==
    /\ bank[e] = NoAccount
    /\ bank' = [bank EXCEPT ![e] = Occupied]
    /\ UNCHANGED <<nonceAcct, destBal, signed, paid>>

\* Someone sends lamports to the nonce address before it is created.
OccupyNonce(e) ==
    /\ nonceAcct[e] = NoAccount
    /\ nonceAcct' = [nonceAcct EXCEPT ![e] = Occupied]
    /\ UNCHANGED <<bank, destBal, signed, paid>>

Next ==
    \E e \in Users :
        \/ CreateTokenAccount(e)
        \/ \E d \in Dests : Transfer(e, d)
        \/ \E d \in Dests, a \in Amounts, n \in 0 .. MaxNonce : Sign(e, d, a, n)
        \/ Fund(e)
        \/ OccupyBank(e)
        \/ OccupyNonce(e)

Spec == Init /\ [][Next]_vars

-----------------------------------------------------------------------------
(***************************************************************************)
(* ReplayGuardRefined: the program implements ReplayGuard.  Hiding the    *)
(* nonce accounts and the instructions, every step pays only an order its *)
(* signer signed, never twice, and each user's orders in nonce order with *)
(* no gap.  It fails if check_ethereum_sign accepts a stale or skipped    *)
(* nonce, a signature of another address, or a message for another       *)
(* destination, or if the nonce increment is lost.                       *)
(***************************************************************************)
Abstract == INSTANCE ReplayGuard
              WITH bank <- bank, destBal <- destBal, signed <- signed,
                   paid <- paid

ReplayGuardRefined == Abstract!Spec

(***************************************************************************)
(* ClaimAlwaysPossible: a user whose bank holds tokens can always claim   *)
(* them: for an order signed at the chain nonce the client reads, a       *)
(* Transfer transaction is enabled.  The spec (Replay Guard) says the     *)
(* nonce account is created lazily on first use.                          *)
(***************************************************************************)
CanClaim(e) ==
    \E d \in Dests, a \in Amounts :
        LET s == [addr |-> e, msg |-> [target |-> d, amount |-> a,
                                       nonce |-> ChainNonce(e)]]
        IN  /\ a <= bank[e]
            /\ ENABLED TransferTx(e, d, <<Secp!CanonicalCompanion(e, s.msg, 0)>>,
                                  signed \cup {s})

ClaimAlwaysPossible ==
    \A e \in Users :
        (bank[e] \in Nat /\ bank[e] > 0 /\ ChainNonce(e) < MaxNonce) => CanClaim(e)

(***************************************************************************)
(* BankAlwaysCreatable: CreateTokenAccount for an address whose bank does *)
(* not exist yet can always succeed, so tokens can be claimed for every   *)
(* Ethereum address.  The bank is a PDA derived from the mint and the     *)
(* address and is created with create_account_with_seed.                  *)
(***************************************************************************)
BankAlwaysCreatable ==
    \A e \in Users : bank[e] \notin Nat => ENABLED CreateTokenAccount(e)
=============================================================================
