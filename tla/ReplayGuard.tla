----------------------------- MODULE ReplayGuard -----------------------------
(***************************************************************************)
(* What the claimable-tokens program promises its users, with no nonce    *)
(* accounts and no instructions: tokens leave a user's bank only to pay   *)
(* a transfer order that user signed, each order is paid at most once,    *)
(* and a user's orders are paid in nonce order without gaps.  An order is  *)
(* signed for a nonce no lower than the number of orders already paid.    *)
(***************************************************************************)
EXTENDS Integers, Sequences, SequencesExt

CONSTANTS
    Users,          \* eth addresses of users with a claimable bank
    Dests,          \* destination token accounts
    Amounts,        \* token amounts a user signs for
    MaxNonce,       \* bound on orders paid per user
    MaxBalance,     \* bound on a bank's balance
    NoAccount,      \* no account at the bank's address
    Occupied        \* lamports at the address, but no account data

VARIABLES
    bank,       \* bank[e]: the balance of e's bank, or NoAccount / Occupied
    destBal,    \* destBal[d]: tokens received by destination d
    signed,     \* signatures users have published: [addr, msg]
    paid        \* paid[e]: the messages paid from e's bank, in order

vars == <<bank, destBal, signed, paid>>

TransferData == [target: Dests, amount: Amounts, nonce: 0 .. MaxNonce]

TypeOK ==
    /\ bank \in [Users -> {NoAccount, Occupied} \cup 0 .. MaxBalance]
    /\ destBal \in [Dests -> Nat]
    /\ signed \subseteq [addr: Users, msg: TransferData]
    /\ paid \in [Users -> Seq(TransferData)]

Init ==
    /\ bank = [e \in Users |-> NoAccount]
    /\ destBal = [d \in Dests |-> 0]
    /\ signed = {}
    /\ paid = [e \in Users |-> << >>]

Open(e) ==
    /\ bank[e] = NoAccount
    /\ bank' = [bank EXCEPT ![e] = 0]
    /\ UNCHANGED <<destBal, signed, paid>>

Block(e) ==
    /\ bank[e] = NoAccount
    /\ bank' = [bank EXCEPT ![e] = Occupied]
    /\ UNCHANGED <<destBal, signed, paid>>

Fund(e) ==
    /\ bank[e] \in 0 .. MaxBalance - 1
    /\ bank' = [bank EXCEPT ![e] = @ + 1]
    /\ UNCHANGED <<destBal, signed, paid>>

Sign(e, d, a, n) ==
    /\ n \in Len(paid[e]) .. MaxNonce - 1
    /\ signed' = signed \cup
         {[addr |-> e, msg |-> [target |-> d, amount |-> a, nonce |-> n]]}
    /\ UNCHANGED <<bank, destBal, paid>>

Pay(e, m) ==
    /\ [addr |-> e, msg |-> m] \in signed
    /\ m \notin ToSet(paid[e])
    /\ m.nonce = Len(paid[e])
    /\ Len(paid[e]) < MaxNonce
    /\ bank[e] \in Nat
    /\ 0 < m.amount /\ m.amount <= bank[e]
    /\ bank' = [bank EXCEPT ![e] = @ - m.amount]
    /\ destBal' = [destBal EXCEPT ![m.target] = @ + m.amount]
    /\ paid' = [paid EXCEPT ![e] = Append(@, m)]
    /\ UNCHANGED signed

Next ==
    \E e \in Users :
        \/ Open(e) \/ Block(e) \/ Fund(e)
        \/ \E d \in Dests, a \in Amounts, n \in 0 .. MaxNonce : Sign(e, d, a, n)
        \/ \E m \in TransferData : Pay(e, m)

Spec == Init /\ [][Next]_vars
=============================================================================
