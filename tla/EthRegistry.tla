----------------------------- MODULE EthRegistry -----------------------------
(***************************************************************************)
(* The signer-group registry (coliving_eth_registry).  Only its           *)
(* instruction builders (src/instruction.rs) and tests (tests/tests.rs)   *)
(* are in the repository: the accounts each instruction takes, and who    *)
(* must sign it, come from the builders; the checks the processor makes   *)
(* follow the specification (sections 3, 4.3 and 4.5) and the tests.     *)
(*                                                                         *)
(* A signer group has an owner and an owner_enabled latch.  A valid       *)
(* signer account holds an Ethereum address and its group.  Signers are   *)
(* added and cleared by the owner while the latch is on, or by three      *)
(* distinct valid signers of the group attesting the operation.           *)
(***************************************************************************)
EXTENDS Integers, Sequences, FiniteSets

CONSTANTS
    Owners,     \* Solana keys that may own (or claim to own) a group
    Groups,     \* signer-group accounts
    Accts,      \* valid-signer accounts, created empty by the client
    EthKeys,    \* Ethereum addresses
    NoGroup,    \* a group account not initialized
    Stamp,      \* the timestamp the tests sign for multi-signature calls
    Uninit,     \* a valid-signer account created but never initialized
    Cleared,    \* a valid-signer account cleared (is_valid = false)
    MaxApprovals, \* bound on the number of attestations signed
    Absent      \* an account not created yet (no lamports, no data)

\* ValidateMultipleSignatures* take exactly three SignatureData.
Quorum == 3

ASSUME Cardinality(EthKeys) > Quorum /\ Cardinality(Accts) > Quorum

VARIABLES
    group,     \* group[g]: Absent, NoGroup or [owner, enabled]
    signer,    \* signer[a]: Absent, Uninit, Cleared or [group, eth]
    signed,    \* attestations: (key, message) pairs signed so far
    approved,  \* ghost: the operations each key meant to approve
    done,      \* ghost: multi-signature operations performed, with signers
    creator,   \* ghost: creator[g], the owner meant by whoever created g
    actor      \* ghost: the owner key that signed the last instruction, or
               \* Absent when the instruction needs no owner signature

vars == <<group, signer, signed, approved, done, creator, actor>>

Op == [tag: {"add", "clear"}, group: Groups, target: EthKeys]

Valid == [group: Groups, eth: EthKeys]

GroupData == [owner: Owners, enabled: BOOLEAN]

TypeOK ==
    /\ group \in [Groups -> {Absent, NoGroup} \cup GroupData]
    /\ signer \in [Accts -> {Absent, Uninit, Cleared} \cup Valid]
    /\ creator \in [Groups -> {Absent} \cup Owners]
    /\ approved \subseteq [key: EthKeys, op: Op]
    /\ done \subseteq [op: Op, keys: SUBSET EthKeys]
    /\ actor \in Owners \cup {Absent}

Init ==
    /\ group = [g \in Groups |-> Absent]
    /\ signer = [a \in Accts |-> Absent]
    /\ creator = [g \in Groups |-> Absent]
    /\ signed = {}
    /\ approved = {}
    /\ done = {}
    /\ actor = Absent

-----------------------------------------------------------------------------
(* Helpers.                                                               *)

\* The canonical message of an operation (spec 4.3): tag, group, target.
RegistryMessage(tag, g, e) == [tag |-> tag, group |-> g, target |-> e]

\* What the tests sign for both multi-signature instructions: the current
\* timestamp, the same for all three signers and for any operation.
TimestampMessage(tag, g, e) == Stamp

\* InitSignerGroup fails on an initialized group (and on an account not
\* created, which the program does not own).
GroupUninitialized(g) == group[g] = NoGroup

GroupInitialized(g) == group[g] \in GroupData

\* The data InitSignerGroup writes: the owner passed, the latch on.
InitGroupData(g, o) == group' = [group EXCEPT ![g] = [owner |-> o, enabled |-> TRUE]]

\* A valid-signer account can be initialized only while it was never used.
SignerInitializable(a) == signer[a] = Uninit

\* Mutation: the owner latch is not checked.
OwnerMayActIgnoringLatch(g, o) ==
    /\ GroupInitialized(g)
    /\ group[g].owner = o

\* The owner-gated path is open: group initialized, signed by its owner,
\* latch on.
OwnerMayAct(g, o) ==
    /\ GroupInitialized(g)
    /\ group[g].owner = o
    /\ group[g].enabled

\* Each of the three accounts is a valid signer of g, they are pairwise
\* distinct, and each one's Ethereum key signed msg.
ThreeValidSigners(vs, g, msg) ==
    /\ \A i, j \in DOMAIN vs : i # j => vs[i] # vs[j]
    /\ \A i \in DOMAIN vs :
          /\ signer[vs[i]] \in Valid
          /\ signer[vs[i]].group = g
          /\ [key |-> signer[vs[i]].eth, msg |-> msg] \in signed

KeysOf(vs) == {signer[vs[i]].eth : i \in DOMAIN vs}

-----------------------------------------------------------------------------
(* Instructions.                                                          *)

\* InitSignerGroup(g, o): the owner account is not a signer.
InitSignerGroup(g, o) ==
    /\ GroupUninitialized(g)
    /\ InitGroupData(g, o)
    /\ actor' = Absent
    /\ UNCHANGED <<signer, signed, approved, done, creator>>

\* InitValidSigner(a, g, e), signed by o.
InitValidSigner(a, g, o, e) ==
    /\ OwnerMayAct(g, o)
    /\ SignerInitializable(a)
    /\ signer' = [signer EXCEPT ![a] = [group |-> g, eth |-> e]]
    /\ actor' = o
    /\ UNCHANGED <<group, signed, approved, done, creator>>

\* ClearValidSigner(a, g), signed by o.
ClearValidSigner(a, g, o) ==
    /\ OwnerMayAct(g, o)
    /\ signer[a] \in Valid
    /\ signer[a].group = g
    /\ signer' = [signer EXCEPT ![a] = Cleared]
    /\ actor' = o
    /\ UNCHANGED <<group, signed, approved, done, creator>>

\* DisableSignerGroupOwner(g), signed by o.
DisableSignerGroupOwner(g, o) ==
    /\ OwnerMayAct(g, o)
    /\ group' = [group EXCEPT ![g].enabled = FALSE]
    /\ actor' = o
    /\ UNCHANGED <<signer, signed, approved, done, creator>>

\* ValidateMultipleSignaturesAddSigner(vs, g, a, e).
ValidateMultipleSignaturesAddSigner(vs, g, a, e) ==
    /\ GroupInitialized(g)
    /\ SignerInitializable(a)
    /\ ThreeValidSigners(vs, g, RegistryMessage("add", g, e))
    /\ signer' = [signer EXCEPT ![a] = [group |-> g, eth |-> e]]
    /\ done' = done \cup {[op |-> [tag |-> "add", group |-> g, target |-> e],
                           keys |-> KeysOf(vs)]}
    /\ actor' = Absent
    /\ UNCHANGED <<group, signed, approved, creator>>

\* ValidateMultipleSignaturesClearValidSigner(vs, g, a).
ValidateMultipleSignaturesClearValidSigner(vs, g, a) ==
    /\ GroupInitialized(g)
    /\ signer[a] \in Valid
    /\ signer[a].group = g
    /\ ThreeValidSigners(vs, g, RegistryMessage("clear", g, signer[a].eth))
    /\ signer' = [signer EXCEPT ![a] = Cleared]
    /\ done' = done \cup {[op |-> [tag |-> "clear", group |-> g,
                                   target |-> signer[a].eth],
                           keys |-> KeysOf(vs)]}
    /\ actor' = Absent
    /\ UNCHANGED <<group, signed, approved, creator>>

-----------------------------------------------------------------------------
(* Account creation by a client, in a transaction of its own (the tests'  *)
(* setup and create_account helper): system create_account allocates the  *)
(* account, owned by the program, with zeroed data.  It is signed by the   *)
(* new account's keypair, held by whoever means o to own the group.        *)

CreateGroupAccount(g, o) ==
    /\ group[g] = Absent
    /\ group' = [group EXCEPT ![g] = NoGroup]
    /\ creator' = [creator EXCEPT ![g] = o]
    /\ UNCHANGED <<signer, signed, approved, done, actor>>

CreateSignerAccount(a) ==
    /\ signer[a] = Absent
    /\ signer' = [signer EXCEPT ![a] = Uninit]
    /\ UNCHANGED <<group, signed, approved, done, creator, actor>>

-----------------------------------------------------------------------------
(* Environment: the key of a valid signer of a group approves an          *)
(* operation on it (adding an address no valid signer of the group has,   *)
(* clearing one some valid signer has) and signs its message.             *)

ValidKeys(g) == {signer[a].eth : a \in {b \in Accts : signer[b] \in Valid /\ signer[b].group = g}}

Attest(k, op) ==
    /\ k \in ValidKeys(op.group)
    /\ k # op.target
    /\ (op.tag = "add") = (op.target \notin ValidKeys(op.group))
    /\ [key |-> k, op |-> op] \notin approved
    /\ Cardinality(approved) < MaxApprovals
    /\ approved' = approved \cup {[key |-> k, op |-> op]}
    /\ signed' = signed \cup
         {[key |-> k, msg |-> RegistryMessage(op.tag, op.group, op.target)]}
    /\ UNCHANGED <<group, signer, done, creator, actor>>

\* The instructions of the program, and the environment, but for how group
\* accounts come to exist.
ProgramNext ==
    \/ \E g \in Groups, o \in Owners : InitSignerGroup(g, o)
    \/ \E a \in Accts, g \in Groups, o \in Owners, e \in EthKeys :
          InitValidSigner(a, g, o, e)
    \/ \E a \in Accts, g \in Groups, o \in Owners : ClearValidSigner(a, g, o)
    \/ \E g \in Groups, o \in Owners : DisableSignerGroupOwner(g, o)
    \/ \E vs \in [1 .. Quorum -> Accts], g \in Groups :
          \/ \E a \in Accts, e \in EthKeys :
                ValidateMultipleSignaturesAddSigner(vs, g, a, e)
          \/ \E a \in Accts : ValidateMultipleSignaturesClearValidSigner(vs, g, a)
    \/ \E k \in EthKeys, op \in Op : Attest(k, op)
    \/ \E a \in Accts : CreateSignerAccount(a)

Next ==
    \/ ProgramNext
    \/ \E g \in Groups, o \in Owners : CreateGroupAccount(g, o)

Spec == Init /\ [][Next]_vars

-----------------------------------------------------------------------------
(***************************************************************************)
(* AttestedIntent: every multi-signature operation performed was approved, *)
(* as that very operation (tag, group and target), by every key whose     *)
(* attestation it used.  The spec requires each message to equal the      *)
(* canonical encoding of the operation so that a signature cannot be      *)
(* reused for another one.                                                *)
(***************************************************************************)
AttestedIntent ==
    \A r \in done : \A k \in r.keys : [key |-> k, op |-> r.op] \in approved

(***************************************************************************)
(* GroupOwnedByCreator: an initialized signer group is owned by the owner  *)
(* meant by whoever created its account.  InitSignerGroup takes the owner *)
(* as a non-signing account (instruction.rs, init_signer_group), so        *)
(* between a create_account and an InitSignerGroup sent separately anyone *)
(* can initialize the group with an owner of their own.                   *)
(***************************************************************************)
GroupOwnedByCreator ==
    \A g \in Groups : GroupInitialized(g) => group[g].owner = creator[g]

(***************************************************************************)
(* MembershipRefined: the registry implements RegistryMembership.  A      *)
(* group's owner and latch are its account's data; a member slot is a     *)
(* valid-signer account holding a valid record, a retired one a cleared   *)
(* account.  It fails if an owner-signed instruction is accepted after    *)
(* DisableSignerGroupOwner or from a key other than the group's owner, if *)
(* a group is initialized twice, if a cleared account is reused, or if a  *)
(* multi-signature instruction acts on signatures that are not the        *)
(* approvals of three distinct valid signers of the group for that very   *)
(* operation.                                                             *)
(***************************************************************************)
Membership == INSTANCE RegistryMembership WITH
    None <- Absent,
    ownerOf <- [g \in Groups |-> IF GroupInitialized(g) THEN group[g].owner ELSE Absent],
    latch <- [g \in Groups |-> GroupInitialized(g) /\ group[g].enabled],
    member <- [a \in Accts |-> IF signer[a] \in Valid THEN signer[a] ELSE Absent],
    retired <- {a \in Accts : signer[a] = Cleared}

MembershipRefined == Membership!Spec
=============================================================================
