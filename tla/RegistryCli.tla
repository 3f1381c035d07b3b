----------------------------- MODULE RegistryCli -----------------------------
(***************************************************************************)
(* The registry CLI (cli/src/main.rs) composed with the registry program. *)
(* Each command builds one transaction; the program runs it atomically.   *)
(* The CLI's configured owner key is the parameter o of each command.     *)
(* Group accounts come to exist only through create-signer-group, which   *)
(* puts system create_account and InitSignerGroup in one transaction.     *)
(* Every instruction of the program stays available to anyone else.      *)
(* query-signer-group and query-eth-registry only read; send-message      *)
(* sends ValidateSignature, which writes no account.                      *)
(***************************************************************************)
EXTENDS EthRegistry

\* Mutation: create-signer-group sends create_account alone and leaves
\* InitSignerGroup to a later transaction.
CliCreateSignerGroupSplit(g, o) == CreateGroupAccount(g, o)

\* create-signer-group: create_account for g, then init_signer_group with
\* the configured owner, in one transaction.
CliCreateSignerGroup(g, o) ==
    /\ group[g] = Absent
    /\ creator' = [creator EXCEPT ![g] = o]
    /\ InitGroupData(g, o)
    /\ actor' = Absent
    /\ UNCHANGED <<signer, signed, approved, done>>

CliCreateValidSigner(a, g, o, e) ==
    /\ signer[a] = Absent
    /\ OwnerMayAct(g, o)
    /\ signer' = [signer EXCEPT ![a] = [group |-> g, eth |-> e]]
    /\ actor' = o
    /\ UNCHANGED <<group, signed, approved, done, creator>>

\* disable-signer-group-owner: DisableSignerGroupOwner signed by the
\* configured owner.
CliDisableSignerGroupOwner(g, o) == DisableSignerGroupOwner(g, o)

\* clear-valid-signer: reads the valid signer's group from the account,
\* then sends ClearValidSigner for that group signed by the configured
\* owner.
CliClearValidSigner(a, o) ==
    /\ signer[a] \in Valid
    /\ ClearValidSigner(a, signer[a].group, o)

CliNext ==
    \/ ProgramNext
    \/ \E g \in Groups, o \in Owners : CliCreateSignerGroup(g, o)
    \/ \E a \in Accts, g \in Groups, o \in Owners, e \in EthKeys :
          CliCreateValidSigner(a, g, o, e)
    \/ \E g \in Groups, o \in Owners : CliDisableSignerGroupOwner(g, o)
    \/ \E a \in Accts, o \in Owners : CliClearValidSigner(a, o)

CliSpec == Init /\ [][CliNext]_vars
=============================================================================
