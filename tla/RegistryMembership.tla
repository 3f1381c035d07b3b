-------------------------- MODULE RegistryMembership --------------------------
(***************************************************************************)
(* What the signer-group registry promises (spec sections 3, 4.3, 4.5),   *)
(* with no accounts, signatures or instructions: a group is founded once  *)
(* with an owner; its members change only by a step its owner signed     *)
(* while the owner latch is on, or by an operation approved as that       *)
(* operation by the keys of Quorum distinct members of the group; only    *)
(* the owner closes the latch, and it never reopens; a member slot once   *)
(* removed is never filled again.                                         *)
(***************************************************************************)
EXTENDS Integers, FiniteSets

CONSTANTS
    Owners, Groups, Accts, EthKeys,
    Quorum,     \* number of attesting members an attested change needs
    None        \* no owner / no member

VARIABLES
    ownerOf,    \* ownerOf[g]: the owner g was founded with, or None
    latch,      \* latch[g]: the owner may still change g's members
    member,     \* member[a]: the group and key member slot a holds, or None
    retired,    \* slots removed from their group
    approved,   \* approvals: a key meant an operation (tag, group, target)
    actor       \* the owner that signed the last change, or None

vars == <<ownerOf, latch, member, retired, approved, actor>>

Op == [tag: {"add", "clear"}, group: Groups, target: EthKeys]

Init ==
    /\ ownerOf = [g \in Groups |-> None]
    /\ latch = [g \in Groups |-> FALSE]
    /\ member = [a \in Accts |-> None]
    /\ retired = {}
    /\ approved = {}
    /\ actor = None

Founded(g) == ownerOf[g] # None

Free(a) == member[a] = None /\ a \notin retired

MembersOf(g) == {a \in Accts : member[a] # None /\ member[a].group = g}

\* The change is signed by g's owner, whose latch is still on.
ByOwner(g) == latch[g] /\ actor' = ownerOf[g]

\* Quorum distinct members of the group, each of whose keys approved op.
Attested(op) ==
    \E s \in SUBSET MembersOf(op.group) :
        /\ Cardinality(s) = Quorum
        /\ \A a \in s : [key |-> member[a].eth, op |-> op] \in approved

Found(g, o) ==
    /\ ~Founded(g)
    /\ ownerOf' = [ownerOf EXCEPT ![g] = o]
    /\ latch' = [latch EXCEPT ![g] = TRUE]
    /\ actor' = None
    /\ UNCHANGED <<member, retired, approved>>

Add(g, a, e) ==
    /\ Founded(g)
    /\ Free(a)
    /\ \/ ByOwner(g)
       \/ Attested([tag |-> "add", group |-> g, target |-> e]) /\ actor' = None
    /\ member' = [member EXCEPT ![a] = [group |-> g, eth |-> e]]
    /\ UNCHANGED <<ownerOf, latch, retired, approved>>

Remove(g, a) ==
    /\ a \in MembersOf(g)
    /\ \/ ByOwner(g)
       \/ Attested([tag |-> "clear", group |-> g, target |-> member[a].eth]) /\ actor' = None
    /\ member' = [member EXCEPT ![a] = None]
    /\ retired' = retired \cup {a}
    /\ UNCHANGED <<ownerOf, latch, approved>>

Disable(g) ==
    /\ ByOwner(g)
    /\ latch' = [latch EXCEPT ![g] = FALSE]
    /\ UNCHANGED <<ownerOf, member, retired, approved>>

Approve(k, op) ==
    /\ approved' = approved \cup {[key |-> k, op |-> op]}
    /\ UNCHANGED <<ownerOf, latch, member, retired, actor>>

Next ==
    \/ \E g \in Groups, o \in Owners : Found(g, o)
    \/ \E g \in Groups, a \in Accts, e \in EthKeys : Add(g, a, e)
    \/ \E g \in Groups, a \in Accts : Remove(g, a)
    \/ \E g \in Groups : Disable(g)
    \/ \E k \in EthKeys, op \in Op : Approve(k, op)

Spec == Init /\ [][Next]_vars
=============================================================================
