---------------------------- MODULE MCSecpBinding ----------------------------
EXTENDS SecpBinding

\* Two transfer messages to the one destination: the victim signed only m1.
MCMsgs == {[target |-> "d1", id |-> "m1"], [target |-> "d1", id |-> "m2"]}
MCVictimSigned == {[target |-> "d1", id |-> "m1"]}
MCDests == {"d1"}
=============================================================================
