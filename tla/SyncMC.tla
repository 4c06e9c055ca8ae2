------------------------------- MODULE SyncMC -------------------------------
(* Instances of Sync for TLC. *)
EXTENDS Sync, TLC

CONSTANTS m1, m2, s1, s2
MCMatch == {m1, m2}
MCOneMatch == {m1}
MCSession == {s1, s2}
MCRowId == 1..4

\* two legs of one pairing: their teams exist as soon as one of them is known
MCLegs == [m \in {m1, m2} |-> IF m = m1 THEN <<"ESP", "NED">> ELSE <<"NED", "ESP">>]
MCTeams == [p \in Provider |-> MCLegs]
MCCode == {"ESP", "NED"}

MCOneTeams == [p \in Provider |-> [m \in {m1} |-> <<"ESP", "NED">>]]

MCId == 11..24
MCExt == [p \in Provider |->
            [m \in {m1, m2} |-> (IF p = Primary THEN 10 ELSE 20) + (IF m = m1 THEN 1 ELSE 2)]]
MCOneExt == [p \in Provider |-> [m \in {m1} |-> IF p = Primary THEN 11 ELSE 21]]

Symmetric == Permutations(Session)
=============================================================================
