------------------------------ MODULE MCBringup -------------------------------
(* An instance of Bringup for TLC: three interfaces, of which one is a LAN   *)
(* in one topology and a WAN in the other; configurations that differ in the *)
(* policies, only in the profiles' lists, and in layer 2, and one without    *)
(* policies.                                                                 *)
EXTENDS Bringup

CONSTANTS i1, i2, i3

MCTopologies == {[lans |-> <<i1, i2>>, wans |-> <<i3>>],
                 [lans |-> <<i1>>, wans |-> <<i2>>]}
MCConfigs == {[policies |-> 1, lists |-> 1, enabled |-> TRUE, l2 |-> TRUE],
              [policies |-> 1, lists |-> 2, enabled |-> TRUE, l2 |-> TRUE],
              [policies |-> 2, lists |-> 1, enabled |-> TRUE, l2 |-> FALSE],
              [policies |-> 0, lists |-> 0, enabled |-> FALSE, l2 |-> FALSE]}
=============================================================================
