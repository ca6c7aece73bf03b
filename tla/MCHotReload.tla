---------------------------- MODULE MCHotReload ----------------------------
(* Instances of HotReload for TLC. *)
EXTENDS HotReload

CONSTANTS w1, n1, q1, f1, k1, k2

\* The same wire id under two keys, a bypass, a policy without a key.
mcA == [id |-> 1, action |-> "l3", key |-> k1, match |-> {f1}]
mcB == [id |-> 1, action |-> "l3", key |-> k2, match |-> {f1}]
mcBypass == [id |-> 2, action |-> Bypass, key |-> ZeroKey, match |-> {f1}]
mcNoKey == [id |-> 2, action |-> "l3", key |-> ZeroKey, match |-> {f1}]
MCConfig(topology, policies, count) ==
  [topology |-> topology, policies |-> policies, profile_count |-> count]

\* Same policies in another order, another key, other counts, no policy, other
\* interfaces.
MCInitial == MCConfig("lan", <<mcA, mcBypass>>, 1)
MCReordered == MCConfig("lan", <<mcBypass, mcA>>, 2)
MCRekeyed == MCConfig("lan", <<mcB, mcNoKey>>, 1)
MCCounts == MCConfig("lan", <<mcA, mcBypass>>, 2)
MCOff == MCConfig("lan", <<>>, 1)
MCMoved == MCConfig("wan", <<mcA>>, 1)

MCTopologies == {"lan", "wan"}
MCActions == {"l3"}
MCIds == {1, 2}
MCKeys == {k1, k2}
MCReloads == {MCInitial, MCReordered, MCRekeyed, MCCounts, MCOff, MCMoved}
MCLive == {MCInitial, MCReordered, MCMoved}

=============================================================================
