---------------------------- MODULE ConfigGuard ----------------------------
(***************************************************************************)
(* What the reload gate of core/forwarder.c promises, without the gate:    *)
(* threads enter and leave while they handle a packet, and the             *)
(* configuration they work with changes under no thread's feet, but for a  *)
(* copy with the same policies.                                            *)
(***************************************************************************)
CONSTANTS Threads, Configs, InitialConfig

VARIABLES config, inside

Init == config = InitialConfig /\ inside = {}

Enter(t) == t \notin inside /\ inside' = inside \cup {t} /\ UNCHANGED config
Leave(t) == t \in inside /\ inside' = inside \ {t} /\ UNCHANGED config

\* A reload never changes the interfaces: their sockets stay open.
Exchange(c) ==
  /\ inside = {} \/ (c.policies = config.policies /\ c.profile_count = config.profile_count)
  /\ c.topology = config.topology
  /\ config' = c /\ UNCHANGED inside

Next ==
  \/ \E t \in Threads : Enter(t) \/ Leave(t)
  \/ \E c \in Configs : Exchange(c)

Spec == Init /\ [][Next]_<<config, inside>>

=============================================================================
