------------------------------ MODULE MCDaemon ------------------------------
(* Instances of Daemon for TLC. *)
EXTENDS Daemon, TLC

CONSTANTS p1, p2, p3

\* p3 has a WAN more: loading it over the others is rejected.
MCIface == p1 :> {"wan"} @@ p2 :> {"wan"} @@ p3 :> {"wan", "wan2"}
\* All have the same: no reload is rejected.
MCShared == p1 :> {"wan"} @@ p2 :> {"wan"} @@ p3 :> {"wan"}

=============================================================================
