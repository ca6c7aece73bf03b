------------------------------ MODULE MCXskRx ------------------------------
(* Instances of XskRx for TLC. *)
EXTENDS XskRx

\* Behaviours are followed until one of the first two releases that overlap has
\* ended; later the indices of the fill ring take any values.  Each property is
\* either about the time before an overlap or about its cause, which the state
\* of the overlap itself shows, so nothing that the constraint cuts off could
\* violate one.
MCFirstOverlap == raced => \A t \in Threads : ~Quiet(t)

=============================================================================
