-------------------------------- MODULE TxFifo --------------------------------
(***************************************************************************)
(* What sending through an AF_XDP queue promises to the threads that do:   *)
(* the packets it accepted leave in the order they were accepted in, each  *)
(* once and as it was given.  Packets may be refused; those that leave may *)
(* leave several at a time.                                                *)
(***************************************************************************)
EXTENDS Naturals, Sequences

CONSTANT Payload

VARIABLE waiting   \* the packets that were accepted and have not left

Init == waiting = <<>>

Accept == \E p \in Payload : waiting' = Append(waiting, p)

Leave == \E n \in 1 .. Len(waiting) : waiting' = SubSeq(waiting, n + 1, Len(waiting))

Next == Accept \/ Leave

Spec == Init /\ [][Next]_waiting

=============================================================================
