----------------------------- MODULE MCWanSelect -----------------------------
(* Instances of WanSelect for TLC. *)
EXTENDS WanSelect

W(n, weight) == [wan |-> n, weight |-> weight]

\* Profile 1 has several WANs, weighted, weighted with one of them off and one
\* listed twice, or unweighted; profile 2 has one, or several of which one is
\* weighted.  Of the windows some are clamped to the least, some not.
MCLists ==
  <<{<<W(0, 3), W(1, 1)>>, <<W(0, 1), W(1, 0), W(2, 1), W(0, 2)>>, <<W(0, 0), W(1, 0), W(2, 0)>>},
    {<<W(2, 1)>>, <<W(2, 0), W(1, 1)>>}>>

MCFlow == {"f"}
MCBucketOf == [f |-> 1]

NoPicks == \A p \in Profile : picked[p] = <<>>
NoFlowYet ==
  /\ clock = 0 /\ next_wan = 0 /\ gc = NoGc
  /\ \A t \in Worker : job[t] = NoJob

\* Round robin and the flow table share nothing that changes: they are followed
\* one or the other, the flow table with the windows of profile 1's lists.
MCOneHalf ==
  \/ NoFlowYet
  \/ NoPicks /\ seq = 0 /\ Len(wans[2]) = 1
       /\ window = [w \in Wan |-> WindowSize(wans, w)]

=============================================================================
