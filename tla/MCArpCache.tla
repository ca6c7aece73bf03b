----------------------------- MODULE MCArpCache -----------------------------
(* An instance of ArpCache for TLC: two addresses that share a hash value at *)
(* the table's end, a third one, and a claim of the address 0.               *)
EXTENDS ArpCache

CONSTANTS a, b, c, m1, m2

MCHash == [ip \in {a, b, c, Zero} |-> IF ip = c THEN 0 ELSE 1]
MCAnswers == {<<a, m1>>, <<b, m1>>}
MCStrays == {<<a, m2>>, <<c, m1>>, <<Zero, m1>>}
MCPeers == <<a>>
=============================================================================
