--------------------------- MODULE MCReplication ---------------------------
(* What the commands of a run may be. *)
EXTENDS Replication, TLC

CONSTANTS c1, c2

Pair(k, l) == c1 :> k @@ c2 :> l

\* Two that are queued, or two writes.
Pairs == {Pair("CREATE", "DELETE"), Pair("WRITE", "WRITE")}

\* With one place to a queue: two that are queued, or one and a write.
Mixed == {Pair("DELETE", "DELETE"), Pair("CREATE", "WRITE"), Pair("DELETE", "WRITE")}
=============================================================================
