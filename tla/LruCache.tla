------------------------------ MODULE LruCache ------------------------------
(***************************************************************************)
(* What the naming server's cache of looked-up paths promises: it holds    *)
(* the paths used last, at most Capacity of them, and makes room for a new *)
(* one by giving up the path whose last use is the longest ago.            *)
(***************************************************************************)
EXTENDS Integers, FiniteSets

CONSTANTS Key, Capacity

VARIABLES
  held,   \* the keys in the cache
  newer   \* <<p, q>>: p was used after q

lru == <<held, newer>>

Init == held = {} /\ newer = {}

Oldest(q) == q \in held /\ \A r \in held \ {q} : <<r, q>> \in newer

MakeRoom(p) ==
  \/ p \in held /\ UNCHANGED held
  \/ /\ p \notin held
     /\ Cardinality(held) < Capacity
     /\ held' = held \cup {p}
  \/ /\ p \notin held
     /\ Cardinality(held) = Capacity
     /\ \E q \in held : Oldest(q) /\ held' = (held \ {q}) \cup {p}

Use(p) ==
  /\ MakeRoom(p)
  /\ LET others == held' \ {p}
     IN  newer' = (newer \cap (others \X others)) \cup ({p} \X others)

Drop(p) ==
  /\ held' = held \ {p}
  /\ newer' = newer \cap (held' \X held')

Next == \E p \in Key : Use(p) \/ Drop(p)

Spec == Init /\ [][Next]_lru
=============================================================================
