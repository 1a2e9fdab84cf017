------------------------ MODULE NamingServerProofs ------------------------
(***************************************************************************)
(* What NamingServer keeps, for any threads, commands, paths, servers and  *)
(* size of the cache: its type; that no path is in the cache twice, unless *)
(* two threads searched for it at once, and that the cache is an LRU cache *)
(* as long as none do; that a path is indexed for a server that is its     *)
(* home, that a client is told of the file it asked for, and how far the   *)
(* cache and the trie agree.  Where nothing keeps two threads apart the    *)
(* histories of NamingServer say so: raced, disturbed, copied, astray.     *)
(***************************************************************************)
EXTENDS NamingServer, WellFoundedInduction, FiniteSetTheorems, TLAPS

-----------------------------------------------------------------------------
(* The array of the cache.                                                 *)

\* A set of numbers that is not empty has a least one.
LEMMA LeastIs ==
  ASSUME NEW S \in SUBSET Nat, S # {}
  PROVE  \E m \in S : \A n \in S : m <= n
<1> DEFINE R == OpToRel(<, Nat)
<1>1. IsWellFoundedOn(R, Nat)
  BY NatLessThanWellFounded
<1>2. \A x, y \in Nat : x < y => <<x, y>> \in R
  BY DEF OpToRel
<1> HIDE DEF R
<1>3. PICK m \in S : \A n \in S : ~ (<<n, m>> \in R)
  BY <1>1, WFMin
<1>4. \A n \in S : ~(n < m)
  BY <1>2, <1>3
<1> QED BY <1>4

\* The position of a path is its first one.
LEMMA PositionIs ==
  ASSUME IndexOK, NEW p, Hit(p)
  PROVE  Position(p) \in 1..count /\ slots[Position(p)].path = p
<1> DEFINE S == {i \in 1..count : slots[i].path = p}
<1>1. S \in SUBSET Nat /\ S # {} /\ count \in Nat
  BY IndexAssumption DEF Hit, IndexOK
<1>2. PICK m \in S : \A n \in S : m <= n
  BY <1>1, LeastIs
<1>3. \A j \in 1..(m - 1) : j \in 1..count /\ ~(m <= j)
  BY <1>1, <1>2
<1>4. m \in 1..count /\ slots[m].path = p /\ \A j \in 1..(m - 1) : slots[j].path # p
  BY <1>2, <1>3
<1> QED BY <1>4 DEF Position

\* What the three operations on the array do, place by place.
LEMMA FindMoves ==
  ASSUME IndexOK, NEW p, Hit(p), find_in_cache(p)
  PROVE  /\ slots' \in [Slot -> Entry \cup {Blank}] /\ count' = count /\ count \in 1..CacheSize
         /\ \E i \in 1..count :
              /\ slots[i].path = p /\ slots'[1] = slots[i]
              /\ \A j \in 2..i : slots'[j] = slots[j - 1]
              /\ \A j \in Slot : j > i => slots'[j] = slots[j]
<1> DEFINE i == Position(p)
<1>1. i \in 1..count /\ slots[i].path = p
  BY PositionIs
<1>2. slots' = [j \in Slot |-> CASE j = 1 -> slots[i]
                                 [] j \in 2..i -> slots[j - 1]
                                 [] OTHER -> slots[j]] /\ count' = count
  BY DEF find_in_cache
<1> HIDE DEF i
<1>3. count \in 1..CacheSize /\ CacheSize \in Nat /\ slots \in [Slot -> Entry \cup {Blank}]
  BY <1>1, IndexAssumption DEF IndexOK
<1>4. i \in Slot /\ 1 \in Slot /\ \A j \in 2..i : j \in Slot /\ j - 1 \in Slot
  BY <1>1, <1>3 DEF Slot
<1>5. slots'[1] = slots[i] /\ \A j \in 2..i : slots'[j] = slots[j - 1]
  BY <1>1, <1>2, <1>4
<1>6. \A j \in Slot : j > i => slots'[j] = slots[j]
  BY <1>1, <1>2, <1>3 DEF Slot
<1>7. slots' \in [Slot -> Entry \cup {Blank}]
  BY <1>2, <1>3, <1>4
<1> QED BY <1>1, <1>2, <1>3, <1>5, <1>6, <1>7

LEMMA AddMoves ==
  ASSUME IndexOK, NEW p \in Path, NEW info \in Info, add_to_cache(p, info)
  PROVE  /\ slots' \in [Slot -> Entry \cup {Blank}] /\ count' \in 1..CacheSize
         /\ slots'[1] = [path |-> p, info |-> info]
         /\ \E kept \in 0..(CacheSize - 1) :
              /\ kept = count \/ (count = CacheSize /\ kept = count - 1)
              /\ count' = kept + 1
              /\ \A j \in 2..(kept + 1) : slots'[j] = slots[j - 1]
              /\ \A j \in Slot : j > kept + 1 => slots'[j] = slots[j]
<1> DEFINE kept == IF count = CacheSize THEN count - 1 ELSE count
           new  == [path |-> p, info |-> info]
<1>1. count \in 0..CacheSize /\ CacheSize \in Nat \ {0} /\ slots \in [Slot -> Entry \cup {Blank}]
  BY IndexAssumption DEF IndexOK
<1>2. kept \in 0..(CacheSize - 1) /\ (kept = count \/ (count = CacheSize /\ kept = count - 1))
  BY <1>1
<1>3. slots' = [j \in Slot |-> CASE j = 1 -> new
                                 [] j \in 2..(kept + 1) -> slots[j - 1]
                                 [] OTHER -> slots[j]] /\ count' = kept + 1
  BY DEF add_to_cache
<1>4. new \in Entry
  BY DEF Entry
<1> HIDE DEF kept, new
<1>5. 1 \in Slot /\ \A j \in 2..(kept + 1) : j \in Slot /\ j - 1 \in Slot
  BY <1>1, <1>2 DEF Slot
<1>6. slots'[1] = new /\ \A j \in 2..(kept + 1) : slots'[j] = slots[j - 1]
  BY <1>2, <1>3, <1>5
<1>7. \A j \in Slot : j > kept + 1 => slots'[j] = slots[j]
  BY <1>1, <1>2, <1>3 DEF Slot
<1>8. slots' \in [Slot -> Entry \cup {Blank}]
  BY <1>1, <1>3, <1>4, <1>5
<1>9. count' \in 1..CacheSize
  BY <1>1, <1>2, <1>3
<1> QED BY <1>2, <1>3, <1>6, <1>7, <1>8, <1>9 DEF new

LEMMA RemoveMoves ==
  ASSUME IndexOK, NEW p, Hit(p), remove_from_cache(p)
  PROVE  /\ slots' \in [Slot -> Entry \cup {Blank}] /\ count \in 1..CacheSize /\ count' = count - 1
         /\ \E i \in 1..count :
              /\ slots[i].path = p
              /\ \A j \in Slot : i <= j /\ j < count => slots'[j] = slots[j + 1]
              /\ \A j \in Slot : ~(i <= j /\ j < count) => slots'[j] = slots[j]
<1> DEFINE i == Position(p)
<1>1. i \in 1..count /\ slots[i].path = p
  BY PositionIs
<1>2. slots' = [j \in Slot |-> IF i <= j /\ j < count THEN slots[j + 1] ELSE slots[j]]
      /\ count' = count - 1
  BY DEF remove_from_cache
<1> HIDE DEF i
<1>3. count \in 1..CacheSize /\ CacheSize \in Nat /\ slots \in [Slot -> Entry \cup {Blank}]
  BY <1>1, IndexAssumption DEF IndexOK
<1>4. \A j \in Slot : j < count => j + 1 \in Slot
  BY <1>3 DEF Slot
<1>5. slots' \in [Slot -> Entry \cup {Blank}]
  BY <1>2, <1>3, <1>4
<1>6. /\ \A j \in Slot : i <= j /\ j < count => slots'[j] = slots[j + 1]
      /\ \A j \in Slot : ~(i <= j /\ j < count) => slots'[j] = slots[j]
  BY <1>2
<1> QED BY <1>1, <1>2, <1>3, <1>5, <1>6

\* The array stays an array, its entries stay entries, and its first place, once
\* it holds an entry, holds one.
LEMMA FindType ==
  ASSUME IndexOK, NEW p, Hit(p), find_in_cache(p), UNCHANGED trie
  PROVE  IndexOK' /\ slots'[1] \in Entry /\ slots'[1].path = p
<1>1. PICK i \in 1..count :
        /\ slots[i].path = p /\ slots'[1] = slots[i]
        /\ \A j \in 2..i : slots'[j] = slots[j - 1]
        /\ \A j \in Slot : j > i => slots'[j] = slots[j]
  BY FindMoves
<1>2. /\ count \in 1..CacheSize /\ CacheSize \in Nat /\ \A j \in 1..count : slots[j] \in Entry
      /\ slots' \in [Slot -> Entry \cup {Blank}] /\ count' = count
  BY FindMoves, IndexAssumption DEF IndexOK
<1>3. ASSUME NEW j \in 1..count PROVE slots'[j] \in Entry
  <2>1. CASE j = 1
    BY <1>1, <1>2, <2>1
  <2>2. CASE j \in 2..i
    <3>1. j - 1 \in 1..count
      BY <1>2, <2>2
    <3> QED BY <1>1, <1>2, <2>2, <3>1
  <2>3. CASE j > i
    <3>1. j \in Slot
      BY <1>2 DEF Slot
    <3> QED BY <1>1, <1>2, <2>3, <3>1
  <2> QED BY <1>1, <2>1, <2>2, <2>3
<1>4. slots'[1] \in Entry
  BY <1>2, <1>3
<1> QED BY <1>1, <1>2, <1>3, <1>4 DEF IndexOK

LEMMA AddType ==
  ASSUME IndexOK, NEW p \in Path, NEW info \in Info, add_to_cache(p, info), UNCHANGED trie
  PROVE  IndexOK' /\ slots'[1] \in Entry
<1>1. PICK kept \in 0..(CacheSize - 1) :
        /\ kept = count \/ (count = CacheSize /\ kept = count - 1)
        /\ count' = kept + 1
        /\ \A j \in 2..(kept + 1) : slots'[j] = slots[j - 1]
        /\ \A j \in Slot : j > kept + 1 => slots'[j] = slots[j]
  BY AddMoves
<1>2. slots'[1] \in Entry
  <2>1. slots'[1] = [path |-> p, info |-> info]
    BY AddMoves
  <2> QED BY <2>1 DEF Entry
<1>3. count \in 0..CacheSize /\ CacheSize \in Nat /\ \A j \in 1..count : slots[j] \in Entry
  BY IndexAssumption DEF IndexOK
<1>4. ASSUME NEW j \in 1..(kept + 1) PROVE slots'[j] \in Entry
  <2>1. CASE j = 1
    BY <1>2, <2>1
  <2>2. CASE j # 1
    <3>1. j \in 2..(kept + 1) /\ j - 1 \in 1..count
      BY <1>1, <1>3, <2>2
    <3> QED BY <1>1, <1>3, <3>1
  <2> QED BY <2>1, <2>2
<1>5. count' \in 0..CacheSize /\ slots' \in [Slot -> Entry \cup {Blank}]
  <2>1. slots' \in [Slot -> Entry \cup {Blank}] /\ count' \in 1..CacheSize
    BY AddMoves
  <2> QED BY <1>3, <2>1
<1> QED BY <1>1, <1>2, <1>4, <1>5 DEF IndexOK

LEMMA RemoveType ==
  ASSUME IndexOK, NEW p, remove_from_cache(p), UNCHANGED trie
  PROVE  IndexOK' /\ (slots[1] \in Entry => slots'[1] \in Entry)
<1>1. CASE ~Hit(p)
  BY <1>1 DEF remove_from_cache, IndexOK
<1>2. CASE Hit(p)
  <2>1. PICK i \in 1..count :
          /\ slots[i].path = p
          /\ \A j \in Slot : i <= j /\ j < count => slots'[j] = slots[j + 1]
          /\ \A j \in Slot : ~(i <= j /\ j < count) => slots'[j] = slots[j]
    BY <1>2, RemoveMoves
  <2>2. /\ count \in 1..CacheSize /\ CacheSize \in Nat \ {0} /\ \A j \in 1..count : slots[j] \in Entry
        /\ slots' \in [Slot -> Entry \cup {Blank}] /\ count' = count - 1
    BY <1>2, RemoveMoves, IndexAssumption DEF IndexOK
  <2>3. \A j \in 1..(count - 1) : j \in Slot /\ j < count /\ j + 1 \in 1..count /\ j \in 1..count
    BY <2>2 DEF Slot
  <2>4. \A j \in 1..(count - 1) : slots'[j] \in Entry
    BY <2>1, <2>2, <2>3
  <2>5. slots[1] \in Entry => slots'[1] \in Entry
    <3>1. 1 \in Slot
      BY <2>2 DEF Slot
    <3>2. CASE count = 1
      BY <2>1, <3>1, <3>2
    <3>3. CASE count # 1
      <4>1. 1 \in 1..(count - 1)
        BY <2>2, <3>3
      <4> QED BY <2>4, <4>1
    <3> QED BY <3>2, <3>3
  <2>6. count' \in 0..CacheSize
    BY <2>2
  <2> QED BY <2>2, <2>4, <2>5, <2>6 DEF IndexOK
<1> QED BY <1>1, <1>2
-----------------------------------------------------------------------------
(* The type invariant.                                                     *)

\* What a thread does fits the command it serves.
CmdOK(t) ==
  pc[t] # "idle" =>
    /\ cmd[t] \in Command
    /\ pc[t] \in {"find_file", "search_file", "record", "created"} => cmd[t].op = "CREATE"
    /\ pc[t] \in {"stat", "find_dest", "search_dest", "check_dest", "copy_wait", "copy_index",
                  "copy_request"}
         => cmd[t].op = "COPY"
    /\ pc[t] \in {"uncache", "untrie"} => cmd[t].op = "DELETE"
    /\ pc[t] = "request" => cmd[t].op \in {"CREATE", "DELETE"}
    /\ pc[t] = "found" => cmd[t].op # "CREATE"

TypeInv == StateOK /\ \A t \in Thread : CmdOK(t)

Sents == [to : SUBSET Thread, kind : Kind, info : Info \cup {Junk, NoInfo}]

\* A command names paths.
LEMMA CommandSays ==
  \A c \in Command : /\ c \in AnyCommand /\ c.path \in Path
                     /\ c.op \in {"READ", "WRITE", "INFO", "STREAM", "DELETE", "CREATE", "COPY"}
                     /\ c.op \in {"CREATE", "COPY"} => c.to \in Path
BY ServerAssumption DEF AnyCommand

\* Pointers stay good where what they lead to does.
LeadsStay == /\ slots[1] \in Entry => slots'[1] \in Entry
             /\ \A p \in Path : trie[p] \in Info => trie'[p] \in Info

LEMMA PointersStay ==
  ASSUME LeadsStay, NEW x, PointerOK(x) PROVE PointerOK(x)'
<1>1. CASE x = NullPtr
  BY <1>1 DEF PointerOK, NullPtr, Pointer
<1>2. CASE x = SlotPtr /\ slots[1] \in Entry
  BY <1>2 DEF PointerOK, SlotPtr, Pointer, LeadsStay
<1>3. ASSUME NEW p \in Path, x = FreedPtr(p) PROVE PointerOK(x)'
  BY <1>3 DEF PointerOK, FreedPtr, Pointer
<1>4. ASSUME NEW p \in Path, x = NodePtr(p), trie[p] \in Info PROVE PointerOK(x)'
  BY <1>4 DEF PointerOK, NodePtr, Pointer, LeadsStay
<1>5. ASSUME NEW i \in Info, x = KeptPtr(i) PROVE PointerOK(x)'
  BY <1>5 DEF PointerOK, KeptPtr, Pointer
<1> QED BY <1>1, <1>2, <1>3, <1>4, <1>5 DEF PointerOK

\* Whatever is read through a pointer is a FILEINFO.
LEMMA ReadsInfo ==
  ASSUME IndexOK, NEW x, PointerOK(x) PROVE Read(x) \subseteq Info
<1>1. CASE x = NullPtr
  BY <1>1 DEF Read, NullPtr, Pointer
<1>2. CASE x = SlotPtr /\ slots[1] \in Entry
  <2>1. Read(x) = {slots[1].info}
    BY <1>2 DEF Read, SlotPtr, Pointer
  <2> QED BY <1>2, <2>1 DEF Entry
<1>3. ASSUME NEW p \in Path, x = FreedPtr(p) PROVE Read(x) \subseteq Info
  <2>1. x.at = "freed" /\ x.path = p
    BY <1>3 DEF FreedPtr, Pointer
  <2>2. [server |-> NoServer, path |-> p] \in Info
    BY DEF Info
  <2> QED BY <2>1, <2>2 DEF Read
<1>4. ASSUME NEW p \in Path, x = NodePtr(p), trie[p] \in Info PROVE Read(x) \subseteq Info
  BY <1>4 DEF Read, NodePtr, Pointer
<1>5. ASSUME NEW i \in Info, x = KeptPtr(i) PROVE Read(x) \subseteq Info
  BY <1>5 DEF Read, KeptPtr, Pointer
<1> QED BY <1>1, <1>2, <1>3, <1>4, <1>5 DEF PointerOK

\* A lookup returns a good pointer, and leaves the others good.
LEMMA LookupType ==
  ASSUME IndexOK, NEW t \in Thread, NEW from, NEW p \in Path, NEW result \in Pointers(p),
         LookedUp(t, from, p, result)
  PROVE  IndexOK' /\ LeadsStay /\ PointerOK(result)' /\ UNCHANGED trie
<1>1. CASE find_cached(p, result)
  <2>1. Hit(p) /\ result = SlotPtr /\ find_in_cache(p) /\ UNCHANGED trie
    BY <1>1 DEF find_cached
  <2>2. IndexOK' /\ slots'[1] \in Entry
    BY <2>1, FindType
  <2> QED BY <2>1, <2>2 DEF LeadsStay, PointerOK, SlotPtr, Pointer
<1>2. CASE find_in_trie(p, result)
  <2>1. UNCHANGED trie
    BY <1>2 DEF find_in_trie
  <2>2. CASE trie[p] \in Info /\ result = NodePtr(p) /\ add_to_cache(p, trie[p])
    <3>1. IndexOK' /\ slots'[1] \in Entry
      BY <2>1, <2>2, AddType
    <3> QED BY <2>1, <2>2, <3>1 DEF LeadsStay, PointerOK, NodePtr, Pointer
  <2>3. CASE result = NullPtr /\ UNCHANGED <<slots, count>>
    BY <2>1, <2>3 DEF LeadsStay, PointerOK, NullPtr, Pointer, IndexOK
  <2> QED BY <1>2, <2>2, <2>3 DEF find_in_trie
<1> QED BY <1>1, <1>2 DEF LookedUp

\* A step of a thread keeps the type where it does so for what it changes.
LEMMA StepKeeps ==
  ASSUME TypeInv, NEW t \in Thread, NEW to \in Location, pc' = [pc EXCEPT ![t] = to],
         IndexOK', UNCHANGED <<registered, active>>,
         disk' \in [Server -> SUBSET Path], up' \in BOOLEAN, sent' \in Sents,
         cmd' \in [Thread -> AnyCommand \cup {None}], \A u \in Thread \ {t} : cmd'[u] = cmd[u],
         CmdOK(t)', found' \in [Thread -> Info \cup {Junk}], target' \in [Thread -> Info \cup {Junk}],
         outcome' \in [Thread -> Outcome], DOMAIN ptr' = Thread,
         \A u \in Thread : PointerOK(ptr[u])'
  PROVE  TypeInv'
<1>1. pc' \in [Thread -> Location] /\ \A u \in Thread \ {t} : pc'[u] = pc[u]
  BY DEF TypeInv, StateOK
<1>2. \A u \in Thread \ {t} : CmdOK(u)'
  BY <1>1 DEF TypeInv, CmdOK
<1>3. StateOK'
  BY <1>1 DEF TypeInv, StateOK, Sents
<1> QED BY <1>2, <1>3 DEF TypeInv

\* The thread goes on with its command ...
LEMMA GoesOn ==
  ASSUME TypeInv, NEW t \in Thread, NEW from, NEW to \in Location, Step(t, from, to),
         IndexOK', LeadsStay, UNCHANGED <<registered, active, up, cmd>>,
         disk' \in [Server -> SUBSET Path], Quiet, CmdOK(t)',
         found' \in [Thread -> Info \cup {Junk}], target' \in [Thread -> Info \cup {Junk}],
         outcome' \in [Thread -> Outcome],
         UNCHANGED ptr \/ \E x : PointerOK(x)' /\ ptr' = [ptr EXCEPT ![t] = x]
  PROVE  TypeInv'
<1>1. DOMAIN ptr = Thread /\ \A u \in Thread : PointerOK(ptr[u])
  BY DEF TypeInv, StateOK
<1>2. DOMAIN ptr' = Thread /\ \A u \in Thread : PointerOK(ptr[u])'
  <2>1. ASSUME UNCHANGED ptr, NEW u \in Thread PROVE PointerOK(ptr[u])'
    <3>1. PointerOK(ptr[u])
      BY <1>1
    <3> QED BY <2>1, <3>1, PointersStay DEF PointerOK
  <2>2. ASSUME NEW x, PointerOK(x)', ptr' = [ptr EXCEPT ![t] = x] PROVE \A u \in Thread : PointerOK(ptr[u])'
    <3>1. ASSUME NEW u \in Thread \ {t} PROVE PointerOK(ptr[u])'
      <4>1. ptr'[u] = ptr[u] /\ PointerOK(ptr[u])
        BY <1>1, <2>2
      <4> QED BY <4>1, PointersStay DEF PointerOK
    <3>2. ptr'[t] = x
      BY <1>1, <2>2
    <3> QED BY <2>2, <3>1, <3>2 DEF PointerOK
  <2> QED BY <1>1, <2>1, <2>2
<1>3. sent' \in Sents
  BY DEF Quiet, Nothing, Message, Sents, Kind, Outcome
<1>4. pc' = [pc EXCEPT ![t] = to] /\ up' \in BOOLEAN /\ cmd' \in [Thread -> AnyCommand \cup {None}]
  BY DEF Step, TypeInv, StateOK
<1> QED BY <1>2, <1>3, <1>4, StepKeeps

\* ... or returns.
LEMMA Returns ==
  ASSUME TypeInv, NEW t \in Thread, NEW from, Return(t, from),
         IndexOK', LeadsStay, UNCHANGED <<registered, active>>,
         disk' \in [Server -> SUBSET Path], up' \in BOOLEAN, sent' \in Sents
  PROVE  TypeInv'
<1>1. /\ pc' = [pc EXCEPT ![t] = "idle"] /\ cmd' = [cmd EXCEPT ![t] = None]
      /\ found' = [found EXCEPT ![t] = Junk] /\ target' = [target EXCEPT ![t] = Junk]
      /\ outcome' = [outcome EXCEPT ![t] = "none"] /\ ptr' = [ptr EXCEPT ![t] = NullPtr]
  BY DEF Return, Leave, Step
<1>2. DOMAIN ptr = Thread /\ \A u \in Thread : PointerOK(ptr[u])
  BY DEF TypeInv, StateOK
<1>3. DOMAIN ptr' = Thread /\ \A u \in Thread : PointerOK(ptr[u])'
  <2>1. ASSUME NEW u \in Thread \ {t} PROVE PointerOK(ptr[u])'
    <3>1. ptr'[u] = ptr[u] /\ PointerOK(ptr[u])
      BY <1>1, <1>2
    <3> QED BY <3>1, PointersStay DEF PointerOK
  <2>2. ptr'[t] = NullPtr
    BY <1>1, <1>2
  <2>3. PointerOK(ptr[t])'
    BY <2>2 DEF PointerOK, NullPtr, Pointer
  <2> QED BY <1>1, <1>2, <2>1, <2>3
<1>4. /\ cmd' \in [Thread -> AnyCommand \cup {None}] /\ \A u \in Thread \ {t} : cmd'[u] = cmd[u]
      /\ found' \in [Thread -> Info \cup {Junk}] /\ target' \in [Thread -> Info \cup {Junk}]
      /\ outcome' \in [Thread -> Outcome]
  BY <1>1 DEF TypeInv, StateOK, Outcome
<1>5. CmdOK(t)' /\ "idle" \in Location
  BY <1>1 DEF CmdOK, TypeInv, StateOK, Location
<1> QED BY <1>1, <1>3, <1>4, <1>5, StepKeeps

\* It returns and the index is as it was.
LEMMA AnswerType ==
  ASSUME TypeInv, NEW t \in Thread, NEW from, Return(t, from), UNCHANGED <<index, registered, active>>,
         disk' \in [Server -> SUBSET Path], up' \in BOOLEAN, sent' \in Sents
  PROVE  TypeInv'
<1>1. IndexOK' /\ LeadsStay
  BY DEF TypeInv, StateOK, IndexOK, LeadsStay, index
<1> QED BY <1>1, Returns

LEMMA SaysType ==
  ASSUME NEW t \in Thread, NEW kind \in Kind, NEW info \in Info \cup {Junk, NoInfo}, Say(t, kind, info)
  PROVE  sent' \in Sents
BY DEF Say, Message, Sents

LEMMA QuietType == Quiet => sent' \in Sents
BY DEF Quiet, Nothing, Message, Sents, Kind, Outcome

LEMMA AnswerKeeps ==
  ASSUME TypeInv, NEW t \in Thread, NEW from, NEW kind \in Kind, NEW info \in Info \cup {Junk, NoInfo},
         Answer(t, from, kind, info)
  PROVE  TypeInv'
<1>1. sent' \in Sents
  BY SaysType DEF Answer
<1> QED BY <1>1, AnswerType DEF Answer, servers, TypeInv, StateOK

LEMMA GiveUpKeeps ==
  ASSUME TypeInv, NEW t \in Thread, NEW from, GiveUp(t, from) PROVE TypeInv'
BY QuietType, AnswerType DEF GiveUp, servers, TypeInv, StateOK

\* The steps that leave the index alone.
LEMMA QuietSteps ==
  ASSUME TypeInv, NEW t \in Thread,
         \/ CopyStat(t) \/ Undotted(t) \/ Miss(t) \/ Missing(t) \/ Present(t) \/ Check(t)
         \/ Send(t) \/ Unreachable(t) \/ StorageCreate(t) \/ CreateAnswer(t) \/ StorageDelete(t)
         \/ CopyCheckDest(t) \/ CopyBroken(t) \/ StorageCopy(t)
  PROVE  TypeInv'
<1>1. StateOK /\ IndexOK /\ CmdOK(t) /\ PointerOK(ptr[t])
  BY DEF TypeInv, StateOK
<1>2. Read(ptr[t]) \subseteq Info
  BY <1>1, ReadsInfo
<1>3. ASSUME UNCHANGED index PROVE IndexOK' /\ LeadsStay
  BY <1>1, <1>3 DEF IndexOK, LeadsStay, index
\* Goes on and leaves everything but its own locals alone.
<1>4. ASSUME NEW from, NEW to \in Location, Step(t, from, to), UNCHANGED <<index, registered, active, up, cmd, ptr>>,
             disk' \in [Server -> SUBSET Path], Quiet, CmdOK(t)',
             found' \in [Thread -> Info \cup {Junk}], target' \in [Thread -> Info \cup {Junk}],
             outcome' \in [Thread -> Outcome]
      PROVE  TypeInv'
  BY <1>3, <1>4, GoesOn
<1>5. ASSUME NEW from, NEW to \in Location, Step(t, from, to), UNCHANGED <<index, servers, up, locals>>,
             Quiet, CmdOK(t)'
      PROVE  TypeInv'
  BY <1>1, <1>4, <1>5 DEF servers, locals, StateOK
<1>6. ASSUME NEW from, NEW to, Step(t, from, to) PROVE pc[t] = from /\ pc'[t] = to
  BY <1>1, <1>6 DEF Step, StateOK
<1>7. CASE CopyStat(t)
  <2>1. CASE GiveUp(t, "stat")
    BY <2>1, GiveUpKeeps
  <2>2. CASE Answer(t, "stat", "dest is a file", NoInfo)
    BY <2>2, AnswerKeeps DEF Kind
  <2>3. CASE Step(t, "stat", "find") /\ UNCHANGED <<index, servers, up, locals>> /\ Quiet
    <3>1. CmdOK(t)'
      BY <1>1, <1>6, <2>3 DEF CmdOK, locals
    <3> QED BY <1>5, <2>3, <3>1 DEF Location
  <2> QED BY <1>7, <2>1, <2>2, <2>3 DEF CopyStat
<1>8. CASE Undotted(t) \/ Unreachable(t) \/ CopyBroken(t)
  BY <1>8, GiveUpKeeps DEF Undotted, Unreachable, CopyBroken
<1>9. CASE Miss(t)
  <2>1. PICK from \in DOMAIN Searching :
          Step(t, from, Searching[from]) /\ UNCHANGED <<index, servers, up, locals>> /\ Quiet
    BY <1>9 DEF Miss
  <2>2. from \in {"find", "find_file", "find_dest"} /\ Searching[from] \in Location
    BY DEF Searching, Location
  <2>3. CmdOK(t)'
    BY <1>1, <1>6, <2>1, <2>2 DEF CmdOK, locals, Searching
  <2> QED BY <1>5, <2>1, <2>2, <2>3
<1>10. CASE Missing(t)
  <2>1. sent' \in Sents
    BY <1>10, SaysType DEF Missing, Kind
  <2> QED BY <1>1, <1>10, <2>1, AnswerType DEF Missing, servers, StateOK
<1>11. CASE Present(t)
  <2>1. /\ Step(t, "found", "check") /\ UNCHANGED <<index, servers, up, cmd, ptr, target, outcome>> /\ Quiet
        /\ \E x \in Info : found' = [found EXCEPT ![t] = x] \/ found' = [found EXCEPT ![t] = @]
    BY <1>2, <1>11 DEF Present
  <2>2. CmdOK(t)'
    BY <1>1, <1>6, <2>1 DEF CmdOK
  <2>3. found' \in [Thread -> Info \cup {Junk}]
    BY <1>1, <2>1 DEF StateOK
  <2> QED BY <1>1, <1>4, <2>1, <2>2, <2>3 DEF servers, Location, StateOK
<1>12. CASE Check(t)
  <2>1. CASE ReadCheck(t)
    BY <1>1, <2>1, AnswerKeeps DEF ReadCheck, StateOK, Kind
  <2>2. ASSUME Answer(t, "check", "not active", NoInfo) PROVE TypeInv'
    BY <2>2, AnswerKeeps DEF Kind
  <2>3. ASSUME Step(t, "check", "send") \/ (Step(t, "check", "find_dest") /\ cmd[t].op = "COPY"),
               UNCHANGED <<index, servers, up, locals>>, Quiet
        PROVE  TypeInv'
    <3>1. CmdOK(t)'
      BY <1>1, <1>6, <2>3 DEF CmdOK, locals
    <3> QED BY <1>5, <2>3, <3>1 DEF Location
  <2>4. CASE InfoCheck(t) \/ WriteCheck(t) \/ CopyCheck(t)
    BY <2>2, <2>3, <2>4 DEF InfoCheck, WriteCheck, CopyCheck
  <2>5. CASE RequestCheck(t)
    <3>1. PICK x \in Info :
            \/ GiveUp(t, "check") \/ Answer(t, "check", "not active", NoInfo)
            \/ /\ Step(t, "check", "request") /\ target' = [target EXCEPT ![t] = x]
               /\ UNCHANGED <<index, servers, up, cmd, ptr, found, outcome>> /\ Quiet
      BY <1>2, <2>5 DEF RequestCheck
    <3>2. CASE /\ Step(t, "check", "request") /\ target' = [target EXCEPT ![t] = x]
               /\ UNCHANGED <<index, servers, up, cmd, ptr, found, outcome>> /\ Quiet
      <4>1. CmdOK(t)'
        <5>1. cmd[t].op \in {"CREATE", "DELETE"}
          BY <2>5 DEF RequestCheck
        <5>2. pc[t] = "check" /\ pc'[t] = "request" /\ cmd' = cmd
          BY <1>6, <3>2
        <5> QED BY <1>1, <5>1, <5>2 DEF CmdOK
      <4>2. target' \in [Thread -> Info \cup {Junk}]
        BY <1>1, <3>2 DEF StateOK
      <4> QED BY <1>1, <1>4, <3>2, <4>1, <4>2 DEF servers, Location, StateOK
    <3> QED BY <2>2, <3>1, <3>2, GiveUpKeeps
  <2> QED BY <1>12, <2>1, <2>4, <2>5 DEF Check
<1>13. CASE Send(t)
  BY <1>2, <1>13, AnswerKeeps DEF Send, Kind
<1>14. CASE StorageCreate(t)
  <2>1. /\ Step(t, "request", "record") /\ cmd[t].op = "CREATE"
        /\ UNCHANGED <<index, registered, active, up, cmd, ptr, found, target>> /\ Quiet
    BY <1>14 DEF StorageCreate
  <2>2. CmdOK(t)'
    BY <1>1, <1>6, <2>1 DEF CmdOK
  <2>3. cmd[t].path \in Path /\ cmd[t].to \in Path
    BY <1>1, <1>6, <2>1, CommandSays DEF CmdOK
  <2>4. disk' \in [Server -> SUBSET Path]
    <3>1. \A s \in Server : disk[s] \cup {cmd[t].path, cmd[t].to} \in SUBSET Path
      BY <1>1, <2>3 DEF StateOK
    <3> QED BY <1>1, <1>14, <3>1 DEF StorageCreate, StateOK
  <2>5. outcome' \in [Thread -> Outcome]
    BY <1>1, <1>14 DEF StorageCreate, StateOK, Outcome
  <2> QED BY <1>1, <1>4, <2>1, <2>2, <2>4, <2>5 DEF Location, StateOK
<1>15. CASE CreateAnswer(t)
  BY <1>1, <1>15, AnswerKeeps DEF CreateAnswer, StateOK, Kind
<1>16. CASE StorageDelete(t)
  <2>1. /\ Step(t, "request", "uncache") /\ cmd[t].op = "DELETE"
        /\ UNCHANGED <<index, registered, active, up, cmd, ptr, found, target>> /\ Quiet
    BY <1>16 DEF StorageDelete
  <2>2. CmdOK(t)'
    BY <1>1, <1>6, <2>1 DEF CmdOK
  <2>3. disk' \in [Server -> SUBSET Path] /\ outcome' \in [Thread -> Outcome]
    BY <1>1, <1>16 DEF StorageDelete, StateOK, Outcome
  <2> QED BY <1>1, <1>4, <2>1, <2>2, <2>3 DEF Location, StateOK
<1>17. CASE CopyCheckDest(t)
  <2>1. PICK x \in Info :
          \/ GiveUp(t, "check_dest") \/ Answer(t, "check_dest", "not active", NoInfo)
          \/ /\ Return(t, "check_dest") /\ Quiet
             /\ disk' = [disk EXCEPT ![x.server] = @ \cup {x.path}]
             /\ UNCHANGED <<index, registered, active, up>>
          \/ /\ Step(t, "check_dest", "copy_index") \/ Step(t, "check_dest", "copy_wait")
             /\ target' = [target EXCEPT ![t] = x]
             /\ UNCHANGED <<index, servers, up, cmd, ptr, found, outcome>> /\ Quiet
    BY <1>2, <1>17 DEF CopyCheckDest
  <2>2. ASSUME NEW to \in {"copy_index", "copy_wait"}, Step(t, "check_dest", to),
               target' = [target EXCEPT ![t] = x],
               UNCHANGED <<index, servers, up, cmd, ptr, found, outcome>>, Quiet
        PROVE  TypeInv'
    <3>1. CmdOK(t)'
      BY <1>1, <1>6, <2>2 DEF CmdOK
    <3>2. target' \in [Thread -> Info \cup {Junk}]
      BY <1>1, <2>2 DEF StateOK
    <3>3. to \in Location
      BY DEF Location
    <3> QED BY <1>1, <1>4, <2>2, <3>1, <3>2, <3>3 DEF servers, StateOK
  <2>3. CASE Answer(t, "check_dest", "not active", NoInfo)
    BY <2>3, AnswerKeeps DEF Kind
  <2>4. CASE /\ Return(t, "check_dest") /\ Quiet
             /\ disk' = [disk EXCEPT ![x.server] = @ \cup {x.path}]
             /\ UNCHANGED <<index, registered, active, up>>
    <3>1. x.path \in Path
      BY DEF Info
    <3>2. disk' \in [Server -> SUBSET Path]
      BY <1>1, <2>4, <3>1 DEF StateOK
    <3> QED BY <1>1, <2>4, <3>2, AnswerType, QuietType DEF StateOK
  <2> QED BY <2>1, <2>2, <2>3, <2>4, GiveUpKeeps
<1>18. CASE StorageCopy(t)
  <2>1. sent' \in Sents
    BY <1>18, SaysType DEF StorageCopy, Kind
  <2>2. disk' \in [Server -> SUBSET Path]
    <3>1. UNCHANGED disk \/ \E s, D : disk' = [disk EXCEPT ![s] = @ \cup (D \cap Path)]
      BY <1>18 DEF StorageCopy
    <3> QED BY <1>1, <3>1 DEF StateOK
  <2> QED BY <1>1, <1>18, <2>1, <2>2, AnswerType DEF StorageCopy, StateOK
<1> QED BY <1>7, <1>8, <1>9, <1>10, <1>11, <1>12, <1>13, <1>14, <1>15, <1>16, <1>17, <1>18

\* The lookups.
LEMMA LookupSteps ==
  ASSUME TypeInv, NEW t \in Thread, Find(t) \/ CreateFind(t) \/ CopyFindDest(t) PROVE TypeInv'
<1>1. StateOK /\ IndexOK /\ CmdOK(t)
  BY DEF TypeInv, StateOK
<1>2. ASSUME NEW from, NEW to, Step(t, from, to) PROVE pc[t] = from /\ pc'[t] = to
  BY <1>1, <1>2 DEF Step, StateOK
<1>3. CASE Find(t)
  <2>1. /\ Step(t, pc[t], IF cmd[t].op = "CREATE" THEN "find_file" ELSE "found")
        /\ UNCHANGED <<servers, up, cmd, found, target, outcome>> /\ Quiet
    BY <1>3 DEF Find
  <2>2. PICK result \in Pointers(cmd[t].path) :
          LookedUp(t, "find", cmd[t].path, result) /\ ptr' = [ptr EXCEPT ![t] = result]
    BY <1>3 DEF Find
  <2>3. pc[t] \in {"find", "search"}
    BY <2>2 DEF LookedUp, Searching
  <2>4. cmd[t].path \in Path
    BY <1>1, <2>3, CommandSays DEF CmdOK
  <2>5. IndexOK' /\ LeadsStay /\ PointerOK(result)'
    BY <1>1, <2>2, <2>4, LookupType
  <2>6. CmdOK(t)'
    BY <1>1, <1>2, <2>1, <2>3 DEF CmdOK
  <2>7. (IF cmd[t].op = "CREATE" THEN "find_file" ELSE "found") \in Location
    BY DEF Location
  <2> QED BY <1>1, <2>1, <2>2, <2>5, <2>6, <2>7, GoesOn DEF servers, StateOK
<1>4. CASE CreateFind(t)
  <2>1. PICK result \in Pointers(cmd[t].to) :
          /\ LookedUp(t, "find_file", cmd[t].to, result)
          /\ UNCHANGED <<servers, up>>
          /\ \/ Return(t, pc[t]) /\ Say(t, "exists", NoInfo)
             \/ Return(t, pc[t]) /\ Say(t, "not found", NoInfo)
             \/ Step(t, pc[t], "check") /\ UNCHANGED locals /\ Quiet
    BY <1>4 DEF CreateFind
  <2>2. pc[t] \in {"find_file", "search_file"}
    BY <2>1 DEF LookedUp, Searching
  <2>3. cmd[t].to \in Path
    BY <1>1, <2>2, CommandSays DEF CmdOK
  <2>4. IndexOK' /\ LeadsStay
    BY <1>1, <2>1, <2>3, LookupType
  <2>5. ASSUME Return(t, pc[t]), Say(t, "exists", NoInfo) \/ Say(t, "not found", NoInfo) PROVE TypeInv'
    <3>1. sent' \in Sents
      BY <2>5, SaysType DEF Kind
    <3> QED BY <1>1, <2>1, <2>4, <2>5, <3>1, Returns DEF servers, StateOK
  <2>6. ASSUME Step(t, pc[t], "check"), UNCHANGED locals, Quiet PROVE TypeInv'
    <3>1. CmdOK(t)'
      BY <1>1, <1>2, <2>2, <2>6 DEF CmdOK, locals
    <3> QED BY <1>1, <2>1, <2>4, <2>6, <3>1, GoesOn DEF servers, locals, Location, StateOK
  <2> QED BY <2>1, <2>5, <2>6
<1>5. CASE CopyFindDest(t)
  <2>1. PICK result \in Pointers(cmd[t].to) :
          /\ LookedUp(t, "find_dest", cmd[t].to, result)
          /\ UNCHANGED <<servers, up>>
          /\ \/ Return(t, pc[t]) /\ Say(t, "not found", NoInfo)
             \/ /\ Step(t, pc[t], "check_dest") /\ ptr' = [ptr EXCEPT ![t] = result]
                /\ UNCHANGED <<cmd, found, target, outcome>> /\ Quiet
    BY <1>5 DEF CopyFindDest
  <2>2. pc[t] \in {"find_dest", "search_dest"}
    BY <2>1 DEF LookedUp, Searching
  <2>3. cmd[t].to \in Path
    BY <1>1, <2>2, CommandSays DEF CmdOK
  <2>4. IndexOK' /\ LeadsStay /\ PointerOK(result)'
    BY <1>1, <2>1, <2>3, LookupType
  <2>5. ASSUME Return(t, pc[t]), Say(t, "not found", NoInfo) PROVE TypeInv'
    <3>1. sent' \in Sents
      BY <2>5, SaysType DEF Kind
    <3> QED BY <1>1, <2>1, <2>4, <2>5, <3>1, Returns DEF servers, StateOK
  <2>6. ASSUME Step(t, pc[t], "check_dest"), ptr' = [ptr EXCEPT ![t] = result],
               UNCHANGED <<cmd, found, target, outcome>>, Quiet
        PROVE  TypeInv'
    <3>1. CmdOK(t)'
      BY <1>1, <1>2, <2>2, <2>6 DEF CmdOK
    <3> QED BY <1>1, <2>1, <2>4, <2>6, <3>1, GoesOn DEF servers, Location, StateOK
  <2> QED BY <2>1, <2>5, <2>6
<1> QED BY <1>3, <1>4, <1>5

\* What the four operations on the trie leave of its type.
LEMMA UpdateType ==
  ASSUME IndexOK, NEW paths \in SUBSET Path, NEW s \in Server \cup {NoServer}, update_file_info(paths, s)
  PROVE  /\ trie' \in [Path -> Info \cup {NoNode, NoInfo}]
         /\ \A p \in Path : trie[p] \in Info => trie'[p] \in Info
<1>1. \A q \in Path : [server |-> s, path |-> q] \in Info
  BY DEF Info
<1>2. \A q \in Path :
        trie'[q] = CASE q \in paths -> [server |-> s, path |-> q]
                     [] q \notin paths /\ trie[q] = NoNode /\ (\E p \in paths : Begins(p, q)) -> NoInfo
                     [] OTHER -> trie[q]
  BY DEF update_file_info, Updated
<1>3. trie \in [Path -> Info \cup {NoNode, NoInfo}] /\ NoNode \notin Info
  BY IndexAssumption DEF IndexOK
<1>4. \A q \in Path : trie'[q] \in Info \cup {NoNode, NoInfo}
  BY <1>1, <1>2, <1>3
<1>5. trie' \in [Path -> Info \cup {NoNode, NoInfo}]
  BY <1>4 DEF update_file_info, Updated
<1> QED BY <1>1, <1>2, <1>3, <1>5

\* The other steps that change the index.
LEMMA IndexSteps ==
  ASSUME TypeInv, NEW t \in Thread,
         CreateRecord(t) \/ DeleteUncache(t) \/ DeleteUntrie(t) \/ CopyIndex(t)
  PROVE  TypeInv'
<1>1. StateOK /\ IndexOK /\ CmdOK(t) /\ DOMAIN ptr = Thread /\ \A u \in Thread : PointerOK(ptr[u])
  BY DEF TypeInv, StateOK
<1>2. Read(ptr[t]) \subseteq Info
  BY <1>1, ReadsInfo
<1>3. trie \in [Path -> Info \cup {NoNode, NoInfo}] /\ NoNode \notin Info /\ NoInfo \notin Info
  BY <1>1, IndexAssumption DEF IndexOK
<1>4. ASSUME NEW from, NEW to, Step(t, from, to) PROVE pc[t] = from /\ pc'[t] = to
  BY <1>1, <1>4 DEF Step, StateOK
<1>5. CASE CreateRecord(t)
  <2>1. Step(t, "record", "created") /\ UNCHANGED <<slots, count, servers, up, locals>> /\ Quiet
    BY <1>5 DEF CreateRecord
  <2>2. cmd[t].to \in Path
    BY <1>1, <1>4, <2>1, CommandSays DEF CmdOK
  <2>3. trie' \in [Path -> Info \cup {NoNode, NoInfo}] /\ \A p \in Path : trie[p] \in Info => trie'[p] \in Info
    <3>1. UNCHANGED trie \/ \E s \in Server \cup {NoServer} : update_file_info({cmd[t].to}, s)
      BY <1>2, <1>5 DEF CreateRecord, Info
    <3> QED BY <1>1, <1>3, <2>2, <3>1, UpdateType
  <2>4. IndexOK' /\ LeadsStay
    BY <1>1, <2>1, <2>3 DEF IndexOK, LeadsStay
  <2>5. CmdOK(t)'
    BY <1>1, <1>4, <2>1 DEF CmdOK, locals
  <2> QED BY <1>1, <2>1, <2>4, <2>5, GoesOn DEF servers, locals, Location, StateOK
<1>6. CASE DeleteUncache(t)
  <2>1. Step(t, "uncache", "untrie") /\ UNCHANGED <<trie, servers, up, locals>> /\ Quiet
    BY <1>6 DEF DeleteUncache
  <2>2. PICK p : remove_from_cache(p)
    BY <1>6 DEF DeleteUncache
  <2>3. IndexOK' /\ LeadsStay
    BY <1>1, <2>1, <2>2, RemoveType DEF LeadsStay
  <2>4. CmdOK(t)'
    BY <1>1, <1>4, <2>1 DEF CmdOK, locals
  <2> QED BY <1>1, <2>1, <2>3, <2>4, GoesOn DEF servers, locals, Location, StateOK
<1>7. CASE DeleteUntrie(t)
  <2>1. /\ Leave(t, "untrie") /\ Say(t, outcome[t], NoInfo) /\ UNCHANGED <<slots, count, servers, up>>
    BY <1>7 DEF DeleteUntrie
  <2>2. PICK x \in Info :
          /\ delete_file_info(x.path)
          /\ ptr' = [u \in Thread |-> IF u = t THEN NullPtr ELSE AfterDelete(ptr[u], x.path)]
    BY <1>2, <1>7 DEF DeleteUntrie
  <2>3. trie' = [q \in Path |-> IF q = x.path /\ trie[q] \in Info THEN NoInfo ELSE trie[q]]
    BY <2>2 DEF delete_file_info
  <2>4. IndexOK'
    BY <1>1, <1>3, <2>1, <2>3 DEF IndexOK
  <2>5. ASSUME NEW u \in Thread PROVE PointerOK(ptr[u])'
    <3>1. CASE u = t
      BY <2>2, <3>1 DEF PointerOK, NullPtr, Pointer
    <3>2. CASE u # t /\ ptr[u].at = "node" /\ ptr[u].path = x.path
      <4>1. ptr'[u] = FreedPtr(x.path) /\ x.path \in Path
        BY <2>2, <3>2 DEF AfterDelete, Info
      <4> QED BY <4>1 DEF PointerOK, FreedPtr, Pointer
    <3>3. CASE u # t /\ ~(ptr[u].at = "node" /\ ptr[u].path = x.path)
      <4>1. ptr'[u] = ptr[u] /\ PointerOK(ptr[u])
        BY <1>1, <2>2, <3>3 DEF AfterDelete
      <4>2. CASE ptr[u] = SlotPtr /\ slots[1] \in Entry
        BY <2>1, <4>1, <4>2 DEF PointerOK, SlotPtr, Pointer
      <4>3. ASSUME NEW p \in Path, ptr[u] = NodePtr(p), trie[p] \in Info PROVE PointerOK(ptr[u])'
        <5>1. p # x.path
          BY <3>3, <4>3 DEF NodePtr, Pointer
        <5>2. trie'[p] \in Info
          BY <2>3, <4>3, <5>1
        <5> QED BY <4>1, <4>3, <5>2 DEF PointerOK, NodePtr, Pointer
      <4>4. CASE ptr[u] = NullPtr \/ \E p \in Path : ptr[u] = FreedPtr(p)
        BY <4>1, <4>4 DEF PointerOK, NullPtr, FreedPtr, Pointer
      <4>5. CASE \E i \in Info : ptr[u] = KeptPtr(i)
        BY <4>1, <4>5 DEF PointerOK, KeptPtr, Pointer
      <4> QED BY <4>1, <4>2, <4>3, <4>4, <4>5 DEF PointerOK
    <3> QED BY <3>1, <3>2, <3>3
  <2>6. /\ pc' = [pc EXCEPT ![t] = "idle"] /\ cmd' = [cmd EXCEPT ![t] = None]
        /\ found' = [found EXCEPT ![t] = Junk] /\ target' = [target EXCEPT ![t] = Junk]
        /\ outcome' = [outcome EXCEPT ![t] = "none"]
    BY <2>1 DEF Leave, Step
  <2>7. sent' \in Sents
    BY <1>1, <2>1, SaysType DEF StateOK, Kind
  <2>8. CmdOK(t)' /\ "idle" \in Location
    BY <1>1, <2>6 DEF CmdOK, Location, StateOK
  <2>9. /\ cmd' \in [Thread -> AnyCommand \cup {None}] /\ \A u \in Thread \ {t} : cmd'[u] = cmd[u]
        /\ found' \in [Thread -> Info \cup {Junk}] /\ target' \in [Thread -> Info \cup {Junk}]
        /\ outcome' \in [Thread -> Outcome]
    BY <1>1, <2>6 DEF StateOK, Outcome
  <2>10. UNCHANGED <<registered, active>> /\ disk' \in [Server -> SUBSET Path] /\ up' \in BOOLEAN
    BY <1>1, <2>1 DEF servers, StateOK
  <2>11. DOMAIN ptr' = Thread
    BY <2>2
  <2> QED BY <2>4, <2>5, <2>6, <2>7, <2>8, <2>9, <2>10, <2>11, StepKeeps
<1>8. CASE CopyIndex(t)
  <2> DEFINE a == cmd[t].path
             b == cmd[t].to
  <2>1. /\ Step(t, "copy_index", "copy_request")
        /\ UNCHANGED <<slots, count, servers, up, cmd, found, target, outcome>> /\ Quiet
        /\ \/ UNCHANGED <<trie, ptr>>
           \/ copy_directory_trie(a, b) /\ ptr' = [u \in Thread |-> AfterCopy(ptr[u], b)]
    BY <1>8 DEF CopyIndex
  <2>2. b \in Path
    BY <1>1, <1>4, <2>1, CommandSays DEF CmdOK
  <2>3. CmdOK(t)'
    BY <1>1, <1>4, <2>1 DEF CmdOK
  <2>4. CASE UNCHANGED <<trie, ptr>>
    <3>1. IndexOK' /\ LeadsStay
      BY <1>1, <2>1, <2>4 DEF IndexOK, LeadsStay
    <3> QED BY <1>1, <2>1, <2>3, <2>4, <3>1, GoesOn DEF servers, Location, StateOK
  <2>5. CASE copy_directory_trie(a, b) /\ ptr' = [u \in Thread |-> AfterCopy(ptr[u], b)]
    <3>1. trie' = [q \in Path |->
             CASE Begins(q, b) -> IF a \o SubSeq(q, Len(b) + 1, Len(q)) \in Path
                                  THEN trie[a \o SubSeq(q, Len(b) + 1, Len(q))] ELSE NoNode
               [] Begins(b, q) /\ q # b /\ trie[q] = NoNode -> NoInfo
               [] OTHER -> trie[q]]
      BY <2>5 DEF copy_directory_trie
    <3> HIDE DEF a, b
    <3>2. trie' \in [Path -> Info \cup {NoNode, NoInfo}]
      BY <1>3, <3>1
    <3>3. \A q \in Path : ~Begins(q, b) /\ trie[q] \in Info => trie'[q] \in Info
      BY <1>3, <3>1
    <3>4. IndexOK'
      BY <1>1, <2>1, <3>2 DEF IndexOK
    <3>5. ASSUME NEW u \in Thread PROVE PointerOK(ptr[u])'
      <4>1. ptr'[u] = AfterCopy(ptr[u], b) /\ PointerOK(ptr[u])
        BY <1>1, <2>5
      <4>2. ASSUME NEW p \in Path, ptr[u] = NodePtr(p), trie[p] \in Info PROVE PointerOK(ptr[u])'
        <5>1. ptr[u].at = "node" /\ ptr[u].path = p
          BY <4>2 DEF NodePtr, Pointer
        <5>2. CASE p = b
          <6>1. ptr'[u] = FreedPtr(b)
            BY <4>1, <5>1, <5>2 DEF AfterCopy
          <6> QED BY <2>2, <6>1 DEF PointerOK, FreedPtr, Pointer
        <5>3. CASE p # b /\ Begins(p, b)
          <6>1. ptr'[u] = KeptPtr(trie[p])
            BY <4>1, <5>1, <5>3 DEF AfterCopy
          <6> QED BY <4>2, <6>1 DEF PointerOK, KeptPtr, Pointer
        <5>4. CASE p # b /\ ~Begins(p, b)
          <6>1. ptr'[u] = NodePtr(p)
            BY <4>1, <4>2, <5>1, <5>4 DEF AfterCopy
          <6>2. trie'[p] \in Info
            BY <3>3, <4>2, <5>4
          <6> QED BY <6>1, <6>2 DEF PointerOK, NodePtr, Pointer
        <5> QED BY <5>2, <5>3, <5>4
      <4>3. CASE ptr[u].at # "node"
        <5>1. ptr'[u] = ptr[u]
          BY <4>1, <4>3 DEF AfterCopy
        <5>2. CASE ptr[u] = SlotPtr /\ slots[1] \in Entry
          BY <2>1, <5>1, <5>2 DEF PointerOK, SlotPtr, Pointer
        <5>3. CASE ptr[u] = NullPtr \/ \E p \in Path : ptr[u] = FreedPtr(p)
          BY <5>1, <5>3 DEF PointerOK, NullPtr, FreedPtr, Pointer
        <5>4. CASE \E i \in Info : ptr[u] = KeptPtr(i)
          BY <5>1, <5>4 DEF PointerOK, KeptPtr, Pointer
        <5> QED BY <4>1, <4>2, <5>2, <5>3, <5>4 DEF PointerOK
      <4>4. /\ NullPtr.at = "null" /\ SlotPtr.at = "slot"
            /\ \A p : FreedPtr(p).at = "freed" /\ KeptPtr(p).at = "kept"
        BY DEF NullPtr, SlotPtr, FreedPtr, KeptPtr, Pointer
      <4> QED BY <4>1, <4>2, <4>3, <4>4 DEF PointerOK
    <3>6. pc' = [pc EXCEPT ![t] = "copy_request"] /\ sent' \in Sents
      BY <2>1, QuietType DEF Step
    <3>7. DOMAIN ptr' = Thread
      BY <2>5
    <3>8. /\ UNCHANGED <<registered, active, cmd>> /\ disk' \in [Server -> SUBSET Path] /\ up' \in BOOLEAN
          /\ found' \in [Thread -> Info \cup {Junk}] /\ target' \in [Thread -> Info \cup {Junk}]
          /\ outcome' \in [Thread -> Outcome] /\ cmd' \in [Thread -> AnyCommand \cup {None}]
      BY <1>1, <2>1 DEF servers, StateOK
    <3> QED BY <2>3, <3>4, <3>5, <3>6, <3>7, <3>8, StepKeeps DEF Location
  <2> QED BY <2>1, <2>4, <2>5
<1> QED BY <1>5, <1>6, <1>7, <1>8

\* A storage server comes, goes, or comes back; a command is read.
LEMMA OtherSteps ==
  ASSUME TypeInv,
         \/ \E s \in Server : Register(s) \/ Disconnect(s) \/ Reconnect(s)
         \/ \E t \in Thread, c \in Command : Accept(t, c)
  PROVE  TypeInv'
<1>1. StateOK /\ IndexOK /\ DOMAIN ptr = Thread /\ \A u \in Thread : PointerOK(ptr[u])
  BY DEF TypeInv, StateOK
<1>2. ASSUME NEW s \in Server, Register(s) \/ Disconnect(s) \/ Reconnect(s) PROVE TypeInv'
  <2>1. UNCHANGED <<slots, count, disk, up, pc, cmd, ptr, found, target>> /\ Quiet
    BY <1>2 DEF Register, Disconnect, Reconnect, index, locals
  <2>2. trie' \in [Path -> Info \cup {NoNode, NoInfo}] /\ \A p \in Path : trie[p] \in Info => trie'[p] \in Info
    <3>1. CASE Register(s)
      <4>1. Listing[s] \in SUBSET Path
        BY ServerAssumption
      <4> QED BY <1>1, <3>1, <4>1, UpdateType DEF Register
    <3>2. CASE UNCHANGED trie
      BY <1>1, <3>2 DEF IndexOK
    <3> QED BY <1>2, <3>1, <3>2 DEF Disconnect, Reconnect, index
  <2>3. IndexOK' /\ LeadsStay
    BY <1>1, <2>1, <2>2 DEF IndexOK, LeadsStay
  <2>4. ASSUME NEW u \in Thread PROVE PointerOK(ptr[u])'
    <3>1. PointerOK(ptr[u]) /\ ptr' = ptr
      BY <1>1, <2>1
    <3> QED BY <2>3, <3>1, PointersStay DEF PointerOK
  <2>5. registered' \subseteq Server /\ active' \subseteq registered'
    BY <1>1, <1>2 DEF Register, Disconnect, Reconnect, StateOK
  <2>6. sent' \in [to : SUBSET Thread, kind : Kind, info : Info \cup {Junk, NoInfo}]
    BY <2>1, QuietType DEF Sents
  <2>7. outcome' \in [Thread -> Outcome]
    <3>1. outcome \in [Thread -> Outcome] /\ "lost" \in Outcome
      BY <1>1 DEF StateOK, Outcome
    <3> QED BY <1>2, <3>1 DEF Register, Disconnect, Reconnect, locals
  <2>8. StateOK'
    BY <1>1, <2>1, <2>3, <2>4, <2>5, <2>6, <2>7 DEF StateOK
  <2>9. \A u \in Thread : CmdOK(u)'
    BY <2>1 DEF TypeInv, CmdOK
  <2> QED BY <2>8, <2>9 DEF TypeInv
<1>3. ASSUME NEW t \in Thread, NEW c \in Command, Accept(t, c) PROVE TypeInv'
  <2>1. /\ pc' = [pc EXCEPT ![t] = IF c.op = "COPY" THEN "stat" ELSE "find"]
        /\ cmd' = [cmd EXCEPT ![t] = c]
        /\ UNCHANGED <<index, servers, up, ptr, found, target, outcome>> /\ Quiet
    BY <1>3 DEF Accept, Step
  <2>2. (IF c.op = "COPY" THEN "stat" ELSE "find") \in Location
    BY DEF Location
  <2>3. CmdOK(t)'
    BY <1>1, <2>1 DEF CmdOK, StateOK
  <2>4. cmd' \in [Thread -> AnyCommand \cup {None}] /\ \A u \in Thread \ {t} : cmd'[u] = cmd[u]
    BY <1>1, <2>1, CommandSays DEF StateOK
  <2>5. IndexOK' /\ LeadsStay
    BY <1>1, <2>1 DEF IndexOK, LeadsStay, index
  <2>6. ASSUME NEW u \in Thread PROVE PointerOK(ptr[u])'
    <3>1. PointerOK(ptr[u]) /\ ptr' = ptr
      BY <1>1, <2>1
    <3> QED BY <2>5, <3>1, PointersStay DEF PointerOK
  <2>7. /\ UNCHANGED <<registered, active>> /\ disk' \in [Server -> SUBSET Path] /\ up' \in BOOLEAN
        /\ found' \in [Thread -> Info \cup {Junk}] /\ target' \in [Thread -> Info \cup {Junk}]
        /\ outcome' \in [Thread -> Outcome] /\ DOMAIN ptr' = Thread
    BY <1>1, <2>1 DEF servers, StateOK
  <2>8. sent' \in Sents
    BY <2>1, QuietType
  <2> QED BY <2>1, <2>2, <2>3, <2>4, <2>5, <2>6, <2>7, <2>8, StepKeeps
<1> QED BY <1>2, <1>3

\* What a step of the system is.
LEMMA NextIs ==
  ASSUME [Next]_vars
  PROVE  \/ Histories /\ \E t \in Thread : Handle(t)
         \/ Histories /\ \E s \in Server : Register(s) \/ Disconnect(s) \/ Reconnect(s)
         \/ Histories /\ \E t \in Thread, c \in Command : Accept(t, c)
         \/ UNCHANGED vars
BY DEF Next, Serve

LEMMA TypeHolds == Spec => []TypeInv
<1>1. Init => TypeInv
  <2> SUFFICES ASSUME Init PROVE TypeInv
    OBVIOUS
  <2>1. IndexOK
    BY IndexAssumption DEF Init, IndexInit, IndexOK, Slot, Blank, Entry
  <2>2. DOMAIN ptr = Thread /\ \A t \in Thread : PointerOK(ptr[t])
    BY DEF Init, PointerOK
  <2>3. sent \in [to : SUBSET Thread, kind : Kind, info : Info \cup {Junk, NoInfo}]
    BY DEF Init, Nothing, Message, Kind, Outcome
  <2>4. disk \in [Server -> SUBSET Path]
    BY ServerAssumption DEF Init
  <2> QED BY <2>1, <2>2, <2>3, <2>4 DEF Init, TypeInv, StateOK, CmdOK, Location, Outcome
<1>2. TypeInv /\ [Next]_vars => TypeInv'
  <2> SUFFICES ASSUME TypeInv, [Next]_vars PROVE TypeInv'
    OBVIOUS
  <2>1. CASE UNCHANGED vars
    <3>1. UNCHANGED <<trie, slots, count, registered, active, disk, up, pc, cmd, ptr, found, target, outcome, sent>>
      BY <2>1 DEF vars, index, servers, locals
    <3> QED BY <3>1 DEF TypeInv, StateOK, IndexOK, PointerOK, CmdOK
  <2>2. ASSUME NEW t \in Thread, Handle(t) PROVE TypeInv'
    BY <2>2, QuietSteps, LookupSteps, IndexSteps DEF Handle
  <2> QED BY <2>1, <2>2, OtherSteps, NextIs
<1> QED BY <1>1, <1>2, PTL DEF Spec

\* A thread leaves a place and goes to another, and the others stay.
Moves(t) ==
  /\ pc[t] # "idle" /\ pc'[t] # pc[t]
  /\ \A u \in Thread \ {t} : pc'[u] = pc[u] /\ cmd'[u] = cmd[u] /\ found'[u] = found[u] /\ outcome'[u] = outcome[u]
  /\ cmd'[t] = cmd[t] \/ pc'[t] = "idle"

LEMMA HandleMoves ==
  ASSUME TypeInv, NEW t \in Thread, Handle(t)
  PROVE  Moves(t)
<1>1. /\ pc \in [Thread -> Location] /\ DOMAIN cmd = Thread /\ DOMAIN found = Thread
      /\ DOMAIN outcome = Thread
  BY DEF TypeInv, StateOK
<1>2. ASSUME NEW from, NEW to, Step(t, from, to) PROVE pc[t] = from /\ pc' = [pc EXCEPT ![t] = to]
  BY <1>2 DEF Step
<1>3. ASSUME NEW from, from # "idle", Leave(t, from) PROVE Moves(t)
  BY <1>1, <1>2, <1>3 DEF Leave, Moves
<1>4. ASSUME NEW from, NEW to, from # "idle", from # to, Step(t, from, to), UNCHANGED cmd,
             \A u \in Thread \ {t} : found'[u] = found[u] /\ outcome'[u] = outcome[u]
      PROVE  Moves(t)
  BY <1>1, <1>2, <1>4 DEF Moves
<1>5. ASSUME NEW from, NEW kind, NEW info, from # "idle", Return(t, from) \/ Answer(t, from, kind, info) \/ GiveUp(t, from)
      PROVE  Moves(t)
  BY <1>3, <1>5 DEF Return, Answer, GiveUp
<1>6. CASE CopyStat(t) \/ Undotted(t) \/ Missing(t) \/ Send(t) \/ Unreachable(t)
  BY <1>1, <1>4, <1>5, <1>6 DEF CopyStat, Undotted, Missing, Send, Unreachable, locals
<1>7. CASE Present(t)
  BY <1>1, <1>4, <1>7 DEF Present
<1>8. CASE Miss(t)
  <2>1. PICK from \in DOMAIN Searching : Step(t, from, Searching[from]) /\ UNCHANGED locals
    BY <1>8 DEF Miss
  <2>2. from # "idle" /\ from # Searching[from]
    BY DEF Searching
  <2> QED BY <1>1, <1>4, <2>1, <2>2 DEF locals
<1>9. CASE Find(t)
  <2>1. \E p, r : LookedUp(t, "find", p, r)
    BY <1>9 DEF Find
  <2>2. pc[t] \in {"find", "search"}
    BY <2>1 DEF LookedUp, Searching
  <2>3. \E to \in {"find_file", "found"} : Step(t, pc[t], to) /\ UNCHANGED <<cmd, found, outcome>>
    BY <1>9 DEF Find
  <2> QED BY <1>1, <1>4, <2>2, <2>3
<1>10. CASE CreateFind(t)
  <2>1. \E p, r : LookedUp(t, "find_file", p, r)
    BY <1>10 DEF CreateFind
  <2>2. pc[t] \in {"find_file", "search_file"}
    BY <2>1 DEF LookedUp, Searching
  <2>3. Return(t, pc[t]) \/ (Step(t, pc[t], "check") /\ UNCHANGED locals)
    BY <1>10 DEF CreateFind
  <2> QED BY <1>1, <1>4, <1>5, <2>2, <2>3 DEF locals
<1>11. CASE Check(t)
  BY <1>1, <1>4, <1>5, <1>11 DEF Check, ReadCheck, InfoCheck, WriteCheck, RequestCheck, CopyCheck, locals
<1>12. CASE StorageCreate(t)
  BY <1>1, <1>4, <1>12 DEF StorageCreate
<1>13. CASE CreateRecord(t)
  BY <1>1, <1>4, <1>13 DEF CreateRecord, locals
<1>14. CASE CreateAnswer(t) \/ StorageCopy(t) \/ CopyBroken(t)
  BY <1>5, <1>14 DEF CreateAnswer, StorageCopy, CopyBroken
<1>15. CASE StorageDelete(t)
  BY <1>1, <1>4, <1>15 DEF StorageDelete
<1>16. CASE DeleteUncache(t)
  BY <1>1, <1>4, <1>16 DEF DeleteUncache, locals
<1>17. CASE DeleteUntrie(t)
  BY <1>3, <1>17 DEF DeleteUntrie
<1>18. CASE CopyFindDest(t)
  <2>1. \E p, r : LookedUp(t, "find_dest", p, r)
    BY <1>18 DEF CopyFindDest
  <2>2. pc[t] \in {"find_dest", "search_dest"}
    BY <2>1 DEF LookedUp, Searching
  <2>3. Return(t, pc[t]) \/ (Step(t, pc[t], "check_dest") /\ UNCHANGED <<cmd, found, outcome>>)
    BY <1>18 DEF CopyFindDest
  <2> QED BY <1>1, <1>4, <1>5, <2>2, <2>3
<1>19. CASE CopyCheckDest(t)
  BY <1>1, <1>4, <1>5, <1>19 DEF CopyCheckDest
<1>20. CASE CopyIndex(t)
  BY <1>1, <1>4, <1>20 DEF CopyIndex
<1> QED
  BY <1>6, <1>7, <1>8, <1>9, <1>10, <1>11, <1>12, <1>13, <1>14, <1>15, <1>16, <1>17, <1>18, <1>19, <1>20 DEF Handle

\* The steps that are not a handler's: the threads stay where they are, but for
\* one that is given a command.
LEMMA OthersDo ==
  ASSUME \/ \E s \in Server : Register(s) \/ Disconnect(s) \/ Reconnect(s)
         \/ \E t \in Thread, c \in Command : Accept(t, c)
         \/ UNCHANGED vars
  PROVE  /\ UNCHANGED <<slots, count, ptr, found>>
         /\ UNCHANGED trie \/ \E s \in Server : Register(s)
         /\ UNCHANGED <<pc, cmd>> \/ \E t \in Thread, c \in Command : Accept(t, c)
BY DEF Register, Disconnect, Reconnect, Accept, vars, index, servers, locals

LEMMA AcceptMoves ==
  ASSUME TypeInv, NEW t \in Thread, NEW c \in Command, Accept(t, c)
  PROVE  /\ pc[t] = "idle" /\ pc'[t] \in {"stat", "find"} /\ cmd'[t] = c /\ given[t] < MaxCommands
         /\ \A u \in Thread \ {t} : pc'[u] = pc[u] /\ cmd'[u] = cmd[u]
         /\ UNCHANGED <<trie, slots, count, ptr, found>>
BY DEF Accept, Step, TypeInv, StateOK, index

LEMMA HistoryHolds == Spec => []HistoryOK
<1>1. Init => HistoryOK
  BY ServerAssumption DEF Init, HistoryOK
<1>2. TypeInv /\ HistoryOK /\ [Next]_vars => HistoryOK'
  <2> SUFFICES ASSUME TypeInv, HistoryOK, [Next]_vars PROVE HistoryOK'
    OBVIOUS
  <2>1. CASE UNCHANGED vars
    BY <2>1 DEF HistoryOK, vars, history
  <2>2. ASSUME Histories,
               \A t \in Thread : pc[t] = "idle" /\ pc'[t] # "idle" => given[t] < MaxCommands
        PROVE  HistoryOK'
    <3>1. given' \in [Thread -> 0..MaxCommands]
      BY <2>2, ServerAssumption DEF Histories, HistoryOK
    <3>2. disturbed' \subseteq Thread /\ raced' \subseteq Path
      BY <2>2 DEF Histories
    <3>3. \A t : Replaced(t) \subseteq Path
      BY DEF Replaced
    <3>4. \A t \in Thread : Misplaced(t) \subseteq Path
      BY CommandSays DEF Misplaced, TypeInv, CmdOK
    <3>5. copied' \subseteq Path /\ astray' \subseteq Path
      BY <2>2, <3>3, <3>4 DEF Histories, HistoryOK
    <3> QED BY <3>1, <3>2, <3>5 DEF HistoryOK
  <2>3. ASSUME NEW t \in Thread, Handle(t), NEW u \in Thread
        PROVE  ~(pc[u] = "idle" /\ pc'[u] # "idle")
    BY <2>3, HandleMoves DEF Moves
  <2>4. ASSUME NEW s \in Server, Register(s) \/ Disconnect(s) \/ Reconnect(s) PROVE UNCHANGED pc
    BY <2>4 DEF Register, Disconnect, Reconnect
  <2>5. ASSUME NEW t \in Thread, NEW c \in Command, Accept(t, c), NEW u \in Thread
        PROVE  pc[u] = "idle" /\ pc'[u] # "idle" => given[u] < MaxCommands
    BY <2>5, AcceptMoves
  <2> QED BY <2>1, <2>2, <2>3, <2>4, <2>5, NextIs
<1> QED BY <1>1, <1>2, TypeHolds, PTL DEF Spec

\* Everything keeps its type; a pointer into the trie that has not been freed
\* leads to a file_info, one into the cache to an entry, for any number of
\* threads (naming_utils.c:44, 170, 185).
THEOREM TypeCorrect == Spec => []TypeOK
<1>1. TypeInv /\ HistoryOK => TypeOK
  BY DEF TypeInv, TypeOK
<1> QED BY TypeHolds, HistoryHolds, <1>1, PTL

-----------------------------------------------------------------------------
(* The cache as an LRU cache.                                              *)

\* No path is in the cache twice.
Distinct == \A i, j \in 1..count : slots[i].path = slots[j].path => i = j

\* Which of two paths was used later, by their places.
LaterPlaces ==
  /\ Later \subseteq Held \X Held
  /\ \A a, b : <<a, b>> \in Later <=>
       \E i, j \in 1..count : i < j /\ a = slots[i].path /\ b = slots[j].path

LEMMA LaterSays == LaterPlaces
<1>1. ASSUME NEW a, NEW b, NEW i \in 1..count, NEW j \in 1..count, i < j,
             a = slots[i].path, b = slots[j].path
      PROVE  <<a, b>> \in Later
  <2>1. <<a, b>> \in Held \X Held
    BY <1>1 DEF Held
  <2>2. \E k, l \in 1..count : k < l /\ <<a, b>> = <<slots[k].path, slots[l].path>>
    BY <1>1
  <2> QED BY <2>1, <2>2 DEF Later
<1>2. ASSUME NEW a, NEW b, <<a, b>> \in Later
      PROVE  \E i, j \in 1..count : i < j /\ a = slots[i].path /\ b = slots[j].path
  <2>1. \E i, j \in 1..count : i < j /\ <<a, b>> = <<slots[i].path, slots[j].path>>
    BY <1>2 DEF Later
  <2> QED BY <2>1
<1>3. Later \subseteq Held \X Held
  BY DEF Later
<1> QED BY <1>1, <1>2, <1>3 DEF LaterPlaces

LEMMA LaterSaysNext == LaterPlaces'
BY LaterSays, PTL

\* There are as many paths as entries.
LEMMA HeldCounts ==
  ASSUME Distinct, count \in Nat PROVE Lru!Cardinality(Held) = count
<1> DEFINE f == [i \in 1..count |-> slots[i].path]
<1>1. IsFiniteSet(1..count) /\ Cardinality(1..count) = count
  BY FS_Interval
<1>2. f \in Bijection(1..count, Held)
  <2>1. f \in [1..count -> Held]
    BY DEF Held
  <2>2. \A i, j \in 1..count : f[i] = f[j] => i = j
    BY DEF Distinct
  <2>3. \A p \in Held : \E i \in 1..count : f[i] = p
    BY DEF Held
  <2> HIDE DEF f
  <2> QED BY <2>1, <2>2, <2>3 DEF Bijection, Injection, Surjection, IsInjective
<1>3. ExistsBijection(1..count, Held)
  BY <1>2 DEF ExistsBijection
<1>4. Cardinality(Held) = count
  BY <1>1, <1>3, FS_Bijection
<1>5. Lru!Cardinality(Held) = Cardinality(Held)
  BY DEF Cardinality, Lru!Cardinality
<1> QED BY <1>4, <1>5

\* Behind a new first entry for p the entries at K move to the places g gives
\* them, and keep their order.
Behind(p, K, g) ==
  /\ K \subseteq 1..count /\ count \in Nat /\ count' \in Nat \ {0}
  /\ slots'[1].path = p
  /\ \A k \in K : /\ g[k] \in 2..count'
                  /\ slots'[g[k]].path = slots[k].path
                  /\ slots[k].path # p
  /\ \A m \in 2..count' : \E k \in K : m = g[k]
  /\ \A k, l \in K : k < l <=> g[k] < g[l]

LEMMA InFront ==
  ASSUME Distinct, NEW p, NEW K, NEW g, Behind(p, K, g),
         NEW others, others = {slots[k].path : k \in K}
  PROVE  /\ Distinct' /\ p \notin others /\ Held' = others \cup {p}
         /\ Later' = (Later \cap (others \X others)) \cup ({p} \X others)
<1> USE DEF Behind
<1>1. p \notin others
  OBVIOUS
<1>2. \A m \in 1..count' : m = 1 \/ m \in 2..count'
  OBVIOUS
<1>3. 1 \in 1..count' /\ \A m \in 2..count' : m \in 1..count' /\ 1 < m
  OBVIOUS
<1>4. Held' = others \cup {p}
  <2>1. \A m \in 1..count' : slots'[m].path \in others \cup {p}
    BY <1>2
  <2>2. \A k \in K : \E m \in 1..count' : slots'[m].path = slots[k].path
    BY <1>3
  <2>3. Held' \subseteq others \cup {p}
    BY <2>1 DEF Held
  <2>4. others \cup {p} \subseteq Held'
    BY <1>3, <2>2 DEF Held
  <2> QED BY <2>3, <2>4
<1>5. Distinct'
  <2> SUFFICES ASSUME NEW m \in 1..count', NEW n \in 1..count', slots'[m].path = slots'[n].path PROVE m = n
    BY DEF Distinct
  <2>1. CASE m = 1 \/ n = 1
    BY <1>2, <2>1
  <2>2. CASE m \in 2..count' /\ n \in 2..count'
    <3>1. PICK k \in K, l \in K : m = g[k] /\ n = g[l]
      BY <2>2
    <3>2. slots[k].path = slots[l].path
      BY <3>1
    <3>3. k = l
      BY <3>2 DEF Distinct
    <3> QED BY <3>1, <3>3
  <2> QED BY <1>2, <2>1, <2>2
<1>6. ASSUME NEW a, NEW b, <<a, b>> \in Later'
      PROVE  <<a, b>> \in (Later \cap (others \X others)) \cup ({p} \X others)
  <2>1. PICK m \in 1..count', n \in 1..count' : m < n /\ a = slots'[m].path /\ b = slots'[n].path
    BY <1>6, LaterSaysNext DEF LaterPlaces
  <2>2. n \in 2..count'
    BY <2>1
  <2>3. PICK l \in K : n = g[l]
    BY <2>2
  <2>4. b = slots[l].path /\ b \in others
    BY <2>1, <2>3
  <2>5. CASE m = 1
    BY <2>1, <2>4, <2>5
  <2>6. CASE m \in 2..count'
    <3>1. PICK k \in K : m = g[k]
      BY <2>6
    <3>2. a = slots[k].path /\ a \in others
      BY <2>1, <3>1
    <3>3. k < l
      BY <2>1, <2>3, <3>1
    <3>4. <<a, b>> \in Later
      BY <2>4, <3>2, <3>3, LaterSays DEF LaterPlaces
    <3> QED BY <2>4, <3>2, <3>4
  <2> QED BY <1>2, <2>5, <2>6
<1>7. ASSUME NEW a, NEW b, <<a, b>> \in (Later \cap (others \X others)) \cup ({p} \X others)
      PROVE  <<a, b>> \in Later'
  <2>1. CASE a = p /\ b \in others
    <3>1. PICK l \in K : b = slots[l].path
      BY <2>1
    <3>2. g[l] \in 1..count' /\ 1 < g[l] /\ b = slots'[g[l]].path
      BY <1>3, <3>1
    <3> QED BY <1>3, <2>1, <3>2, LaterSaysNext DEF LaterPlaces
  <2>2. CASE <<a, b>> \in Later /\ a \in others /\ b \in others
    <3>1. PICK i \in 1..count, j \in 1..count : i < j /\ a = slots[i].path /\ b = slots[j].path
      BY <2>2, LaterSays DEF LaterPlaces
    <3>2. PICK k \in K, l \in K : a = slots[k].path /\ b = slots[l].path
      BY <2>2
    <3>3. k = i /\ l = j
      BY <3>1, <3>2 DEF Distinct
    <3>4. g[i] < g[j] /\ g[i] \in 1..count' /\ g[j] \in 1..count'
      BY <1>3, <3>1, <3>2, <3>3
    <3>5. a = slots'[g[i]].path /\ b = slots'[g[j]].path
      BY <3>2, <3>3
    <3> QED BY <3>4, <3>5, LaterSaysNext DEF LaterPlaces
  <2> QED BY <1>7, <2>1, <2>2
<1>8. Later' \subseteq Held' \X Held'
  BY LaterSaysNext DEF LaterPlaces
<1>9. Later' = (Later \cap (others \X others)) \cup ({p} \X others)
  <2>1. \A w \in Later' : w = <<w[1], w[2]>>
    BY <1>8
  <2>2. \A w \in (Later \cap (others \X others)) \cup ({p} \X others) : w = <<w[1], w[2]>>
    OBVIOUS
  <2>3. \A w \in Later' : w \in (Later \cap (others \X others)) \cup ({p} \X others)
    BY <1>6, <2>1
  <2>4. \A w \in (Later \cap (others \X others)) \cup ({p} \X others) : w \in Later'
    BY <1>7, <2>2
  <2> QED BY <2>3, <2>4
<1> QED BY <1>1, <1>4, <1>5, <1>9

\* What is found is used ...
LEMMA FindUses ==
  ASSUME IndexOK, Distinct, NEW p, Hit(p), find_in_cache(p)
  PROVE  Distinct' /\ Lru!Use(p) /\ Held' = Held
<1>1. count' = count /\ count \in 1..CacheSize /\ CacheSize \in Nat
  BY FindMoves, IndexAssumption
<1>2. PICK i \in 1..count :
        /\ slots[i].path = p /\ slots'[1] = slots[i]
        /\ \A j \in 2..i : slots'[j] = slots[j - 1]
        /\ \A j \in Slot : j > i => slots'[j] = slots[j]
  BY FindMoves
<1> DEFINE K == (1..count) \ {i}
           g == [k \in K |-> IF k < i THEN k + 1 ELSE k]
           others == {slots[k].path : k \in K}
<1>3. ASSUME NEW k \in K
      PROVE  g[k] \in 2..count' /\ slots'[g[k]].path = slots[k].path /\ slots[k].path # p
  <2>1. slots[k].path # p
    BY <1>2 DEF Distinct
  <2>2. CASE k < i
    <3>1. g[k] = k + 1 /\ k + 1 \in 2..i /\ (k + 1) - 1 = k
      BY <1>1, <1>2, <2>2
    <3> QED BY <1>1, <1>2, <2>1, <3>1
  <2>3. CASE ~(k < i)
    <3>1. g[k] = k /\ k > i /\ k \in Slot /\ k \in 2..count
      BY <1>1, <1>2, <2>3 DEF Slot
    <3> QED BY <1>1, <1>2, <2>1, <3>1
  <2> QED BY <2>2, <2>3
<1>4. ASSUME NEW m \in 2..count' PROVE \E k \in K : m = g[k]
  <2>1. CASE m <= i
    <3>1. m - 1 \in K /\ g[m - 1] = m
      BY <1>1, <1>2, <2>1
    <3> QED BY <3>1
  <2>2. CASE ~(m <= i)
    <3>1. m \in K /\ g[m] = m
      BY <1>1, <1>2, <2>2
    <3> QED BY <3>1
  <2> QED BY <2>1, <2>2
<1>5. \A k, l \in K : k < l <=> g[k] < g[l]
  BY <1>1, <1>2
<1>6. K \subseteq 1..count /\ count \in Nat /\ count' \in Nat \ {0}
  BY <1>1
<1>7. p \in Held /\ others = Held \ {p}
  <2>1. \A k \in K : slots[k].path # p
    BY <1>3
  <2> QED BY <1>2, <2>1 DEF Held
<1> HIDE DEF K, g
<1>8. others = {slots[k].path : k \in K}
  OBVIOUS
<1>11. Behind(p, K, g)
  BY <1>2, <1>3, <1>4, <1>5, <1>6 DEF Behind
<1> HIDE DEF others
<1>9. /\ Distinct' /\ p \notin others /\ Held' = others \cup {p}
      /\ Later' = (Later \cap (others \X others)) \cup ({p} \X others)
  BY <1>8, <1>11, InFront
<1>10. Held' = Held /\ others = Held' \ {p}
  BY <1>7, <1>9
<1> QED BY <1>7, <1>9, <1>10 DEF Lru!Use, Lru!MakeRoom

\* ... and so is what is added: a full cache gives up the path whose use is the
\* longest ago.
LEMMA AddUses ==
  ASSUME IndexOK, Distinct, NEW p \in Path, ~Hit(p), NEW info \in Info, add_to_cache(p, info)
  PROVE  Distinct' /\ Lru!Use(p)
<1>1. PICK kept \in 0..(CacheSize - 1) :
        /\ kept = count \/ (count = CacheSize /\ kept = count - 1)
        /\ count' = kept + 1
        /\ \A j \in 2..(kept + 1) : slots'[j] = slots[j - 1]
        /\ \A j \in Slot : j > kept + 1 => slots'[j] = slots[j]
  BY AddMoves
<1>2. slots'[1].path = p
  <2>1. slots'[1] = [path |-> p, info |-> info]
    BY AddMoves
  <2> QED BY <2>1
<1>3. count \in 0..CacheSize /\ CacheSize \in Nat \ {0}
  BY IndexAssumption DEF IndexOK
<1> DEFINE K == 1..kept
           g == [k \in K |-> k + 1]
           others == {slots[k].path : k \in K}
<1>4. \A k \in 1..count : slots[k].path # p
  BY DEF Hit
<1>5. ASSUME NEW k \in K
      PROVE  g[k] \in 2..count' /\ slots'[g[k]].path = slots[k].path /\ slots[k].path # p
  <2>1. g[k] = k + 1 /\ k + 1 \in 2..(kept + 1) /\ (k + 1) - 1 = k /\ k \in 1..count
    BY <1>1, <1>3
  <2> QED BY <1>1, <1>4, <2>1
<1>6. ASSUME NEW m \in 2..count' PROVE \E k \in K : m = g[k]
  <2>1. m - 1 \in K /\ g[m - 1] = m
    BY <1>1
  <2> QED BY <2>1
<1>7. \A k, l \in K : k < l <=> g[k] < g[l]
  OBVIOUS
<1>8. K \subseteq 1..count /\ count \in Nat /\ count' \in Nat \ {0}
  BY <1>1, <1>3
<1>9. p \notin Held
  BY <1>4 DEF Held
<1>10. Lru!Cardinality(Held) = count
  BY <1>8, HeldCounts
<1>11. \/ kept = count /\ others = Held
       \/ /\ count = CacheSize /\ kept = count - 1
          /\ slots[count].path \in Held /\ others = Held \ {slots[count].path}
  <2>1. CASE kept = count
    BY <2>1 DEF Held
  <2>2. CASE count = CacheSize /\ kept = count - 1
    <3>1. \A k \in 1..count : k \in K \/ k = count
      BY <1>3, <2>2
    <3>2. count \in 1..count /\ \A k \in K : k \in 1..count /\ k # count
      BY <1>3, <2>2
    <3>3. \A k \in K : slots[k].path # slots[count].path
      BY <3>2 DEF Distinct
    <3> QED BY <2>2, <3>1, <3>2, <3>3 DEF Held
  <2> QED BY <1>1, <2>1, <2>2
<1> HIDE DEF K, g
<1>12. others = {slots[k].path : k \in K}
  OBVIOUS
<1>16. Behind(p, K, g)
  BY <1>2, <1>5, <1>6, <1>7, <1>8 DEF Behind
<1> HIDE DEF others
<1>13. /\ Distinct' /\ p \notin others /\ Held' = others \cup {p}
       /\ Later' = (Later \cap (others \X others)) \cup ({p} \X others)
  BY <1>12, <1>16, InFront
<1>14. others = Held' \ {p}
  BY <1>13
<1>15. Lru!MakeRoom(p)
  <2>1. CASE kept = count /\ others = Held
    <3>1. Lru!Cardinality(Held) < CacheSize
      BY <1>1, <1>3, <1>10, <2>1
    <3>2. Held' = Held \cup {p}
      BY <1>13, <2>1
    <3> QED BY <1>9, <3>1, <3>2 DEF Lru!MakeRoom
  <2>2. CASE /\ count = CacheSize /\ kept = count - 1
             /\ slots[count].path \in Held /\ others = Held \ {slots[count].path}
    <3> DEFINE q == slots[count].path
    <3>1. ASSUME NEW r \in Held \ {q} PROVE <<r, q>> \in Later
      <4>1. PICK i \in 1..count : r = slots[i].path
        BY DEF Held
      <4>2. i < count /\ count \in 1..count
        BY <1>3, <2>2, <4>1
      <4> QED BY <4>1, <4>2, LaterSays DEF LaterPlaces
    <3>2. Lru!Oldest(q)
      BY <2>2, <3>1 DEF Lru!Oldest
    <3>3. Held' = (Held \ {q}) \cup {p}
      BY <1>13, <2>2
    <3> QED BY <1>9, <1>10, <2>2, <3>2, <3>3 DEF Lru!MakeRoom
  <2> QED BY <1>11, <2>1, <2>2
<1> QED BY <1>13, <1>14, <1>15 DEF Lru!Use

\* What is removed is dropped, if it was there.
LEMMA RemoveDrops ==
  ASSUME IndexOK, Distinct, NEW p, remove_from_cache(p)
  PROVE  Distinct' /\ Lru!Drop(p) /\ Held' \subseteq Held
<1>1. CASE ~Hit(p)
  <2>1. UNCHANGED <<slots, count>>
    BY <1>1 DEF remove_from_cache
  <2>2. Held' = Held /\ Later' = Later /\ Distinct'
    BY <2>1 DEF Held, Later, Distinct
  <2>3. p \notin Held
    BY <1>1 DEF Hit, Held
  <2>4. Later \subseteq Held \X Held
    BY DEF Later
  <2> QED BY <2>2, <2>3, <2>4 DEF Lru!Drop
<1>2. CASE Hit(p)
  <2>1. PICK i \in 1..count :
          /\ slots[i].path = p
          /\ \A j \in Slot : i <= j /\ j < count => slots'[j] = slots[j + 1]
          /\ \A j \in Slot : ~(i <= j /\ j < count) => slots'[j] = slots[j]
    BY <1>2, RemoveMoves
  <2>2. count \in 1..CacheSize /\ CacheSize \in Nat /\ count' = count - 1
    BY <1>2, RemoveMoves, IndexAssumption
  <2> DEFINE K == (1..count) \ {i}
             From(m) == IF m < i THEN m ELSE m + 1
  \* Each place is filled from one that kept its entry, in the same order.
  <2>3. ASSUME NEW m \in 1..count' PROVE From(m) \in K /\ slots'[m] = slots[From(m)]
    <3>1. m \in Slot /\ m < count
      BY <2>2 DEF Slot
    <3> QED BY <2>1, <2>2, <3>1
  <2>4. ASSUME NEW k \in K PROVE \E m \in 1..count' : From(m) = k
    <3>1. CASE k < i
      <4>1. k \in 1..count' /\ From(k) = k
        BY <2>1, <2>2, <3>1
      <4> QED BY <4>1
    <3>2. CASE ~(k < i)
      <4>1. k - 1 \in 1..count' /\ From(k - 1) = k
        BY <2>1, <2>2, <3>2
      <4> QED BY <4>1
    <3> QED BY <3>1, <3>2
  <2>5. \A m, n \in 1..count' : m < n <=> From(m) < From(n)
    BY <2>1, <2>2
  <2>6. \A k \in K : slots[k].path # p
    BY <2>1 DEF Distinct
  <2>7. \A k \in 1..count : k \in K \/ slots[k].path = p
    BY <2>1
  <2>8. \A m, n \in 1..count' : From(m) = From(n) => m = n
    BY <2>1, <2>2
  <2>9. \A k \in K : k \in 1..count
    OBVIOUS
  <2> HIDE DEF K, From
  <2>10. Held' = Held \ {p}
    <3>1. \A m \in 1..count' : slots'[m].path \in Held \ {p}
      BY <2>3, <2>6, <2>9 DEF Held
    <3>2. \A q \in Held \ {p} : \E m \in 1..count' : slots'[m].path = q
      BY <2>3, <2>4, <2>7 DEF Held
    <3> QED BY <3>1, <3>2 DEF Held
  <2>11. Distinct'
    <3> SUFFICES ASSUME NEW m \in 1..count', NEW n \in 1..count', slots'[m].path = slots'[n].path PROVE m = n
      BY DEF Distinct
    <3>1. slots[From(m)].path = slots[From(n)].path /\ From(m) \in 1..count /\ From(n) \in 1..count
      BY <2>3, <2>9
    <3>2. From(m) = From(n)
      BY <3>1 DEF Distinct
    <3> QED BY <2>8, <3>2
  <2>12. ASSUME NEW a, NEW b, <<a, b>> \in Later' PROVE <<a, b>> \in Later \cap (Held' \X Held')
    <3>1. PICK m \in 1..count', n \in 1..count' : m < n /\ a = slots'[m].path /\ b = slots'[n].path
      BY <2>12, LaterSaysNext DEF LaterPlaces
    <3>2. /\ From(m) \in 1..count /\ From(n) \in 1..count /\ From(m) < From(n)
          /\ a = slots[From(m)].path /\ b = slots[From(n)].path
      BY <2>3, <2>5, <2>9, <3>1
    <3>3. <<a, b>> \in Later
      BY <3>2, LaterSays DEF LaterPlaces
    <3>4. Later' \subseteq Held' \X Held'
      BY LaterSaysNext DEF LaterPlaces
    <3> QED BY <2>12, <3>3, <3>4
  <2>13. ASSUME NEW a, NEW b, <<a, b>> \in Later \cap (Held' \X Held') PROVE <<a, b>> \in Later'
    <3>1. PICK k \in 1..count, l \in 1..count : k < l /\ a = slots[k].path /\ b = slots[l].path
      BY <2>13, LaterSays DEF LaterPlaces
    <3>2. k \in K /\ l \in K
      BY <2>7, <2>10, <2>13, <3>1
    <3>3. PICK m \in 1..count', n \in 1..count' : From(m) = k /\ From(n) = l
      BY <2>4, <3>2
    <3>4. m < n /\ a = slots'[m].path /\ b = slots'[n].path
      BY <2>3, <2>5, <3>1, <3>3
    <3> QED BY <3>4, LaterSaysNext DEF LaterPlaces
  <2>14. Later' = Later \cap (Held' \X Held')
    <3>1. Later' \subseteq Held' \X Held'
      BY LaterSaysNext DEF LaterPlaces
    <3>2. \A w \in Later' : w = <<w[1], w[2]>>
      BY <3>1
    <3>3. \A w \in Later \cap (Held' \X Held') : w = <<w[1], w[2]>>
      OBVIOUS
    <3>4. \A w \in Later' : w \in Later \cap (Held' \X Held')
      BY <2>12, <3>2
    <3>5. \A w \in Later \cap (Held' \X Held') : w \in Later'
      BY <2>13, <3>3
    <3> QED BY <3>4, <3>5
  <2> QED BY <2>10, <2>11, <2>14 DEF Lru!Drop
<1> QED BY <1>1, <1>2

-----------------------------------------------------------------------------
(* The cache, and the threads that search for what it does not have.       *)

\* A path is in the cache once at most.
Once(p) == \A i, j \in 1..count : slots[i].path = p /\ slots[j].path = p => i = j

\* A path that no two threads have searched the trie for at once is in the cache
\* once at most, and not yet while one of them searches.
RaceInv ==
  /\ \A p \in Path : Race(p) => p \in raced
  /\ \A p \in Path \ raced : Once(p)
  /\ \A t \in Thread : \A p \in Path \ raced : p \in Sought(t) => ~Hit(p)

\* The cache, a node of the trie staying as it is.
Found(p) == UNCHANGED trie /\ Hit(p) /\ find_in_cache(p)
Added(p) == UNCHANGED trie /\ trie[p] \in Info /\ add_to_cache(p, trie[p])
Removed(p) == UNCHANGED trie /\ remove_from_cache(p)

\* The entries there are after a path was found or removed were there before, each
\* in a place of its own ...
LEMMA EntriesStay ==
  ASSUME IndexOK, NEW p \in Path, Found(p) \/ Removed(p)
  PROVE  \E F \in [1..count' -> 1..count] :
           /\ \A m \in 1..count' : slots'[m] = slots[F[m]]
           /\ \A m, n \in 1..count' : F[m] = F[n] => m = n
<1>1. count \in 0..CacheSize /\ CacheSize \in Nat
  BY IndexAssumption DEF IndexOK
<1>2. CASE Found(p)
  <2>1. PICK i \in 1..count :
          /\ slots'[1] = slots[i]
          /\ \A j \in 2..i : slots'[j] = slots[j - 1]
          /\ \A j \in Slot : j > i => slots'[j] = slots[j]
    BY <1>2, FindMoves DEF Found
  <2>2. count' = count
    BY <1>2 DEF Found, find_in_cache
  <2> DEFINE F == [m \in 1..count' |-> IF m = 1 THEN i ELSE IF m <= i THEN m - 1 ELSE m]
  <2>3. F \in [1..count' -> 1..count]
    BY <1>1, <2>1, <2>2
  <2>4. ASSUME NEW m \in 1..count' PROVE slots'[m] = slots[F[m]]
    <3>1. m \in Slot
      BY <1>1, <2>2 DEF Slot
    <3> QED BY <1>1, <2>1, <2>2, <3>1
  <2>5. \A m, n \in 1..count' : F[m] = F[n] => m = n
    BY <1>1, <2>1, <2>2
  <2> QED BY <2>3, <2>4, <2>5
<1>3. CASE Removed(p) /\ ~Hit(p)
  <2>1. UNCHANGED <<slots, count>>
    BY <1>3 DEF Removed, remove_from_cache
  <2> DEFINE F == [m \in 1..count |-> m]
  <2>2. F \in [1..count' -> 1..count]
    BY <2>1
  <2> QED BY <2>1, <2>2
<1>4. CASE Removed(p) /\ Hit(p)
  <2>1. PICK i \in 1..count :
          /\ \A j \in Slot : i <= j /\ j < count => slots'[j] = slots[j + 1]
          /\ \A j \in Slot : ~(i <= j /\ j < count) => slots'[j] = slots[j]
    BY <1>4, RemoveMoves DEF Removed
  <2>2. count' = count - 1
    BY <1>4 DEF Removed, remove_from_cache
  <2> DEFINE F == [m \in 1..count' |-> IF m < i THEN m ELSE m + 1]
  <2>3. F \in [1..count' -> 1..count]
    BY <1>1, <2>1, <2>2
  <2>4. ASSUME NEW m \in 1..count' PROVE slots'[m] = slots[F[m]]
    <3>1. m \in Slot
      BY <1>1, <2>2 DEF Slot
    <3> QED BY <1>1, <2>1, <2>2, <3>1
  <2>5. \A m, n \in 1..count' : F[m] = F[n] => m = n
    BY <1>1, <2>1, <2>2
  <2> QED BY <2>3, <2>4, <2>5
<1> QED BY <1>2, <1>3, <1>4

\* ... and so were those after one was added, but for the first.
LEMMA EntriesJoin ==
  ASSUME IndexOK, NEW p \in Path, Added(p)
  PROVE  /\ slots'[1] = [path |-> p, info |-> trie[p]]
         /\ \A m \in 1..count' : m # 1 => m - 1 \in 1..count /\ slots'[m] = slots[m - 1]
<1>1. count \in 0..CacheSize /\ CacheSize \in Nat
  BY IndexAssumption DEF IndexOK
<1>2. PICK kept \in 0..(CacheSize - 1) :
        /\ kept = count \/ (count = CacheSize /\ kept = count - 1)
        /\ count' = kept + 1
        /\ \A j \in 2..(kept + 1) : slots'[j] = slots[j - 1]
  BY AddMoves DEF Added
<1>3. slots'[1] = [path |-> p, info |-> trie[p]]
  BY AddMoves DEF Added
<1> QED BY <1>1, <1>2, <1>3

\* What is in each place of the array, those beyond its end included.
LEMMA PlacesFrom ==
  ASSUME IndexOK, NEW p \in Path, Found(p) \/ Added(p) \/ Removed(p), NEW m \in Slot
  PROVE  \/ \E k \in Slot : slots'[m] = slots[k]
         \/ Added(p) /\ slots'[m] = [path |-> p, info |-> trie[p]]
<1>1. count \in 0..CacheSize /\ CacheSize \in Nat \ {0} /\ m \in 1..CacheSize
  BY IndexAssumption DEF IndexOK, Slot
<1>2. CASE Found(p)
  <2>1. PICK i \in 1..count :
          /\ slots'[1] = slots[i]
          /\ \A j \in 2..i : slots'[j] = slots[j - 1]
          /\ \A j \in Slot : j > i => slots'[j] = slots[j]
    BY <1>2, FindMoves DEF Found
  <2>2. i \in Slot /\ (m \in 2..i => m - 1 \in Slot)
    BY <1>1 DEF Slot
  <2>3. m = 1 \/ m \in 2..i \/ m > i
    BY <1>1
  <2> QED BY <2>1, <2>2, <2>3
<1>3. CASE Added(p)
  <2>1. PICK kept \in 0..(CacheSize - 1) :
          /\ \A j \in 2..(kept + 1) : slots'[j] = slots[j - 1]
          /\ \A j \in Slot : j > kept + 1 => slots'[j] = slots[j]
    BY <1>3, AddMoves DEF Added
  <2>2. slots'[1] = [path |-> p, info |-> trie[p]]
    BY <1>3, AddMoves DEF Added
  <2>3. m \in 2..(kept + 1) => m - 1 \in Slot
    BY <1>1 DEF Slot
  <2>4. m = 1 \/ m \in 2..(kept + 1) \/ m > kept + 1
    BY <1>1
  <2> QED BY <1>3, <2>1, <2>2, <2>3, <2>4
<1>4. CASE Removed(p) /\ ~Hit(p)
  BY <1>4 DEF Removed, remove_from_cache
<1>5. CASE Removed(p) /\ Hit(p)
  <2>1. PICK i \in 1..count :
          /\ \A j \in Slot : i <= j /\ j < count => slots'[j] = slots[j + 1]
          /\ \A j \in Slot : ~(i <= j /\ j < count) => slots'[j] = slots[j]
    BY <1>5, RemoveMoves DEF Removed
  <2>2. m < count => m + 1 \in Slot
    BY <1>1 DEF Slot
  <2> QED BY <2>1, <2>2
<1> QED BY <1>2, <1>3, <1>4, <1>5

\* What this says of one path: finding and removing paths, and adding others, does
\* not add it.
LEMMA OnceStays ==
  ASSUME IndexOK, NEW p \in Path, NEW q \in Path, Found(q) \/ Removed(q) \/ (Added(q) /\ q # p)
  PROVE  (Once(p) => Once(p)') /\ (Hit(p)' => Hit(p))
<1>1. CASE Found(q) \/ Removed(q)
  <2>1. PICK F \in [1..count' -> 1..count] :
          /\ \A m \in 1..count' : slots'[m] = slots[F[m]]
          /\ \A m, n \in 1..count' : F[m] = F[n] => m = n
    BY <1>1, EntriesStay
  <2>2. Once(p) => Once(p)'
    BY <2>1 DEF Once
  <2>3. Hit(p)' => Hit(p)
    BY <2>1 DEF Hit
  <2> QED BY <2>2, <2>3
<1>2. CASE Added(q) /\ q # p
  <2>1. /\ slots'[1] = [path |-> q, info |-> trie[q]]
        /\ \A m \in 1..count' : m # 1 => m - 1 \in 1..count /\ slots'[m] = slots[m - 1]
    BY <1>2, EntriesJoin
  <2>2. count' \in Nat
    <3>1. count' \in 1..CacheSize
      BY <1>2, AddMoves DEF Added
    <3> QED BY <3>1, IndexAssumption
  <2>3. \A m \in 1..count' : slots'[m].path = p => m # 1 /\ m - 1 \in 1..count /\ slots[m - 1].path = p
    BY <1>2, <2>1
  <2>4. \A m, n \in 1..count' : m - 1 = n - 1 => m = n
    BY <2>2
  <2>5. Once(p) => Once(p)'
    BY <2>3, <2>4 DEF Once
  <2>6. Hit(p)' => Hit(p)
    BY <2>3 DEF Hit
  <2> QED BY <2>5, <2>6
<1> QED BY <1>1, <1>2

\* What is added and was not there is there once.
LEMMA OnceAdded ==
  ASSUME IndexOK, NEW p \in Path, Added(p), ~Hit(p) PROVE Once(p)'
<1>1. \A m \in 1..count' : m # 1 => m - 1 \in 1..count /\ slots'[m] = slots[m - 1]
  BY EntriesJoin
<1>2. \A m \in 1..count' : m # 1 => slots'[m].path # p
  BY <1>1 DEF Hit
<1> QED BY <1>2 DEF Once

\* What is removed and was there once is gone.
LEMMA OnceGone ==
  ASSUME IndexOK, NEW p \in Path, Once(p), remove_from_cache(p) PROVE ~Hit(p)'
<1>1. CASE ~Hit(p)
  BY <1>1 DEF remove_from_cache, Hit
<1>2. CASE Hit(p)
  <2>1. PICK i \in 1..count :
          /\ slots[i].path = p
          /\ \A j \in Slot : i <= j /\ j < count => slots'[j] = slots[j + 1]
          /\ \A j \in Slot : ~(i <= j /\ j < count) => slots'[j] = slots[j]
    BY <1>2, RemoveMoves
  <2>2. count \in 1..CacheSize /\ CacheSize \in Nat /\ count' = count - 1
    BY <1>2, RemoveMoves, IndexAssumption
  <2>3. ASSUME NEW m \in 1..count', slots'[m].path = p PROVE FALSE
    <3>1. m \in Slot /\ m < count
      BY <2>2 DEF Slot
    <3>2. PICK k \in 1..count : k # i /\ slots'[m] = slots[k]
      BY <2>1, <2>2, <3>1
    <3> QED BY <2>1, <2>3, <3>2 DEF Once
  <2> QED BY <2>3 DEF Hit
<1> QED BY <1>1, <1>2

\* What was said.
LEMMA SaysKind ==
  /\ \A t, kind, info : Say(t, kind, info) => sent'.kind = kind
  /\ Quiet => sent'.kind = "none"
<1>1. \A to, kind, info : Message(to, kind, info).kind = kind
  BY DEF Message
<1> QED BY <1>1 DEF Say, Quiet, Nothing

\* What a lookup does to the cache.
LEMMA LookupDoes ==
  ASSUME NEW t \in Thread, NEW from \in DOMAIN Searching, NEW p, NEW result \in Pointers(p),
         LookedUp(t, from, p, result)
  PROVE  /\ result # NullPtr => Found(p) \/ (Added(p) /\ pc[t] = Searching[from])
         /\ result = NullPtr => /\ UNCHANGED <<slots, count, trie>> /\ trie[p] \notin Info
                                /\ pc[t] = Searching[from]
<1>1. SlotPtr # NullPtr /\ NodePtr(p) # NullPtr
  BY DEF SlotPtr, NodePtr, NullPtr, Pointer
<1>2. CASE pc[t] = from /\ find_cached(p, result)
  BY <1>1, <1>2 DEF find_cached, Found
<1>3. CASE pc[t] = Searching[from] /\ find_in_trie(p, result)
  BY <1>1, <1>3 DEF find_in_trie, Added
<1> QED BY <1>2, <1>3 DEF LookedUp

\* A thread that looks p up finds it, or adds what it has searched for.
LooksUp(t, p) == p \in Path /\ (Found(p) \/ (Added(p) /\ p \in Sought(t)))

\* The steps of a thread that look something up.
LEMMA FindDoes ==
  ASSUME TypeInv, NEW t \in Thread, Find(t)
  PROVE  /\ pc[t] \in {"find", "search"} /\ pc'[t] \in {"find_file", "found"} /\ UNCHANGED cmd
         /\ ptr'[t] # NullPtr => LooksUp(t, cmd[t].path)
         /\ ptr'[t] = NullPtr => UNCHANGED <<slots, count, trie>>
<1>1. PICK result \in Pointers(cmd[t].path) :
        LookedUp(t, "find", cmd[t].path, result) /\ ptr' = [ptr EXCEPT ![t] = result]
  BY DEF Find
<1>2. pc[t] \in {"find", "search"} /\ Searching["find"] = "search" /\ "find" \in DOMAIN Searching
  BY <1>1 DEF LookedUp, Searching
<1>3. ptr'[t] = result /\ pc'[t] \in {"find_file", "found"} /\ UNCHANGED cmd
  BY <1>1 DEF TypeInv, StateOK, Find, Step
<1>4. cmd[t].path \in Path
  BY <1>2, CommandSays DEF TypeInv, CmdOK
<1>5. pc[t] = "search" => cmd[t].path \in Sought(t)
  BY DEF Sought
<1> QED BY <1>1, <1>2, <1>3, <1>4, <1>5, LookupDoes DEF LooksUp

LEMMA CreateFindDoes ==
  ASSUME TypeInv, NEW t \in Thread, CreateFind(t)
  PROVE  /\ pc[t] \in {"find_file", "search_file"}
         /\ \/ sent'.kind = "exists" /\ pc'[t] = "idle" /\ LooksUp(t, cmd[t].to)
            \/ /\ sent'.kind # "exists" /\ UNCHANGED <<slots, count, trie>> /\ pc[t] = "search_file"
               /\ \/ pc'[t] = "idle"
                  \/ pc'[t] = "check" /\ UNCHANGED <<cmd, ptr>> /\ trie[cmd[t].to] \notin Info
<1>1. PICK result \in Pointers(cmd[t].to) :
        /\ LookedUp(t, "find_file", cmd[t].to, result)
        /\ \/ result # NullPtr /\ Return(t, pc[t]) /\ Say(t, "exists", NoInfo)
           \/ result = NullPtr /\ Return(t, pc[t]) /\ Say(t, "not found", NoInfo)
           \/ result = NullPtr /\ Step(t, pc[t], "check") /\ UNCHANGED locals /\ Quiet
  BY DEF CreateFind
<1>2. /\ pc[t] \in {"find_file", "search_file"} /\ Searching["find_file"] = "search_file"
      /\ "find_file" \in DOMAIN Searching
  BY <1>1 DEF LookedUp, Searching
<1>3. cmd[t].to \in Path
  BY <1>2, CommandSays DEF TypeInv, CmdOK
<1>4. /\ result # NullPtr => sent'.kind = "exists" /\ pc'[t] = "idle"
      /\ result = NullPtr => /\ sent'.kind # "exists"
                             /\ pc'[t] = "idle" \/ (pc'[t] = "check" /\ UNCHANGED <<cmd, ptr>>)
  <2>1. /\ \A to : Step(t, pc[t], to) => pc'[t] = to
        /\ Return(t, pc[t]) => pc'[t] = "idle"
    BY DEF Return, Leave, Step, TypeInv, StateOK
  <2> QED BY <1>1, <2>1, SaysKind DEF locals
<1>5. pc[t] = "search_file" => cmd[t].to \in Sought(t)
  BY DEF Sought
<1>6. /\ result # NullPtr => LooksUp(t, cmd[t].to)
      /\ result = NullPtr => /\ UNCHANGED <<slots, count, trie>> /\ trie[cmd[t].to] \notin Info
                             /\ pc[t] = "search_file"
  <2>1. /\ result # NullPtr => Found(cmd[t].to) \/ (Added(cmd[t].to) /\ pc[t] = "search_file")
        /\ result = NullPtr => /\ UNCHANGED <<slots, count, trie>> /\ trie[cmd[t].to] \notin Info
                               /\ pc[t] = "search_file"
    <3>1. LookedUp(t, "find_file", cmd[t].to, result) /\ "find_file" \in DOMAIN Searching
      BY <1>1, <1>2
    <3>2. /\ result # NullPtr => Found(cmd[t].to) \/ (Added(cmd[t].to) /\ pc[t] = Searching["find_file"])
          /\ result = NullPtr => /\ UNCHANGED <<slots, count, trie>> /\ trie[cmd[t].to] \notin Info
                                 /\ pc[t] = Searching["find_file"]
      BY <3>1, LookupDoes
    <3> QED BY <1>2, <3>2
  <2> QED BY <1>3, <1>5, <2>1 DEF LooksUp
<1>7. CASE result # NullPtr
  BY <1>2, <1>4, <1>6, <1>7
<1>8. CASE result = NullPtr
  BY <1>2, <1>4, <1>6, <1>8
<1> QED BY <1>7, <1>8

LEMMA CopyFindDoes ==
  ASSUME TypeInv, NEW t \in Thread, CopyFindDest(t)
  PROVE  /\ pc[t] \in {"find_dest", "search_dest"} /\ pc'[t] \in {"idle", "check_dest"}
         /\ ptr'[t] # NullPtr => LooksUp(t, cmd[t].to)
         /\ ptr'[t] = NullPtr => UNCHANGED <<slots, count, trie>>
<1>1. PICK result \in Pointers(cmd[t].to) :
        /\ LookedUp(t, "find_dest", cmd[t].to, result)
        /\ \/ result = NullPtr /\ Return(t, pc[t])
           \/ result # NullPtr /\ Step(t, pc[t], "check_dest") /\ ptr' = [ptr EXCEPT ![t] = result]
  BY DEF CopyFindDest
<1>2. /\ pc[t] \in {"find_dest", "search_dest"} /\ Searching["find_dest"] = "search_dest"
      /\ "find_dest" \in DOMAIN Searching
  BY <1>1 DEF LookedUp, Searching
<1>3. cmd[t].to \in Path
  BY <1>2, CommandSays DEF TypeInv, CmdOK
<1>4. ptr'[t] = result /\ pc'[t] \in {"idle", "check_dest"}
  BY <1>1 DEF Return, Leave, Step, TypeInv, StateOK
<1>5. pc[t] = "search_dest" => cmd[t].to \in Sought(t)
  BY DEF Sought
<1>6. /\ result # NullPtr => LooksUp(t, cmd[t].to)
      /\ result = NullPtr => UNCHANGED <<slots, count, trie>>
  BY <1>1, <1>2, <1>3, <1>5, LookupDoes DEF LooksUp
<1> QED BY <1>2, <1>4, <1>6

\* What a step of a thread does to the cache, and to the trie.
LEMMA CacheSteps ==
  ASSUME TypeInv, NEW t \in Thread, Handle(t)
  PROVE  \/ UNCHANGED <<slots, count, trie>>
         \/ UNCHANGED <<slots, count>> /\ (CreateRecord(t) \/ DeleteUntrie(t) \/ CopyIndex(t))
         \/ \E p \in Path : LooksUp(t, p) \/ (Removed(p) /\ DeleteUncache(t))
<1>1. CASE Find(t)
  BY <1>1, FindDoes DEF LooksUp
<1>2. CASE CreateFind(t)
  BY <1>2, CreateFindDoes DEF LooksUp
<1>3. CASE CopyFindDest(t)
  BY <1>3, CopyFindDoes DEF LooksUp
<1>4. CASE DeleteUncache(t)
  <2>1. Read(ptr[t]) \subseteq Info
    BY ReadsInfo DEF TypeInv, StateOK
  <2>2. \E x \in Info : remove_from_cache(x.path) /\ UNCHANGED trie
    BY <1>4, <2>1 DEF DeleteUncache
  <2> QED BY <1>4, <2>2 DEF Info, Removed
<1>5. CASE CreateRecord(t) \/ DeleteUntrie(t) \/ CopyIndex(t)
  BY <1>5 DEF CreateRecord, DeleteUntrie, CopyIndex
<1>6. CASE \/ CopyStat(t) \/ Undotted(t) \/ Miss(t) \/ Missing(t) \/ Present(t) \/ Check(t)
           \/ Send(t) \/ Unreachable(t) \/ StorageCreate(t) \/ CreateAnswer(t) \/ StorageDelete(t)
           \/ CopyCheckDest(t) \/ CopyBroken(t) \/ StorageCopy(t)
  <2>1. UNCHANGED index
    <3>1. \A from, kind, info : Answer(t, from, kind, info) => UNCHANGED index
      BY DEF Answer
    <3>2. \A from : GiveUp(t, from) => UNCHANGED index
      BY DEF GiveUp
    <3>3. CASE Check(t)
      BY <3>1, <3>2, <3>3 DEF Check, ReadCheck, InfoCheck, WriteCheck, RequestCheck, CopyCheck
    <3>4. CASE CopyStat(t) \/ Undotted(t) \/ Miss(t) \/ Missing(t) \/ Present(t)
      BY <3>1, <3>2, <3>4 DEF CopyStat, Undotted, Miss, Missing, Present
    <3>5. CASE Send(t) \/ Unreachable(t) \/ StorageCreate(t) \/ CreateAnswer(t)
      BY <3>1, <3>2, <3>5 DEF Send, Unreachable, StorageCreate, CreateAnswer
    <3>6. CASE StorageDelete(t) \/ CopyCheckDest(t) \/ CopyBroken(t) \/ StorageCopy(t)
      BY <3>1, <3>2, <3>6 DEF StorageDelete, CopyCheckDest, CopyBroken, StorageCopy
    <3> QED BY <1>6, <3>3, <3>4, <3>5, <3>6
  <2> QED BY <2>1 DEF index
<1> QED BY <1>1, <1>2, <1>3, <1>4, <1>5, <1>6 DEF Handle

\* Where the steps lead that are not Miss.
Places == {"idle", "stat", "find", "find_file", "found", "check", "send", "request", "record",
           "created", "uncache", "untrie", "find_dest", "check_dest", "copy_wait", "copy_index",
           "copy_request"}

LEMMA GoesTo ==
  ASSUME TypeInv, NEW t \in Thread, Handle(t), ~Miss(t)
  PROVE  pc'[t] \in Places
<1>1. \A from, to : Step(t, from, to) => pc'[t] = to
  BY DEF Step, TypeInv, StateOK
<1>2. \A from : Leave(t, from) => pc'[t] = "idle"
  BY <1>1 DEF Leave
<1>3. \A from, kind, info : Return(t, from) \/ Answer(t, from, kind, info) \/ GiveUp(t, from) => pc'[t] = "idle"
  BY <1>2 DEF Return, Answer, GiveUp
<1>4. CASE CopyStat(t) \/ Undotted(t) \/ Missing(t) \/ Present(t) \/ Send(t) \/ Unreachable(t)
  BY <1>1, <1>3, <1>4 DEF CopyStat, Undotted, Missing, Present, Send, Unreachable, Places
<1>5. CASE Find(t) \/ CreateFind(t) \/ CopyFindDest(t)
  BY <1>5, FindDoes, CreateFindDoes, CopyFindDoes DEF Places
<1>6. CASE Check(t)
  BY <1>1, <1>3, <1>6 DEF Check, ReadCheck, InfoCheck, WriteCheck, RequestCheck, CopyCheck, Places
<1>7. CASE StorageCreate(t) \/ CreateRecord(t) \/ CreateAnswer(t) \/ StorageDelete(t)
  BY <1>1, <1>3, <1>7 DEF StorageCreate, CreateRecord, CreateAnswer, StorageDelete, Places
<1>8. CASE DeleteUncache(t) \/ DeleteUntrie(t) \/ CopyCheckDest(t)
  BY <1>1, <1>2, <1>3, <1>8 DEF DeleteUncache, DeleteUntrie, CopyCheckDest, Places
<1>9. CASE CopyBroken(t) \/ CopyIndex(t) \/ StorageCopy(t)
  BY <1>1, <1>3, <1>9 DEF CopyBroken, CopyIndex, StorageCopy, Places
<1> QED BY <1>4, <1>5, <1>6, <1>7, <1>8, <1>9 DEF Handle

\* A thread that starts to search for a path has not found it in the cache.
LEMMA SeeksNew ==
  ASSUME TypeInv, NEW t \in Thread, Handle(t), NEW p, p \in Sought(t)'
  PROVE  ~Hit(p) /\ UNCHANGED <<slots, count, trie>>
<1>1. pc'[t] \in {"search", "search_file", "search_dest"}
  BY DEF Sought
<1>2. Miss(t)
  BY <1>1, GoesTo DEF Places
<1>3. PICK from \in DOMAIN Searching :
        /\ Step(t, from, Searching[from]) /\ ~Hit(IF from = "find" THEN cmd[t].path ELSE cmd[t].to)
        /\ UNCHANGED <<index, cmd>>
  BY <1>2 DEF Miss, locals
<1>4. from \in {"find", "find_file", "find_dest"} /\ pc'[t] = Searching[from]
  BY <1>3 DEF Searching, Step, TypeInv, StateOK
<1>5. /\ from = "find" => pc'[t] = "search"
      /\ from = "find_file" => pc'[t] = "search_file"
      /\ from = "find_dest" => pc'[t] = "search_dest"
  BY <1>4 DEF Searching
<1>6. p = (IF from = "find" THEN cmd[t].path ELSE cmd[t].to)
  BY <1>3, <1>4, <1>5 DEF Sought
<1> QED BY <1>3, <1>6 DEF index

LEMMA SeekersStay ==
  ASSUME NEW t \in Thread, UNCHANGED <<pc, cmd>> \/ (pc'[t] = pc[t] /\ cmd'[t] = cmd[t])
  PROVE  Sought(t)' = Sought(t)
BY DEF Sought

\* One path, over a step of a thread.
LEMMA RaceKept ==
  ASSUME TypeInv, RaceInv, NEW t \in Thread, Handle(t), NEW p \in Path \ raced
  PROVE  Once(p)' /\ (\A u \in Thread : p \in Sought(u)' => ~Hit(p)' \/ Race(p)')
<1>1. IndexOK /\ Once(p) /\ ~Race(p) /\ (\A u \in Thread : p \in Sought(u) => ~Hit(p))
  BY DEF RaceInv, TypeInv, StateOK
<1>2. \A u \in Thread \ {t} : Sought(u)' = Sought(u)
  BY HandleMoves, SeekersStay DEF Moves
<1>3. CASE UNCHANGED <<slots, count>>
  <2>1. Once(p)' /\ (Hit(p)' <=> Hit(p))
    BY <1>1, <1>3 DEF Once, Hit
  <2>2. p \in Sought(t)' => ~Hit(p)
    BY SeeksNew
  <2> QED BY <1>1, <1>2, <2>1, <2>2
<1>4. ASSUME NEW q \in Path, Found(q) \/ Removed(q) \/ (Added(q) /\ q # p)
      PROVE  Once(p)' /\ (\A u \in Thread : p \in Sought(u)' => ~Hit(p)')
  <2>1. Once(p)' /\ (Hit(p)' => Hit(p))
    BY <1>1, <1>4, OnceStays
  <2>2. p \in Sought(t)' => ~Hit(p)
    BY SeeksNew
  <2> QED BY <1>1, <1>2, <2>1, <2>2
<1>5. CASE Added(p) /\ p \in Sought(t)
  <2>1. ~Hit(p)
    BY <1>1, <1>5
  <2>2. Once(p)'
    BY <1>1, <1>5, <2>1, OnceAdded
  <2>3. ASSUME NEW u \in Thread, p \in Sought(u)' PROVE ~Hit(p)'
    <3>1. CASE u = t
      <4>1. UNCHANGED <<slots, count>>
        BY <2>3, <3>1, SeeksNew
      <4> QED BY <2>1, <4>1 DEF Hit
    <3>2. CASE u # t
      <4>1. p \in Sought(u)
        BY <1>2, <2>3, <3>2
      <4> QED BY <1>1, <1>5, <3>2, <4>1 DEF Race
    <3> QED BY <3>1, <3>2
  <2> QED BY <2>2, <2>3
<1> QED BY <1>3, <1>4, <1>5, CacheSteps DEF LooksUp

LEMMA RaceHolds == Spec => [](TypeInv /\ RaceInv)
<1>1. Init => RaceInv
  <2> SUFFICES ASSUME Init PROVE RaceInv
    OBVIOUS
  <2>1. \A t \in Thread : Sought(t) = {}
    BY DEF Init, Sought
  <2>2. count = 0
    BY DEF Init, IndexInit
  <2>3. \A p : ~Race(p)
    BY <2>1 DEF Race
  <2>4. \A p : Once(p)
    BY <2>2 DEF Once
  <2> QED BY <2>1, <2>3, <2>4 DEF RaceInv
<1>2. TypeInv /\ RaceInv /\ [Next]_vars => RaceInv'
  <2> SUFFICES ASSUME TypeInv, RaceInv, [Next]_vars PROVE RaceInv'
    OBVIOUS
  \* By what raced remembers it is enough to look at the paths that were not raced.
  <2>1. ASSUME Histories,
               \A p \in Path \ raced : Once(p)' /\ (\A u \in Thread : p \in Sought(u)' => ~Hit(p)' \/ Race(p)')
        PROVE  RaceInv'
    <3>1. \A p \in Path : p \in raced' <=> Race(p)' \/ (p \in raced /\ Hit(p)')
      BY <2>1 DEF Histories
    <3>2. \A p : ~Hit(p)' => Once(p)'
      BY DEF Hit, Once
    <3> QED BY <2>1, <3>1, <3>2 DEF RaceInv
  <2>2. ASSUME NEW t \in Thread, Handle(t), Histories PROVE RaceInv'
    BY <2>1, <2>2, RaceKept
  <2>3. ASSUME UNCHANGED <<slots, count>>, NEW p \in Path \ raced
        PROVE  Once(p)' /\ (p \in UNION {Sought(u) : u \in Thread} => ~Hit(p)')
    BY <2>3 DEF RaceInv, Once, Hit
  <2>4. ASSUME NEW s \in Server, Register(s) \/ Disconnect(s) \/ Reconnect(s), Histories PROVE RaceInv'
    <3>1. UNCHANGED <<pc, cmd, slots, count>>
      BY <2>4 DEF Register, Disconnect, Reconnect, index, locals
    <3>2. \A u \in Thread : Sought(u)' = Sought(u)
      BY <3>1, SeekersStay
    <3> QED BY <2>1, <2>3, <2>4, <3>1, <3>2
  <2>5. ASSUME NEW t \in Thread, NEW c \in Command, Accept(t, c), Histories PROVE RaceInv'
    <3>1. UNCHANGED <<slots, count>> /\ pc'[t] \in {"stat", "find"}
      BY <2>5, AcceptMoves
    <3>2. \A u \in Thread \ {t} : Sought(u)' = Sought(u)
      BY <2>5, AcceptMoves, SeekersStay
    <3>3. Sought(t)' = {}
      BY <3>1 DEF Sought
    <3> QED BY <2>1, <2>3, <2>5, <3>1, <3>2, <3>3
  <2>6. CASE UNCHANGED vars
    <3>1. UNCHANGED <<pc, cmd, slots, count, raced>>
      BY <2>6 DEF vars, index, locals, history
    <3> QED BY <3>1 DEF RaceInv, Race, Sought, Once, Hit
  <2> QED BY <2>2, <2>4, <2>5, <2>6, NextIs
<1> QED BY <1>1, <1>2, TypeHolds, PTL DEF Spec

\* No path is in the cache twice, however many threads there are, unless two of
\* them searched the trie for it at once: the second entry would outlive the
\* removal of the first and answer for a deleted file (naming_utils.c:34-83,
\* 145-171).
THEOREM NoDuplicates == Spec => []NoDuplicateEntry
<1>1. TypeInv /\ RaceInv => NoDuplicateEntry
  <2> SUFFICES ASSUME TypeInv, RaceInv, NEW i \in 1..count, NEW j \in 1..count,
                      slots[i].path = slots[j].path, slots[i].path \notin raced
               PROVE  i = j
    BY DEF NoDuplicateEntry
  <2>1. slots[i] \in Entry
    BY DEF TypeInv, StateOK, IndexOK
  <2>2. slots[i].path \in Path \ raced
    BY <2>1 DEF Entry
  <2> QED BY <2>2 DEF RaceInv, Once
<1> QED BY RaceHolds, <1>1, PTL

\* As long as no two threads have searched for the same path at once ...
LEMMA DistinctIs ==
  ASSUME TypeInv, RaceInv, raced = {}
  PROVE  Distinct /\ \A t \in Thread : \A p \in Path : LooksUp(t, p) => Lru!Use(p)
<1>1. IndexOK
  BY DEF TypeInv, StateOK
<1>2. Distinct
  <2> SUFFICES ASSUME NEW i \in 1..count, NEW j \in 1..count, slots[i].path = slots[j].path PROVE i = j
    BY DEF Distinct
  <2>1. slots[i] \in Entry
    BY <1>1 DEF IndexOK
  <2>2. slots[i].path \in Path \ raced
    BY <2>1 DEF Entry
  <2> QED BY <2>2 DEF RaceInv, Once
<1>3. ASSUME NEW t \in Thread, NEW p \in Path, LooksUp(t, p) PROVE Lru!Use(p)
  <2>1. CASE Found(p)
    BY <1>1, <1>2, <2>1, FindUses DEF Found
  <2>2. CASE Added(p) /\ p \in Sought(t)
    <3>1. ~Hit(p)
      BY <2>2 DEF RaceInv
    <3> QED BY <1>1, <1>2, <2>2, <3>1, AddUses DEF Added
  <2> QED BY <1>3, <2>1, <2>2 DEF LooksUp
<1> QED BY <1>2, <1>3

\* ... the cache is an LRU cache: every step of the naming server uses a path,
\* drops one or leaves the cache alone, and a full cache makes room by giving up
\* the path whose use is the longest ago (naming_utils.c:34-83).
THEOREM CacheRefines == Spec /\ [](raced = {}) => CacheIsLru
<1>1. Init => Lru!Init
  BY DEF Init, IndexInit, Lru!Init, Held, Later
<1>2. TypeInv /\ RaceInv /\ raced = {} /\ [Next]_vars => [Lru!Next]_Lru!lru
  <2> SUFFICES ASSUME TypeInv, RaceInv, raced = {}, [Next]_vars PROVE (Lru!Next) \/ UNCHANGED <<Held, Later>>
    BY DEF Lru!lru
  <2>1. IndexOK /\ Distinct
    BY DistinctIs DEF TypeInv, StateOK
  <2>2. ASSUME UNCHANGED <<slots, count>> PROVE UNCHANGED <<Held, Later>>
    BY <2>2 DEF Held, Later
  <2>3. ASSUME NEW t \in Thread, Handle(t) PROVE (Lru!Next) \/ UNCHANGED <<Held, Later>>
    <3>1. UNCHANGED <<slots, count>> \/ \E p \in Path : Lru!Use(p) \/ Lru!Drop(p)
      BY <2>1, <2>3, CacheSteps, DistinctIs, RemoveDrops DEF Removed
    <3> QED BY <2>2, <3>1 DEF Lru!Next
  <2> QED BY <2>2, <2>3, OthersDo, NextIs
<1> QED BY <1>1, <1>2, RaceHolds, PTL DEF Spec, CacheIsLru, Lru!Spec

\* Where a thread goes that is at a lookup.
LEMMA LookupGoes ==
  ASSUME TypeInv, NEW t \in Thread, Handle(t),
         pc[t] \in {"find", "search", "find_file", "search_file", "find_dest", "search_dest"}
  PROVE  \/ ptr'[t] = NullPtr /\ sent'.kind # "exists"
         \/ \E from \in {"find", "find_file", "find_dest"} : pc[t] = from /\ pc'[t] = Searching[from]
         \/ Find(t) \/ CreateFind(t) \/ CopyFindDest(t)
<1>1. StateOK /\ CmdOK(t)
  BY DEF TypeInv
<1>2. ASSUME NEW from, NEW to, Step(t, from, to) PROVE pc[t] = from /\ pc'[t] = to
  BY <1>1, <1>2 DEF Step, StateOK
<1>3. ASSUME NEW from, GiveUp(t, from) PROVE ptr'[t] = NullPtr /\ sent'.kind # "exists"
  BY <1>1, <1>3, SaysKind DEF GiveUp, Return, StateOK
<1>4. CASE Miss(t)
  <2>1. DOMAIN Searching = {"find", "find_file", "find_dest"}
    BY DEF Searching
  <2> QED BY <1>2, <1>4, <2>1 DEF Miss
<1>5. CASE Undotted(t) \/ Unreachable(t)
  BY <1>3, <1>5 DEF Undotted, Unreachable
<1>6. CASE \/ CopyStat(t) \/ Missing(t) \/ Present(t) \/ Check(t) \/ Send(t) \/ StorageCreate(t)
           \/ CreateRecord(t) \/ CreateAnswer(t) \/ StorageDelete(t) \/ DeleteUncache(t)
           \/ DeleteUntrie(t) \/ CopyCheckDest(t) \/ CopyBroken(t) \/ CopyIndex(t) \/ StorageCopy(t)
  <2>1. pc[t] \in {"stat", "found", "check", "send", "request", "record", "created", "uncache",
                   "untrie", "check_dest", "copy_wait", "copy_index", "copy_request"}
    BY <1>2, <1>6 DEF CopyStat, Missing, Present, Check, ReadCheck, InfoCheck, WriteCheck,
      RequestCheck, CopyCheck, Send, StorageCreate, CreateRecord, CreateAnswer, StorageDelete,
      DeleteUncache, DeleteUntrie, CopyCheckDest, CopyBroken, CopyIndex, StorageCopy, Answer, GiveUp,
      Return, Leave
  <2> QED BY <2>1
<1> QED BY <1>4, <1>5, <1>6 DEF Handle

\* Whatever a handler finds counts as used from then on, where it was found in
\* the cache (naming_utils.c:38-43) and where in the trie (naming_utils.c:166,
\* 214), as long as no path may be in the cache twice.
THEOREM Refreshes == Spec => LookupsRefresh
<1> DEFINE Refresh ==
      raced = {} => \A t \in Thread :
        /\ Finds(t, "find") => Lru!Use(cmd[t].path)
        /\ \A from \in {"find_file", "find_dest"} : Finds(t, from) => Lru!Use(cmd[t].to)
<1>1. TypeInv /\ RaceInv /\ [Next]_vars => Refresh
  <2> SUFFICES ASSUME TypeInv, RaceInv, [Next]_vars, raced = {}, NEW t \in Thread,
                      NEW from \in {"find", "find_file", "find_dest"}, Finds(t, from)
               PROVE  Lru!Use(IF from = "find" THEN cmd[t].path ELSE cmd[t].to)
    OBVIOUS
  <2>1. \A p \in Path : LooksUp(t, p) => Lru!Use(p)
    BY DistinctIs
  <2>2. /\ from = "find" => Searching[from] = "search"
        /\ from = "find_file" => Searching[from] = "search_file"
        /\ from = "find_dest" => Searching[from] = "search_dest"
    BY DEF Searching
  <2>3. /\ pc[t] \in {from, Searching[from]} /\ pc'[t] \notin {from, Searching[from]}
        /\ from = "find_file" => sent'.kind = "exists"
        /\ from # "find_file" => ptr'[t] # NullPtr
    BY DEF Finds
  <2>4. pc'[t] # pc[t] /\ pc[t] # "idle"
    BY <2>2, <2>3
  <2>5. CASE Handle(t)
    <3>1. CASE Find(t)
      <4>1. from = "find" /\ LooksUp(t, cmd[t].path)
        BY <2>2, <2>3, <3>1, FindDoes
      <4> QED BY <2>1, <4>1 DEF LooksUp
    <3>2. CASE CreateFind(t)
      <4>1. from = "find_file" /\ LooksUp(t, cmd[t].to)
        BY <2>2, <2>3, <3>2, CreateFindDoes
      <4> QED BY <2>1, <4>1 DEF LooksUp
    <3>3. CASE CopyFindDest(t)
      <4>1. from = "find_dest" /\ LooksUp(t, cmd[t].to)
        BY <2>2, <2>3, <3>3, CopyFindDoes
      <4> QED BY <2>1, <4>1 DEF LooksUp
    <3> QED BY <2>2, <2>3, <2>5, <3>1, <3>2, <3>3, LookupGoes
  <2>6. ASSUME NEW u \in Thread, Handle(u) PROVE u = t
    BY <2>4, <2>6, HandleMoves DEF Moves
  <2>7. ASSUME NEW u \in Thread, NEW c \in Command, Accept(u, c) PROVE FALSE
    BY <2>4, <2>7, AcceptMoves
  <2>8. CASE UNCHANGED pc
    BY <2>4, <2>8
  <2> QED BY <2>5, <2>6, <2>7, <2>8, NextIs, OthersDo
<1> QED BY <1>1, RaceHolds, PTL DEF Spec, LookupsRefresh

-----------------------------------------------------------------------------
(* What a pointer leads to, and what is found there.                       *)

AtHome(p, info) == info.server \in Server /\ p \in Home(info.server)

\* The file_info of a path says the path, and a server that is its home, unless a
\* COPY put it there or a CREATE recorded it through a pointer that had moved.
Right(p, info) == /\ p \notin copied => info.path = p
                  /\ p \notin astray => AtHome(p, info)

TrieSays  == \A p \in Path : trie[p] \in Info => Right(p, trie[p])
SlotsSay  == \A i \in Slot : slots[i] \in Entry => Right(slots[i].path, slots[i].info)

\* Where the pointer of a handler leads to what was looked up first, if nothing
\* got in its way.
Using == {"find_file", "search_file", "found", "check", "send", "request", "record", "created",
          "uncache", "find_dest", "search_dest"}

Leads(t) ==
  pc[t] \in Using /\ t \notin disturbed =>
    \/ ptr[t] = NullPtr \/ ptr[t] = NodePtr(cmd[t].path)
    \/ ptr[t] = SlotPtr /\ slots[1].path = cmd[t].path

\* When the entry has been taken out of the cache.
Led(t) ==
  pc[t] = "untrie" /\ t \notin disturbed =>
    /\ ptr[t] \in {NullPtr, SlotPtr, NodePtr(cmd[t].path)}
    /\ ptr[t] = NodePtr(cmd[t].path) /\ cmd[t].path \notin copied \cup raced => ~Hit(cmd[t].path)

FoundSays(t) ==
  pc[t] = "check" /\ cmd[t].op = "READ" /\ t \notin disturbed /\ cmd[t].path \notin copied
    => found[t].path = cmd[t].path

\* A file that is to be created is not in the trie.
ToBeMade(t) ==
  pc[t] \in {"check", "request", "record"} /\ cmd[t].op = "CREATE" /\ t \notin disturbed
    => trie[cmd[t].to] \notin Info

Holding(t) == Leads(t) /\ Led(t) /\ FoundSays(t) /\ ToBeMade(t)

HomeInv == copied \subseteq astray /\ TrieSays /\ SlotsSay /\ \A t \in Thread : Holding(t)

\* What is remembered stays remembered.
LEMMA Remembers ==
  ASSUME Histories
  PROVE  /\ copied \subseteq copied' /\ astray \subseteq astray'
         /\ copied \subseteq astray => copied' \subseteq astray'
         /\ \A t \in Thread : t \notin disturbed' /\ pc'[t] # "idle" => t \notin disturbed /\ ~Disturbed(t)
BY DEF Histories

LEMMA RightStays ==
  ASSUME copied \subseteq copied', astray \subseteq astray', NEW p, NEW info, Right(p, info)
  PROVE  /\ p \notin copied' => info.path = p
         /\ p \notin astray' => AtHome(p, info)
BY DEF Right

LEMMA RightNext ==
  ASSUME NEW p, NEW info,
         p \notin copied' => info.path = p, p \notin astray' => AtHome(p, info)
  PROVE  Right(p, info)'
BY DEF Right, AtHome, Home

LEMMA PointersDiffer ==
  ASSUME NEW p
  PROVE  /\ NullPtr # SlotPtr /\ NodePtr(p) # NullPtr /\ NodePtr(p) # SlotPtr
         /\ NullPtr.at = "null" /\ SlotPtr.at = "slot" /\ NodePtr(p).at = "node" /\ NodePtr(p).path = p
BY DEF NullPtr, SlotPtr, NodePtr, Pointer

\* A pointer to a node leads to its file_info.
LEMMA NodeReads ==
  ASSUME TypeInv, NEW t \in Thread, NEW p, ptr[t] = NodePtr(p)
  PROVE  p \in Path /\ trie[p] \in Info /\ Read(ptr[t]) = {trie[p]}
<1>1. PointerOK(ptr[t])
  BY DEF TypeInv, StateOK
<1>2. PICK q \in Path : ptr[t] = NodePtr(q) /\ trie[q] \in Info
  <2>1. ptr[t].at = "node"
    BY PointersDiffer
  <2>2. /\ NullPtr.at = "null" /\ SlotPtr.at = "slot"
        /\ \A x : FreedPtr(x).at = "freed" /\ KeptPtr(x).at = "kept"
    BY DEF NullPtr, SlotPtr, FreedPtr, KeptPtr, Pointer
  <2> QED BY <1>1, <2>1, <2>2 DEF PointerOK
<1>3. q = p
  <2>1. NodePtr(q).path = q /\ NodePtr(p).path = p
    BY PointersDiffer
  <2> QED BY <1>2, <2>1
<1>4. Read(ptr[t]) = {trie[p]}
  BY PointersDiffer DEF Read
<1> QED BY <1>2, <1>3, <1>4

LEMMA SlotReads ==
  ASSUME TypeInv, NEW t \in Thread, ptr[t] = SlotPtr
  PROVE  1 \in Slot /\ slots[1] \in Entry /\ Read(ptr[t]) = {slots[1].info}
<1>1. PointerOK(ptr[t]) /\ ptr[t].at = "slot"
  BY PointersDiffer DEF TypeInv, StateOK
<1>2. /\ NullPtr.at = "null" /\ \A x : NodePtr(x).at = "node"
      /\ \A x : FreedPtr(x).at = "freed" /\ KeptPtr(x).at = "kept"
  BY DEF NullPtr, NodePtr, FreedPtr, KeptPtr, Pointer
<1>3. slots[1] \in Entry
  BY <1>1, <1>2 DEF PointerOK
<1>4. 1 \in Slot
  BY IndexAssumption DEF Slot
<1>5. Read(ptr[t]) = {slots[1].info}
  BY <1>1 DEF Read
<1> QED BY <1>3, <1>4, <1>5

LEMMA ReadsRight ==
  ASSUME TypeInv, TrieSays, SlotsSay, NEW t \in Thread, Leads(t), pc[t] \in Using, t \notin disturbed,
         NEW x \in Read(ptr[t])
  PROVE  ptr[t] # NullPtr /\ Right(cmd[t].path, x)
<1>1. CASE ptr[t] = NullPtr
  BY <1>1 DEF Read, NullPtr, Pointer
<1>2. CASE ptr[t] = NodePtr(cmd[t].path)
  BY <1>2, NodeReads, PointersDiffer DEF TrieSays
<1>3. CASE ptr[t] = SlotPtr /\ slots[1].path = cmd[t].path
  BY <1>3, SlotReads, PointersDiffer DEF SlotsSay
<1> QED BY <1>1, <1>2, <1>3 DEF Leads

\* What is found is in front of the cache, or in the trie.
LEMMA FindLeads ==
  ASSUME TypeInv, NEW t \in Thread, Find(t)
  PROVE  \/ ptr'[t] = NullPtr \/ ptr'[t] = NodePtr(cmd[t].path)
         \/ ptr'[t] = SlotPtr /\ slots'[1].path = cmd[t].path
<1>1. PICK result \in Pointers(cmd[t].path) :
        LookedUp(t, "find", cmd[t].path, result) /\ ptr' = [ptr EXCEPT ![t] = result]
  BY DEF Find
<1>2. ptr'[t] = result
  BY <1>1 DEF TypeInv, StateOK
<1>3. CASE find_cached(cmd[t].path, result)
  <2>1. result = SlotPtr /\ Hit(cmd[t].path) /\ find_in_cache(cmd[t].path) /\ UNCHANGED trie /\ IndexOK
    BY <1>3 DEF find_cached, TypeInv, StateOK
  <2>2. slots'[1].path = cmd[t].path
    BY <2>1, FindType
  <2> QED BY <1>2, <2>1, <2>2
<1>4. CASE find_in_trie(cmd[t].path, result)
  BY <1>2, <1>4 DEF find_in_trie
<1> QED BY <1>1, <1>3, <1>4 DEF LookedUp

\* The steps of the others leave a thread what it holds, or have got in its way.
LEMMA HoldingKept ==
  ASSUME NEW t \in Thread, Holding(t), Histories, pc'[t] = pc[t], cmd'[t] = cmd[t], found'[t] = found[t]
  PROVE  Holding(t)'
<1>1. CASE pc'[t] = "idle" \/ t \in disturbed'
  <2>1. "idle" \notin Using
    BY DEF Using
  <2>2. pc'[t] \in Using /\ t \notin disturbed' => FALSE
    BY <1>1, <2>1
  <2> QED BY <1>1, <2>2 DEF Holding, Leads, Led, FoundSays, ToBeMade, Using
<1>2. CASE pc'[t] # "idle" /\ t \notin disturbed'
  <2>1. t \notin disturbed /\ ~Disturbed(t) /\ copied \subseteq copied'
    BY <1>2, Remembers
  <2>2. /\ ptr'[t] = ptr[t]
        /\ ptr[t] = SlotPtr => slots'[1] = slots[1]
        /\ pc[t] = "untrie" => ~Hit(cmd[t].path)'
        /\ cmd[t].op = "CREATE" /\ pc[t] \in {"check", "request", "record"} => trie'[cmd[t].to] = trie[cmd[t].to]
    BY <2>1 DEF Disturbed
  <2>3. NullPtr' = NullPtr /\ SlotPtr' = SlotPtr /\ NodePtr(cmd[t].path)' = NodePtr(cmd[t].path) /\ Using' = Using
    BY DEF NullPtr, SlotPtr, NodePtr, Pointer, Using
  <2>4. Leads(t)'
    BY <2>1, <2>2, <2>3 DEF Holding, Leads
  <2>5. Led(t)'
    BY <2>1, <2>2, <2>3 DEF Holding, Led
  <2>6. FoundSays(t)'
    BY <2>1 DEF Holding, FoundSays
  <2>7. ToBeMade(t)'
    BY <2>1, <2>2 DEF Holding, ToBeMade
  <2> QED BY <2>4, <2>5, <2>6, <2>7 DEF Holding
<1> QED BY <1>1, <1>2

\* A thread keeps hold of what it has found.
LEMMA HoldingStays ==
  ASSUME TypeInv, RaceInv, TrieSays, SlotsSay, NEW t \in Thread, Holding(t), Handle(t), Histories
  PROVE  Holding(t)'
<1>1. StateOK /\ CmdOK(t) /\ t \in DOMAIN ptr /\ Leads(t)
  BY DEF TypeInv, StateOK, Holding
<1>2. ASSUME NEW from, NEW to, Step(t, from, to) PROVE pc[t] = from /\ pc'[t] = to
  BY <1>1, <1>2 DEF Step, StateOK
<1>3. copied \subseteq copied' /\ (t \notin disturbed' /\ pc'[t] # "idle" => t \notin disturbed)
  BY Remembers
<1>4. NullPtr' = NullPtr /\ SlotPtr' = SlotPtr /\ (\A p : NodePtr(p)' = NodePtr(p)) /\ Using' = Using
  BY DEF NullPtr, SlotPtr, NodePtr, Pointer, Using
\* It returns, or goes where it holds nothing yet, or something else.
<1>5. ASSUME pc'[t] \notin Using, pc'[t] # "untrie" PROVE Holding(t)'
  <2>1. pc'[t] \notin {"check", "request", "record"}
    BY <1>5 DEF Using
  <2> QED BY <1>4, <1>5, <2>1 DEF Holding, Leads, Led, FoundSays, ToBeMade
<1>6. ASSUME NEW from, NEW kind, NEW info,
             Leave(t, from) \/ Return(t, from) \/ Answer(t, from, kind, info) \/ GiveUp(t, from)
      PROVE  Holding(t)'
  <2>1. pc'[t] = "idle"
    BY <1>2, <1>6 DEF Answer, GiveUp, Return, Leave
  <2> QED BY <1>5, <2>1 DEF Using
\* It goes on with what it holds.
<1>7. ASSUME NEW from, NEW to, Step(t, from, to), UNCHANGED <<index, cmd, ptr>>, from \in Using,
             to \notin {"untrie", "check"},
             to \in {"request", "record"} => from \in {"check", "request"}
      PROVE  Holding(t)'
  <2>1. pc[t] = from /\ pc'[t] = to
    BY <1>2, <1>7
  <2>2. Leads(t)'
    BY <1>1, <1>3, <1>4, <1>7, <2>1 DEF Leads, index, Using
  <2>3. Led(t)' /\ FoundSays(t)'
    BY <1>7, <2>1 DEF Led, FoundSays
  <2>4. ToBeMade(t)'
    BY <1>3, <1>7, <2>1 DEF Holding, ToBeMade, index
  <2> QED BY <2>2, <2>3, <2>4 DEF Holding
<1>8. CASE \/ Undotted(t) \/ Missing(t) \/ Send(t) \/ Unreachable(t) \/ CreateAnswer(t) \/ StorageCopy(t)
           \/ CopyBroken(t) \/ DeleteUntrie(t)
  BY <1>6, <1>8 DEF Undotted, Missing, Send, Unreachable, CreateAnswer, StorageCopy, CopyBroken, DeleteUntrie
<1>9. CASE Miss(t)
  <2>1. PICK from \in DOMAIN Searching : Step(t, from, Searching[from]) /\ UNCHANGED <<index, cmd, ptr>>
    BY <1>9 DEF Miss, locals
  <2>2. /\ from \in {"find", "find_file", "find_dest"}
        /\ \/ Searching[from] \in {"search_file", "search_dest"} /\ from \in Using
           \/ Searching[from] = "search"
    BY DEF Searching, Using
  <2>3. CASE Searching[from] = "search"
    BY <1>2, <1>5, <2>1, <2>3 DEF Using
  <2> QED BY <1>7, <2>1, <2>2, <2>3
<1>10. CASE Find(t)
  <2>1. pc'[t] \in {"find_file", "found"} /\ UNCHANGED cmd
    BY <1>10, FindDoes
  <2>2. Leads(t)'
    BY <1>4, <1>10, <2>1, FindLeads DEF Leads
  <2> QED BY <2>1, <2>2 DEF Holding, Led, FoundSays, ToBeMade
<1>11. CASE CreateFind(t)
  <2>1. CASE pc'[t] = "idle"
    BY <1>5, <2>1 DEF Using
  <2>2. CASE pc'[t] # "idle"
    <3>1. /\ pc[t] = "search_file" /\ pc'[t] = "check" /\ UNCHANGED <<slots, count, trie, cmd, ptr>>
          /\ trie[cmd[t].to] \notin Info
      BY <1>11, <2>2, CreateFindDoes
    <3>2. cmd[t].op = "CREATE"
      BY <1>1, <3>1 DEF CmdOK
    <3>3. Leads(t)'
      BY <1>1, <1>3, <1>4, <3>1 DEF Leads, Using
    <3> QED BY <3>1, <3>2, <3>3 DEF Holding, Led, FoundSays, ToBeMade
  <2> QED BY <2>1, <2>2
<1>12. CASE Present(t)
  <2>1. PICK x \in Read(ptr[t]) :
          found' = [found EXCEPT ![t] =
                      IF cmd[t].op = "READ" \/ (cmd[t].op = "COPY" /\ cmd[t].path \in Dir)
                      THEN x ELSE @]
    BY <1>12 DEF Present
  <2>2. pc[t] = "found" /\ pc'[t] = "check" /\ UNCHANGED <<index, cmd, ptr>>
    BY <1>2, <1>12 DEF Present
  <2>3. cmd[t].op # "CREATE"
    BY <1>1, <2>2 DEF CmdOK
  <2>4. Leads(t)'
    BY <1>1, <1>3, <1>4, <2>2 DEF Leads, index, Using
  <2>5. FoundSays(t)'
    <3>1. cmd[t].op = "READ" => found'[t] = x
      BY <1>1, <2>1 DEF StateOK
    <3>2. t \notin disturbed => Right(cmd[t].path, x)
      BY <1>1, <2>2, ReadsRight DEF Using
    <3> QED BY <1>3, <2>2, <3>1, <3>2 DEF FoundSays, Right
  <2> QED BY <2>2, <2>3, <2>4, <2>5 DEF Holding, Led, ToBeMade
<1>13. CASE Check(t)
  <2>1. ASSUME NEW to \in {"send", "request", "find_dest"}, Step(t, "check", to), UNCHANGED <<index, cmd, ptr>>
        PROVE  Holding(t)'
    BY <1>7, <2>1 DEF Using
  <2> QED BY <1>6, <1>13, <2>1 DEF Check, ReadCheck, InfoCheck, WriteCheck, RequestCheck, CopyCheck, locals
<1>14. CASE StorageCreate(t) \/ StorageDelete(t)
  <2>1. ASSUME NEW to \in {"record", "uncache"}, Step(t, "request", to), UNCHANGED <<index, cmd, ptr>>
        PROVE  Holding(t)'
    BY <1>7, <2>1 DEF Using
  <2> QED BY <1>14, <2>1 DEF StorageCreate, StorageDelete
<1>15. CASE CreateRecord(t)
  <2>1. pc[t] = "record" /\ pc'[t] = "created" /\ UNCHANGED <<slots, count, cmd, ptr>>
    BY <1>2, <1>15 DEF CreateRecord, locals
  <2>2. Leads(t)'
    BY <1>1, <1>3, <1>4, <2>1 DEF Leads, Using
  <2> QED BY <2>1, <2>2 DEF Holding, Led, FoundSays, ToBeMade
<1>16. CASE DeleteUncache(t)
  <2>1. pc[t] = "uncache" /\ pc'[t] = "untrie" /\ UNCHANGED <<trie, cmd, ptr>> /\ cmd[t].path \in Path
    BY <1>1, <1>2, <1>16, CommandSays DEF DeleteUncache, locals, CmdOK
  <2>2. PICK x \in Read(ptr[t]) : remove_from_cache(x.path)
    BY <1>16 DEF DeleteUncache
  <2>3. t \notin disturbed' => t \notin disturbed
    BY <1>3, <2>1
  <2>4. t \notin disturbed => ptr[t] \in {NullPtr, SlotPtr, NodePtr(cmd[t].path)}
    BY <1>1, <2>1 DEF Leads, Using
  <2>5. ASSUME t \notin disturbed, ptr[t] = NodePtr(cmd[t].path), cmd[t].path \notin copied \cup raced'
        PROVE  ~Hit(cmd[t].path)'
    <3>1. x = trie[cmd[t].path] /\ trie[cmd[t].path] \in Info
      BY <2>2, <2>5, NodeReads
    <3>2. x.path = cmd[t].path
      BY <2>1, <2>5, <3>1 DEF TrieSays, Right
    <3>3. CASE cmd[t].path \in raced
      <4>1. \A p \in Path : p \notin raced' => ~(p \in raced /\ Hit(p)')
        BY DEF Histories
      <4>2. ~Hit(cmd[t].path)' <=> \A i \in 1..count' : slots'[i].path # cmd[t].path
        BY <2>1 DEF Hit
      <4>3. \A p : ~Hit(p)' <=> \A i \in 1..count' : slots'[i].path # p
        BY DEF Hit
      <4> QED BY <2>1, <2>5, <3>3, <4>1, <4>2, <4>3
    <3>4. CASE cmd[t].path \notin raced
      <4> DEFINE p == cmd[t].path
      <4>1. IndexOK /\ p \in Path /\ Once(p) /\ remove_from_cache(p)
        BY <1>1, <2>1, <2>2, <3>2, <3>4 DEF StateOK, RaceInv
      <4> HIDE DEF p
      <4>2. \A i \in 1..count' : slots'[i].path # p
        BY <4>1, OnceGone DEF Hit
      <4> QED BY <2>1, <4>2 DEF p, Hit
    <3> QED BY <3>3, <3>4
  <2>6. Led(t)'
    BY <1>3, <1>4, <2>1, <2>3, <2>4, <2>5 DEF Led
  <2>7. pc'[t] \notin Using
    BY <2>1 DEF Using
  <2> QED BY <1>4, <2>1, <2>6, <2>7 DEF Holding, Leads, FoundSays, ToBeMade
<1>17. CASE CopyStat(t)
  <2>1. CASE Step(t, "stat", "find")
    BY <1>2, <1>5, <2>1 DEF Using
  <2> QED BY <1>6, <1>17, <2>1 DEF CopyStat
<1>18. CASE CopyFindDest(t) \/ CopyCheckDest(t) \/ CopyIndex(t)
  <2>1. CASE pc'[t] \in {"idle", "check_dest", "copy_wait", "copy_index", "copy_request"}
    BY <1>5, <2>1 DEF Using
  <2> QED BY <1>2, <1>6, <1>18, <2>1, CopyFindDoes DEF CopyCheckDest, CopyIndex
<1> QED BY <1>8, <1>9, <1>10, <1>11, <1>12, <1>13, <1>14, <1>15, <1>16, <1>17, <1>18 DEF Handle

\* The array keeps saying it where the trie does.
LEMMA SlotsStay ==
  ASSUME IndexOK, TrieSays, SlotsSay, copied \subseteq copied', astray \subseteq astray',
         UNCHANGED <<slots, count>> \/ \E p \in Path : Found(p) \/ Added(p) \/ Removed(p)
  PROVE  SlotsSay'
<1> SUFFICES ASSUME NEW i \in Slot, slots'[i] \in Entry
             PROVE  /\ slots'[i].path \notin copied' => slots'[i].info.path = slots'[i].path
                    /\ slots'[i].path \notin astray' => AtHome(slots'[i].path, slots'[i].info)
  <2>1. \A i \in Slot : slots'[i] \in Entry => Right(slots[i].path, slots[i].info)'
    BY RightNext
  <2> QED BY <2>1 DEF SlotsSay, Slot, Entry, Info
<1>1. CASE \E k \in Slot : slots'[i] = slots[k]
  BY <1>1, RightStays DEF SlotsSay
<1>2. ASSUME NEW p \in Path, trie[p] \in Info, slots'[i] = [path |-> p, info |-> trie[p]]
      PROVE  /\ slots'[i].path \notin copied' => slots'[i].info.path = slots'[i].path
             /\ slots'[i].path \notin astray' => AtHome(slots'[i].path, slots'[i].info)
  <2>1. Right(p, trie[p]) /\ slots'[i].path = p /\ slots'[i].info = trie[p]
    BY <1>2 DEF TrieSays
  <2> QED BY <2>1, RightStays
<1> QED BY <1>1, <1>2, PlacesFrom DEF Added

\* And so does the trie, where what changes says it.
LEMMA TrieStays ==
  ASSUME TrieSays, copied \subseteq copied', astray \subseteq astray',
         \A p \in Path : trie'[p] \in Info =>
           \/ trie'[p] = trie[p]
           \/ /\ p \notin copied' => trie'[p].path = p
              /\ p \notin astray' => AtHome(p, trie'[p])
  PROVE  TrieSays'
<1>1. ASSUME NEW p \in Path, trie'[p] \in Info
      PROVE  /\ p \notin copied' => trie'[p].path = p
             /\ p \notin astray' => AtHome(p, trie'[p])
  <2>1. CASE trie'[p] = trie[p]
    BY <1>1, <2>1, RightStays DEF TrieSays
  <2> QED BY <1>1, <2>1
<1>2. \A p \in Path : trie'[p] \in Info => Right(p, trie[p])'
  BY <1>1, RightNext
<1> QED BY <1>2 DEF TrieSays, Info

\* The file_info of a path is filled in: what else changes is no file_info.
LEMMA UpdatedSays ==
  ASSUME IndexOK, NEW S \in SUBSET Path, NEW s, update_file_info(S, s), NEW q \in Path
  PROVE  /\ q \in S => trie'[q] = [server |-> s, path |-> q]
         /\ q \notin S => trie'[q] = trie[q] \/ (trie[q] = NoNode /\ trie'[q] = NoInfo)
BY DEF update_file_info, Updated

\* A server is the home of what it lists, and of what is created there.
LEMMA HomeIs ==
  /\ \A s \in Server : Listing[s] \subseteq Path /\ Listing[s] \subseteq Home(s)
  /\ \A s \in Server, p \in Path : p \in Home(s) => Inside[p] \subseteq Home(s)
BY ServerAssumption DEF Home

LEMMA AgreesStays ==
  ASSUME TypeInv, RaceInv, HomeInv, NEW t \in Thread, Handle(t), Histories
  PROVE  TrieSays' /\ SlotsSay'
<1>1. /\ IndexOK /\ CmdOK(t) /\ Leads(t) /\ TrieSays /\ SlotsSay
      /\ pc \in [Thread -> Location] /\ NoInfo \notin Info /\ NoNode \notin Info
  BY IndexAssumption DEF TypeInv, StateOK, HomeInv, Holding
<1>2. copied \subseteq copied' /\ astray \subseteq astray'
  BY Remembers
<1>3. ASSUME UNCHANGED trie PROVE TrieSays'
  BY <1>1, <1>2, <1>3, TrieStays
<1>4. ASSUME UNCHANGED <<slots, count>> PROVE SlotsSay'
  BY <1>1, <1>2, <1>4, SlotsStay
<1>5. CASE CreateRecord(t) /\ UNCHANGED <<slots, count>>
  <2>1. pc[t] = "record" /\ pc'[t] # pc[t] /\ cmd[t].op = "CREATE"
    BY <1>1, <1>5 DEF CreateRecord, Step, CmdOK
  <2>2. cmd[t].path \in Path /\ cmd[t].to \in Inside[cmd[t].path] /\ cmd[t].to \in Path
    BY <1>1, <2>1, CommandSays, ServerAssumption DEF CmdOK
  <2>3. ASSUME NEW x \in Read(ptr[t]), update_file_info({cmd[t].to}, x.server), trie' # trie PROVE TrieSays'
    <3>1. cmd[t].to \notin astray' => t \notin disturbed /\ cmd[t].path \notin astray
      <4>1. t \in disturbed \/ cmd[t].path \in astray => cmd[t].to \in Misplaced(t)
        BY <2>1, <2>3 DEF Misplaced
      <4>2. Misplaced(t) \subseteq astray'
        BY DEF Histories
      <4> QED BY <4>1, <4>2
    <3>2. cmd[t].to \notin astray' => AtHome(cmd[t].to, x)
      <4>1. cmd[t].to \notin astray' => Right(cmd[t].path, x) /\ cmd[t].path \notin astray
        BY <1>1, <2>1, <2>3, <3>1, ReadsRight DEF Using
      <4> QED BY <2>2, <4>1, HomeIs DEF Right, AtHome
    <3>3. ASSUME NEW q \in Path, trie'[q] \in Info
          PROVE  \/ trie'[q] = trie[q]
                 \/ /\ q \notin copied' => trie'[q].path = q
                    /\ q \notin astray' => AtHome(q, trie'[q])
      <4>1. CASE q = cmd[t].to
        <5>1. trie'[q] = [server |-> x.server, path |-> q]
          BY <1>1, <2>2, <2>3, <4>1, UpdatedSays
        <5> QED BY <3>2, <4>1, <5>1 DEF AtHome
      <4>2. CASE q # cmd[t].to
        <5>1. {cmd[t].to} \in SUBSET Path /\ q \notin {cmd[t].to} /\ IndexOK
          BY <1>1, <2>2, <4>2
        <5>2. update_file_info({cmd[t].to}, x.server)
          BY <2>3
        <5>3. trie'[q] = trie[q] \/ trie'[q] = NoInfo
          BY <5>1, <5>2, UpdatedSays
        <5> QED BY <1>1, <3>3, <5>3
      <4> QED BY <4>1, <4>2
    <3> QED BY <1>1, <1>2, <3>3, TrieStays
  <2> QED BY <1>3, <1>4, <1>5, <2>3 DEF CreateRecord
<1>6. CASE DeleteUntrie(t) /\ UNCHANGED <<slots, count>>
  <2>1. \E x : delete_file_info(x.path)
    BY <1>6 DEF DeleteUntrie
  <2>2. \A p \in Path : trie'[p] = trie[p] \/ trie'[p] = NoInfo
    BY <2>1 DEF delete_file_info
  <2>3. TrieSays'
    BY <1>1, <1>2, <2>2, TrieStays
  <2> QED BY <1>4, <1>6, <2>3
<1>7. CASE CopyIndex(t) /\ UNCHANGED <<slots, count>>
  <2>1. pc[t] = "copy_index" /\ pc'[t] # pc[t]
    BY <1>1, <1>7 DEF CopyIndex, Step
  <2>2. CASE copy_directory_trie(cmd[t].path, cmd[t].to) /\ trie' # trie
    <3>1. {q \in Path : Begins(q, cmd[t].to)} \subseteq copied' \cap astray'
      <4>1. Replaced(t) = {q \in Path : Begins(q, cmd[t].to)}
        BY <2>1, <2>2 DEF Replaced
      <4>2. Replaced(t) \subseteq copied' /\ Replaced(t) \subseteq astray'
        BY DEF Histories
      <4> QED BY <4>1, <4>2
    <3>2. \A q \in Path : Begins(q, cmd[t].to) \/ trie'[q] = trie[q] \/ trie'[q] = NoInfo
      BY <2>2 DEF copy_directory_trie
    <3>3. TrieSays'
      BY <1>1, <1>2, <3>1, <3>2, TrieStays
    <3> QED BY <1>4, <1>7, <3>3
  <2> QED BY <1>3, <1>4, <1>7, <2>2 DEF CopyIndex
<1>8. ASSUME NEW p \in Path, Found(p) \/ Added(p) \/ Removed(p) PROVE TrieSays' /\ SlotsSay'
  <2>1. UNCHANGED trie
    BY <1>8 DEF Found, Added, Removed
  <2> QED BY <1>1, <1>2, <1>3, <1>8, <2>1, SlotsStay
<1> QED BY <1>3, <1>4, <1>5, <1>6, <1>7, <1>8, CacheSteps DEF LooksUp

LEMMA HomeHolds == Spec => [](TypeInv /\ RaceInv /\ HomeInv)
<1>1. Init => HomeInv
  <2> SUFFICES ASSUME Init PROVE HomeInv
    OBVIOUS
  <2>1. \A p \in Path : trie[p] \notin Info
    BY IndexAssumption DEF Init, IndexInit
  <2>2. \A i \in Slot : slots[i] \notin Entry
    BY IndexAssumption DEF Init, IndexInit, Blank, Entry
  <2>3. \A t \in Thread : Holding(t)
    BY DEF Init, Holding, Leads, Led, FoundSays, ToBeMade, Using
  <2> QED BY <2>1, <2>2, <2>3 DEF Init, HomeInv, TrieSays, SlotsSay
<1>2. TypeInv /\ RaceInv /\ HomeInv /\ [Next]_vars => HomeInv'
  <2> SUFFICES ASSUME TypeInv, RaceInv, HomeInv, [Next]_vars PROVE HomeInv'
    OBVIOUS
  <2>1. /\ IndexOK /\ TrieSays /\ SlotsSay /\ copied \subseteq astray /\ (\A t \in Thread : Holding(t))
        /\ NoInfo \notin Info
    BY IndexAssumption DEF TypeInv, StateOK, HomeInv
  <2>2. ASSUME NEW t \in Thread, Handle(t), Histories PROVE HomeInv'
    <3>1. ASSUME NEW u \in Thread PROVE Holding(u)'
      <4>1. CASE u = t
        BY <2>1, <2>2, <4>1, HoldingStays
      <4>2. CASE u # t
        <5>1. pc'[u] = pc[u] /\ cmd'[u] = cmd[u] /\ found'[u] = found[u]
          BY <2>2, <4>2, HandleMoves DEF Moves
        <5> QED BY <2>1, <2>2, <5>1, HoldingKept
      <4> QED BY <4>1, <4>2
    <3>2. TrieSays' /\ SlotsSay'
      BY <2>2, AgreesStays
    <3>3. copied' \subseteq astray'
      BY <2>1, <2>2, Remembers
    <3> QED BY <3>1, <3>2, <3>3 DEF HomeInv
  <2>3. ASSUME Histories, UNCHANGED <<slots, count, trie>> PROVE TrieSays' /\ SlotsSay' /\ copied' \subseteq astray'
    <3>1. copied \subseteq copied' /\ astray \subseteq astray' /\ copied' \subseteq astray'
      BY <2>1, <2>3, Remembers
    <3> QED BY <2>1, <2>3, <3>1, TrieStays, SlotsStay
  <2>4. ASSUME NEW s \in Server, Register(s) \/ Disconnect(s) \/ Reconnect(s), Histories PROVE HomeInv'
    <3>1. UNCHANGED <<pc, cmd, found, slots, count>>
      BY <2>4 DEF Register, Disconnect, Reconnect, index, locals
    <3>2. \A u \in Thread : Holding(u)'
      BY <2>1, <2>4, <3>1, HoldingKept
    <3>3. CASE UNCHANGED trie
      BY <2>3, <2>4, <3>1, <3>2, <3>3 DEF HomeInv
    <3>4. CASE Register(s)
      <4>1. update_file_info(Listing[s], s) /\ Listing[s] \subseteq Path
        BY <3>4, HomeIs DEF Register
      <4>2. ASSUME NEW q \in Path, trie'[q] \in Info, q \in Listing[s]
            PROVE  trie'[q].path = q /\ AtHome(q, trie'[q])
        <5>1. trie'[q] = [server |-> s, path |-> q]
          BY <2>1, <4>1, <4>2, UpdatedSays
        <5> QED BY <4>2, <5>1, HomeIs DEF AtHome
      <4>3. ASSUME NEW q \in Path, trie'[q] \in Info, q \notin Listing[s] PROVE trie'[q] = trie[q]
        BY <2>1, <4>1, <4>3, UpdatedSays
      <4>4. copied \subseteq copied' /\ astray \subseteq astray' /\ copied' \subseteq astray'
        BY <2>1, <2>4, Remembers
      <4>5. TrieSays'
        BY <2>1, <4>2, <4>3, <4>4, TrieStays
      <4>6. SlotsSay'
        BY <2>1, <3>1, <4>4, SlotsStay
      <4> QED BY <3>2, <4>4, <4>5, <4>6 DEF HomeInv
    <3> QED BY <2>4, <3>3, <3>4 DEF Disconnect, Reconnect, index
  <2>5. ASSUME NEW t \in Thread, NEW c \in Command, Accept(t, c), Histories PROVE HomeInv'
    <3>1. UNCHANGED <<slots, count, trie, found>> /\ pc'[t] \in {"stat", "find"}
      BY <2>5, AcceptMoves
    <3>2. ASSUME NEW u \in Thread \ {t} PROVE Holding(u)'
      <4>1. pc'[u] = pc[u] /\ cmd'[u] = cmd[u] /\ found'[u] = found[u]
        BY <2>5, <3>1, AcceptMoves
      <4> QED BY <2>1, <2>5, <4>1, HoldingKept
    <3>3. Holding(t)'
      <4>1. pc'[t] \notin Using /\ Using' = Using
        BY <3>1 DEF Using
      <4> QED BY <3>1, <4>1 DEF Holding, Leads, Led, FoundSays, ToBeMade
    <3> QED BY <2>3, <2>5, <3>1, <3>2, <3>3 DEF HomeInv
  <2>6. CASE UNCHANGED vars
    <3>1. UNCHANGED <<trie, slots, count, pc, cmd, ptr, found, disturbed, raced, copied, astray>>
      BY <2>6 DEF vars, index, locals, history
    <3>2. TrieSays' /\ SlotsSay'
      BY <2>1, <3>1, TrieStays, SlotsStay
    <3>3. NullPtr' = NullPtr /\ SlotPtr' = SlotPtr /\ (\A p : NodePtr(p)' = NodePtr(p)) /\ Using' = Using
      BY DEF NullPtr, SlotPtr, NodePtr, Pointer, Using
    <3>4. \A t \in Thread : Holding(t)'
      BY <2>1, <3>1, <3>3 DEF Holding, Leads, Led, FoundSays, ToBeMade, Hit
    <3> QED BY <2>1, <3>1, <3>2, <3>4 DEF HomeInv
  <2> QED BY <2>2, <2>4, <2>5, <2>6, NextIs
<1> QED BY <1>1, <1>2, RaceHolds, PTL DEF Spec

\* A path is indexed, and cached, for a server that registered it or the
\* directory it was created in, however many threads there are, unless a COPY
\* replaced it, or it was created by a handler whose pointer to the directory had
\* moved, or in a directory that was astray itself (naming_server.c:192,
\* naming_utils.c:122, 140).
THEOREM Owner == Spec => []OwnerIsHome
<1>1. TypeInv /\ HomeInv => OwnerIsHome
  <2> SUFFICES ASSUME TypeInv, HomeInv PROVE OwnerIsHome
    OBVIOUS
  <2>1. \A p \in Path \ astray : trie[p] \in Info => p \in Home(trie[p].server)
    BY DEF HomeInv, TrieSays, Right, AtHome
  <2>2. \A i \in 1..count : i \in Slot /\ slots[i] \in Entry
    BY IndexAssumption DEF TypeInv, StateOK, IndexOK, Slot
  <2>3. \A i \in 1..count : slots[i].path \in astray \/ slots[i].path \in Home(slots[i].info.server)
    BY <2>2 DEF HomeInv, SlotsSay, Right, AtHome
  <2> QED BY <2>1, <2>3 DEF OwnerIsHome
<1> QED BY HomeHolds, <1>1, PTL

\* A client that asks for a file is told where that file is, and no other, however
\* many clients there are, unless what its handler points to was replaced
\* meanwhile, or a COPY has put another's entry under the path
\* (naming_server.c:1036-1038, 372, 432, 992): the pointer a handler keeps leads
\* to what was looked up until it is used, although the entries of the cache move.
THEOREM Answers == Spec => AnswerNamesTheFile
<1>1. TypeInv /\ RaceInv /\ HomeInv /\ [Next]_vars
        => [\A t \in Thread \ disturbed :
              Answered(t, "found") /\ cmd[t].path \notin copied => sent'.info.path = cmd[t].path]_vars
  <2> SUFFICES ASSUME TypeInv, HomeInv, Next, NEW t \in Thread, t \notin disturbed,
                      Answered(t, "found"), cmd[t].path \notin copied
               PROVE  sent'.info.path = cmd[t].path
    OBVIOUS
  <2>1. ~Quiet /\ \A u \in Thread : \A kind, info : Say(u, kind, info) => kind = "found" /\ u = t /\ sent'.info = info
    <3>1. \A to, kind, info : /\ Message(to, kind, info).kind = kind /\ Message(to, kind, info).to = to
                              /\ Message(to, kind, info).info = info
      BY DEF Message
    <3>2. sent'.kind = "found" /\ sent'.to = {t}
      BY DEF Answered
    <3>3. ~Quiet
      BY <3>1, <3>2 DEF Quiet, Nothing
    <3>4. \A u \in Thread : \A kind, info : Say(u, kind, info) => kind = "found" /\ {u} = {t} /\ sent'.info = info
      BY <3>1, <3>2 DEF Say
    <3> QED BY <3>3, <3>4
  <2>2. ASSUME NEW u \in Thread, Handle(u) PROVE sent'.info.path = cmd[t].path
    <3>1. \A from, kind, info : Answer(u, from, kind, info) => kind = "found"
      BY <2>1 DEF Answer
    <3>12. \A from, kind, info : Answer(u, from, kind, info) => u = t /\ pc[u] = from /\ sent'.info = info
      BY <2>1 DEF Answer, Return, Leave, Step
    <3>2. \A from : ~GiveUp(u, from)
      BY <2>1 DEF GiveUp
    <3>3. outcome[u] # "found"
      BY DEF TypeInv, StateOK, Outcome
    <3>4. Leads(t) /\ FoundSays(t) /\ TrieSays /\ SlotsSay
      BY DEF HomeInv, Holding
    <3>5. CASE ReadCheck(u)
      <4>1. u = t /\ pc[t] = "check" /\ cmd[t].op = "READ" /\ sent'.info = found[t]
        BY <3>1, <3>12, <3>5 DEF ReadCheck
      <4> QED BY <3>4, <4>1 DEF FoundSays
    <3>6. CASE Send(u)
      <4>1. PICK x \in Read(ptr[u]) : u = t /\ pc[t] = "send" /\ sent'.info = x
        BY <3>12, <3>6 DEF Send
      <4>2. Right(cmd[t].path, x)
        BY <3>4, <4>1, ReadsRight DEF Using
      <4> QED BY <4>1, <4>2 DEF Right
    <3>7. CASE InfoCheck(u) \/ WriteCheck(u) \/ RequestCheck(u) \/ CopyCheck(u)
      BY <2>1, <3>1, <3>2, <3>7 DEF InfoCheck, WriteCheck, RequestCheck, CopyCheck
    <3>8. CASE CopyStat(u) \/ Undotted(u) \/ Miss(u) \/ Find(u) \/ Missing(u) \/ Present(u) \/ CreateFind(u)
      BY <2>1, <3>1, <3>2, <3>8 DEF CopyStat, Undotted, Miss, Find, Missing, Present, CreateFind
    <3>9. CASE Unreachable(u) \/ StorageCreate(u) \/ CreateRecord(u) \/ CreateAnswer(u) \/ StorageDelete(u)
      BY <2>1, <3>1, <3>2, <3>3, <3>9 DEF Unreachable, StorageCreate, CreateRecord, CreateAnswer, StorageDelete
    <3>10. CASE DeleteUncache(u) \/ DeleteUntrie(u) \/ CopyFindDest(u)
      BY <2>1, <3>3, <3>10 DEF DeleteUncache, DeleteUntrie, CopyFindDest
    <3>11. CASE CopyCheckDest(u) \/ CopyBroken(u) \/ CopyIndex(u) \/ StorageCopy(u)
      BY <2>1, <3>1, <3>2, <3>11 DEF CopyCheckDest, CopyBroken, CopyIndex, StorageCopy
    <3> QED BY <2>2, <3>5, <3>6, <3>7, <3>8, <3>9, <3>10, <3>11 DEF Handle, Check
  <2>3. CASE \/ \E s \in Server : Register(s) \/ Disconnect(s) \/ Reconnect(s)
             \/ \E u \in Thread, c \in Command : Accept(u, c)
    BY <2>1, <2>3 DEF Register, Disconnect, Reconnect, Accept
  <2> QED BY <2>2, <2>3 DEF Next, Serve
<1> QED BY <1>1, HomeHolds, PTL DEF Spec, AnswerNamesTheFile

-----------------------------------------------------------------------------
(* How far the cache and the trie agree.                                   *)

\* A file_info that is not touched does not part the two, nor one that is filled in
\* where there was none.
LEMMA Agreeing ==
  ASSUME IndexOK, UNCHANGED <<slots, count>>, NEW p, Coherent(p), trie'[p] = trie[p] \/ trie[p] \notin Info
  PROVE  Coherent(p)'
<1> SUFFICES ASSUME NEW i \in 1..count, slots[i].path = p PROVE slots[i].info = trie'[p]
  BY DEF Coherent
<1>1. slots[i] \in Entry /\ slots[i].info = trie[p]
  BY DEF IndexOK, Coherent
<1>2. slots[i].info \in Info
  BY <1>1 DEF Entry
<1> QED BY <1>1, <1>2

\* Nor does a step of the cache.
LEMMA CacheAgrees ==
  ASSUME IndexOK, NEW q \in Path, Found(q) \/ Added(q) \/ Removed(q), NEW p, Coherent(p)
  PROVE  Coherent(p)'
<1> SUFFICES ASSUME NEW i \in 1..count', slots'[i].path = p PROVE slots'[i].info = trie[p]
  BY DEF Coherent, Found, Added, Removed
<1>1. ASSUME NEW k \in 1..count, slots'[i] = slots[k] PROVE slots'[i].info = trie[p]
  BY <1>1 DEF Coherent
<1>2. CASE Added(q)
  <2>1. slots'[1] = [path |-> q, info |-> trie[q]]
    BY <1>2, EntriesJoin
  <2>2. CASE i = 1
    <3>1. slots'[i].path = q /\ slots'[i].info = trie[q]
      BY <2>1, <2>2
    <3> QED BY <3>1
  <2> QED BY <1>1, <1>2, <2>2, EntriesJoin
<1>3. CASE Found(q) \/ Removed(q)
  BY <1>1, <1>3, EntriesStay
<1> QED BY <1>2, <1>3

\* What takes a file_info out of the trie has taken the entry out of the cache, if it
\* knows what it points to.
LEMMA UntrieAgrees ==
  ASSUME TypeInv, HomeInv, NEW t \in Thread, DeleteUntrie(t), ~Unsure(t), UNCHANGED <<slots, count>>,
         NEW p \in Path \ raced, Coherent(p)
  PROVE  Coherent(p)'
<1>1. IndexOK /\ Led(t) /\ TrieSays /\ t \notin disturbed /\ ptr[t] # SlotPtr /\ cmd[t].path \notin copied
  BY DEF TypeInv, StateOK, HomeInv, Holding, Unsure
<1>2. pc[t] = "untrie"
  BY DEF DeleteUntrie, Leave, Step
<1>3. PICK x \in Read(ptr[t]) : delete_file_info(x.path)
  BY DEF DeleteUntrie
<1>4. ptr[t] = NodePtr(cmd[t].path)
  <2>1. Read(NullPtr) = {}
    BY DEF Read, NullPtr, Pointer
  <2> QED BY <1>1, <1>2, <1>3, <2>1 DEF Led
<1>5. x = trie[cmd[t].path] /\ cmd[t].path \in Path /\ trie[cmd[t].path] \in Info
  BY <1>3, <1>4, NodeReads
<1>6. x.path = cmd[t].path
  BY <1>1, <1>5 DEF TrieSays, Right
<1>7. CASE p = cmd[t].path
  <2>1. ~Hit(p)
    BY <1>1, <1>2, <1>4, <1>7 DEF Led
  <2> QED BY <2>1 DEF Hit, Coherent
<1>8. CASE p # cmd[t].path
  <2>1. trie'[p] = trie[p]
    BY <1>3, <1>6, <1>8 DEF delete_file_info
  <2> QED BY <1>1, <2>1, Agreeing
<1> QED BY <1>7, <1>8

\* What is recorded is in no cache, unless something got in the way.
LEMMA RecordAgrees ==
  ASSUME TypeInv, HomeInv, NEW t \in Thread, CreateRecord(t), NEW p \in Path, Coherent(p),
         t \notin disturbed \/ cmd[t].to # p
  PROVE  Coherent(p)'
<1>1. IndexOK /\ CmdOK(t) /\ ToBeMade(t) /\ UNCHANGED <<slots, count>> /\ pc[t] = "record"
  BY DEF TypeInv, StateOK, HomeInv, Holding, CreateRecord, Step
<1>2. cmd[t].op = "CREATE" /\ cmd[t].to \in Path
  BY <1>1, CommandSays DEF CmdOK
<1>3. CASE UNCHANGED trie
  BY <1>1, <1>3, Agreeing
<1>4. ASSUME NEW x, update_file_info({cmd[t].to}, x.server) PROVE Coherent(p)'
  <2>1. CASE p = cmd[t].to
    <3>1. trie[p] \notin Info
      BY <1>1, <1>2, <2>1 DEF ToBeMade
    <3> QED BY <1>1, <3>1, Agreeing
  <2>2. CASE p # cmd[t].to
    <3>1. {cmd[t].to} \in SUBSET Path /\ p \notin {cmd[t].to}
      BY <1>2, <2>2
    <3>2. trie'[p] = trie[p] \/ trie[p] = NoNode
      BY <1>1, <1>4, <3>1, UpdatedSays
    <3> QED BY <1>1, <3>2, Agreeing, IndexAssumption
  <2> QED BY <2>1, <2>2
<1> QED BY <1>3, <1>4 DEF CreateRecord

LEMMA CopyAgrees ==
  ASSUME TypeInv, NEW t \in Thread, CopyIndex(t), NEW p \in Path, Coherent(p), ~Begins(p, cmd[t].to)
  PROVE  Coherent(p)'
<1>1. IndexOK /\ UNCHANGED <<slots, count>> /\ NoNode \notin Info
  BY IndexAssumption DEF TypeInv, StateOK, CopyIndex
<1>2. CASE UNCHANGED trie
  BY <1>1, <1>2, Agreeing
<1>3. CASE copy_directory_trie(cmd[t].path, cmd[t].to)
  <2>1. trie'[p] = trie[p] \/ trie[p] = NoNode
    BY <1>3 DEF copy_directory_trie
  <2> QED BY <1>1, <2>1, Agreeing
<1> QED BY <1>2, <1>3 DEF CopyIndex

\* What the cache says of a path is what the trie says, however many threads there
\* are, until a server that has the path registers, a COPY replaces it, a DELETE
\* that points into the cache, or that another thread got in the way of, takes it
\* out of the trie, or a CREATE records it that another thread got in the way of
\* (naming_utils.c:34-83, naming_server.c:192, 551, 838-843, 1233).
THEOREM Stale == Spec => StaleOnlyAfter
<1> DEFINE Excused(p) ==
      \/ \E s \in registered' \ registered : p \in Listing[s]
      \/ \E t \in Thread :
           \/ Ends(t, "untrie") /\ Unsure(t)
           \/ Ends(t, "record") /\ t \in disturbed /\ cmd[t].to = p
           \/ Ends(t, "copy_index") /\ Begins(p, cmd[t].to)
<1>1. TypeInv /\ RaceInv /\ HomeInv /\ [Next]_vars
        => [\A p \in Path \ raced : Coherent(p) /\ ~Coherent(p)' => Excused(p)]_vars
  <2> SUFFICES ASSUME TypeInv, HomeInv, Next, NEW p \in Path \ raced, Coherent(p), ~Excused(p)
               PROVE  Coherent(p)'
    OBVIOUS
  <2>1. IndexOK /\ pc \in [Thread -> Location] /\ NoNode \notin Info
    BY IndexAssumption DEF TypeInv, StateOK
  <2>2. ASSUME UNCHANGED <<slots, count, trie>> PROVE Coherent(p)'
    BY <2>1, <2>2, Agreeing
  <2>3. ASSUME NEW t \in Thread, Handle(t) PROVE Coherent(p)'
    <3>1. CASE CreateRecord(t)
      <4>1. Ends(t, "record")
        BY <2>1, <3>1 DEF CreateRecord, Step, Ends
      <4>2. t \notin disturbed \/ cmd[t].to # p
        BY <4>1
      <4> QED BY <3>1, <4>2, RecordAgrees
    <3>2. CASE DeleteUntrie(t) /\ UNCHANGED <<slots, count>>
      <4>1. Ends(t, "untrie")
        BY <2>1, <3>2 DEF DeleteUntrie, Leave, Step, Ends
      <4>2. ~Unsure(t)
        BY <4>1
      <4> QED BY <3>2, <4>2, UntrieAgrees
    <3>3. CASE CopyIndex(t)
      <4>1. Ends(t, "copy_index")
        BY <2>1, <3>3 DEF CopyIndex, Step, Ends
      <4>2. ~Begins(p, cmd[t].to)
        BY <4>1
      <4> QED BY <3>3, <4>2, CopyAgrees
    <3>4. ASSUME NEW q \in Path, Found(q) \/ Added(q) \/ Removed(q) PROVE Coherent(p)'
      BY <2>1, <3>4, CacheAgrees
    <3> QED BY <2>2, <2>3, <3>1, <3>2, <3>3, <3>4, CacheSteps DEF LooksUp
  <2>4. ASSUME NEW s \in Server, Register(s) PROVE Coherent(p)'
    <3>1. update_file_info(Listing[s], s) /\ s \in registered' \ registered /\ UNCHANGED <<slots, count>>
      BY <2>4 DEF Register
    <3>2. p \notin Listing[s] /\ Listing[s] \in SUBSET Path
      BY <3>1, HomeIs
    <3>3. trie'[p] = trie[p] \/ trie[p] = NoNode
      BY <2>1, <3>1, <3>2, UpdatedSays
    <3> QED BY <2>1, <3>1, <3>3, Agreeing
  <2> QED BY <2>2, <2>3, <2>4, NextIs, OthersDo
<1> QED BY <1>1, HomeHolds, PTL DEF Spec, StaleOnlyAfter
=============================================================================
