---------------------------- MODULE NamingIndex ----------------------------
(***************************************************************************)
(* The index of the naming server (naming_server/naming_utils.c): a trie   *)
(* that leads from a path to the storage server that has it, and in front  *)
(* of it an array of the paths looked up last.  Neither has a lock.        *)
(*                                                                         *)
(* A path is a sequence of symbols, each standing for the characters by    *)
(* which the paths of an instance differ: the trie branches on single      *)
(* characters and knows no "/".                                            *)
(***************************************************************************)
EXTENDS Integers, Sequences

CONSTANTS
  Path,       \* the paths there are
  Server,     \* storage servers
  NoServer,   \* an address that is nobody's
  CacheSize,  \* CACHE_SIZE
  NoNode,     \* the trie has no node for a path
  NoInfo      \* its node has no file_info

\* A FILEINFO.
Info == [server : Server \cup {NoServer}, path : Path]

ASSUME IndexAssumption ==
  /\ \A p \in Path : p # <<>>
  /\ CacheSize \in Nat \ {0}
  /\ NoServer \notin Server
  /\ NoNode \notin Info /\ NoInfo \notin Info /\ NoNode # NoInfo

VARIABLES
  trie,   \* what the trie holds for each path
  slots,  \* the array of the cache, what was left beyond its end included
  count   \* cache_count

index == <<trie, slots, count>>

Slot  == 1..CacheSize
Entry == [path : Path, info : Info]
Blank == [path |-> <<>>, info |-> NoInfo]

IndexInit ==
  /\ trie = [p \in Path |-> NoNode]
  /\ slots = [i \in Slot |-> Blank]
  /\ count = 0

-----------------------------------------------------------------------------
(* The cache.                                                              *)
Hit(p) == \E i \in 1..count : slots[i].path = p

Position(p) ==
  CHOOSE i \in 1..count :
    slots[i].path = p /\ \A j \in 1..(i - 1) : slots[j].path # p

\* Mutation: the entry is put in front and left where it was as well.
find_in_cache_kept(p) ==
  LET i == Position(p)
  IN  /\ slots' = [j \in Slot |-> CASE j = 1 -> slots[i]
                                    [] j \in 2..(i - 1) -> slots[j - 1]
                                    [] OTHER -> slots[j]]
      /\ UNCHANGED count

\* Mutation: an entry that is found stays where it is.
find_in_cache_fifo(p) == UNCHANGED <<slots, count>>

\* The entry found moves to the front.
find_in_cache(p) ==
  LET i == Position(p)
  IN  /\ slots' = [j \in Slot |-> CASE j = 1 -> slots[i]
                                    [] j \in 2..i -> slots[j - 1]
                                    [] OTHER -> slots[j]]
      /\ UNCHANGED count

\* Mutation: a full cache is not made room in.
add_to_cache_unbounded(p, info) ==
  /\ slots' = [j \in Slot |-> IF j = 1 THEN [path |-> p, info |-> info]
                                        ELSE slots[j - 1]]
  /\ count' = count + 1

\* Mutation: in a full cache the new entry takes the place of the first.
add_to_cache_in_front(p, info) ==
  LET moved == IF count = CacheSize THEN 0 ELSE count
  IN  /\ slots' = [j \in Slot |->
                     CASE j = 1 -> [path |-> p, info |-> info]
                       [] j \in 2..(moved + 1) -> slots[j - 1]
                       [] OTHER -> slots[j]]
      /\ count' = IF count = CacheSize THEN count ELSE count + 1

\* A new entry goes to the front; a full cache first gives up its last one.
add_to_cache(p, info) ==
  LET kept == IF count = CacheSize THEN count - 1 ELSE count
  IN  /\ slots' = [j \in Slot |->
                     CASE j = 1 -> [path |-> p, info |-> info]
                       [] j \in 2..(kept + 1) -> slots[j - 1]
                       [] OTHER -> slots[j]]
      /\ count' = kept + 1

\* Mutation: only the paths of the entries close up.
remove_from_cache_halved(p) ==
  IF Hit(p)
  THEN /\ slots' = [j \in Slot |-> IF Position(p) <= j /\ j < count
                                     THEN [slots[j] EXCEPT !.path = slots[j + 1].path]
                                     ELSE slots[j]]
       /\ count' = count - 1
  ELSE UNCHANGED <<slots, count>>

\* The entries behind the one taken out close up; the last slot is left.
remove_from_cache(p) ==
  IF Hit(p)
  THEN /\ slots' = [j \in Slot |-> IF Position(p) <= j /\ j < count
                                     THEN slots[j + 1] ELSE slots[j]]
       /\ count' = count - 1
  ELSE UNCHANGED <<slots, count>>

-----------------------------------------------------------------------------
(* The trie.                                                               *)
Begins(p, prefix) ==
  Len(prefix) <= Len(p) /\ SubSeq(p, 1, Len(prefix)) = prefix

\* The node for each path of a set is found or made, with those on the way,
\* and its file_info is filled in.
Updated(paths, server) ==
  [q \in Path |->
     CASE q \in paths -> [server |-> server, path |-> q]
       [] q \notin paths /\ trie[q] = NoNode
            /\ (\E p \in paths : Begins(p, q)) -> NoInfo
       [] OTHER -> trie[q]]

update_file_info(paths, server) == trie' = Updated(paths, server)

delete_file_info(p) ==
  trie' = [q \in Path |-> IF q = p /\ trie[q] \in Info THEN NoInfo ELSE trie[q]]

\* What is below (or only begins like) a takes the place of what is below b.
\* The entries are copied as they are: they keep a's server and a's paths.
copy_directory_trie(a, b) ==
  LET Source(q) == a \o SubSeq(q, Len(b) + 1, Len(q))
  IN  trie' = [q \in Path |->
                 CASE Begins(q, b) -> IF Source(q) \in Path
                                      THEN trie[Source(q)] ELSE NoNode
                   [] Begins(b, q) /\ q # b /\ trie[q] = NoNode -> NoInfo
                   [] OTHER -> trie[q]]

-----------------------------------------------------------------------------
(* A lookup returns a pointer: to the entry at the front of the cache, or   *)
(* to the file_info of a node of the trie, or NULL.  What it points to may *)
(* change, or be freed, while the caller holds it.                         *)
Pointer(at, p, info) == [at |-> at, path |-> p, info |-> info]

NullPtr    == Pointer("null", <<>>, NoInfo)
SlotPtr    == Pointer("slot", <<>>, NoInfo)
NodePtr(p) == Pointer("node", p, NoInfo)

\* Memory that was freed, and memory that nothing else refers to any more.
FreedPtr(p)   == Pointer("freed", p, NoInfo)
KeptPtr(info) == Pointer("kept", <<>>, info)

\* find_file_info and find_directory_info look in the cache first; what it
\* does not hold is searched for in the trie and, if found, put there.
find_cached(p, result) ==
  /\ Hit(p)
  /\ result = SlotPtr
  /\ find_in_cache(p)
  /\ UNCHANGED trie

find_in_trie(p, result) ==
  /\ \/ trie[p] \in Info /\ result = NodePtr(p) /\ add_to_cache(p, trie[p])
     \/ trie[p] \notin Info /\ result = NullPtr /\ UNCHANGED <<slots, count>>
  /\ UNCHANGED trie

-----------------------------------------------------------------------------
IndexOK ==
  /\ trie \in [Path -> Info \cup {NoNode, NoInfo}]
  /\ slots \in [Slot -> Entry \cup {Blank}]
  /\ count \in 0..CacheSize
  /\ \A i \in 1..count : slots[i] \in Entry

\* The paths in the cache, and which of two was used later: the one in front.
Held  == {slots[i].path : i \in 1..count}
Later == {w \in Held \X Held :
            \E i, j \in 1..count : i < j /\ w = <<slots[i].path, slots[j].path>>}

\* The cache is an LRU cache: it gives up the path whose last use is the
\* longest ago (naming_utils.c:53-61).
Lru == INSTANCE LruCache WITH Key <- Path, Capacity <- CacheSize, held <- Held, newer <- Later

CacheIsLru == Lru!Spec
=============================================================================
