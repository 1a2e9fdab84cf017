--------------------------- MODULE RegistryProofs ---------------------------
(***************************************************************************)
(* What Registry keeps, for any servers, any size of the table and any     *)
(* number of starts: its type, that a server has one entry, that who is    *)
(* taken for active is listened to, and who is listened to for active,     *)
(* each with the exceptions the property names.                            *)
(***************************************************************************)
EXTENDS Registry, WellFoundedInduction, TLAPS

-----------------------------------------------------------------------------
(* The least and the greatest of some numbers.                             *)

\* A set of natural numbers that has an element has a least one.
LEMMA LeastNat ==
  ASSUME NEW T \in SUBSET Nat, T # {} PROVE \E m \in T : \A n \in T : m <= n
<1> DEFINE R == {p \in Nat \X Nat : p[1] < p[2]}
<1>1. IsWellFoundedOn(R, Nat)
  BY NatLessThanWellFounded, Zenon DEF OpToRel
<1>2. PICK m \in T : \A n \in T : ~(<<n, m>> \in R)
  <2> HIDE DEF R
  <2> QED BY <1>1, WFMin, Zenon
<1>3. ASSUME NEW n \in T PROVE m <= n
  <2>1. m \in Nat /\ n \in Nat /\ ~(n < m)
    BY <1>2
  <2> QED BY <2>1
<1> QED BY <1>2, <1>3

\* Of the numbers up to N there is a greatest in each set that has an element.
LEMMA GreatestNat ==
  ASSUME NEW N \in Nat, NEW T \in SUBSET (1..N), T # {} PROVE \E m \in T : \A n \in T : n <= m
<1> DEFINE D == {N - i : i \in T}
<1>1. T \subseteq Int /\ \A i \in T : i <= N
  OBVIOUS
<1>2. D \in SUBSET Nat
  BY <1>1, \A i \in T : N - i \in Nat
<1>3. D # {}
  OBVIOUS
<1>4. PICK d \in D : \A e \in D : d <= e
  BY <1>2, <1>3, LeastNat
<1>5. PICK m \in T : d = N - m
  BY <1>4
<1>6. ASSUME NEW n \in T PROVE n <= m
  <2>1. N - m <= N - n
    BY <1>4, <1>5
  <2>2. m \in Int /\ n \in Int
    BY <1>1
  <2> QED BY <2>1, <2>2
<1> QED BY <1>5, <1>6

\* First finds the first entry of a server that has one.
LEMMA FirstIs ==
  ASSUME TypeOK, NEW s, Known(s)
  PROVE  First(s) \in Matches(s) /\ \A j \in Matches(s) : First(s) <= j
<1>1. Matches(s) \in SUBSET Nat /\ Matches(s) # {}
  BY DEF TypeOK, TableOK, Matches, Known
<1>2. \E i \in Matches(s) : \A j \in Matches(s) : i <= j
  BY <1>1, LeastNat
<1> QED BY <1>2 DEF First

\* Before finds an entry, or none.
LEMMA BeforeType ==
  ASSUME TypeOK, NEW n \in 0..MaxServers PROVE Before(n) \in 0..MaxServers
<1> DEFINE active == {i \in 1..(n - 1) : storage_servers[i].is_active}
<1>1. CASE active = {}
  BY <1>1, TableAssumption DEF Before
<1>2. CASE active # {}
  <2>1. active \in SUBSET (1..MaxServers)
    BY TableAssumption
  <2>2. \E i \in active : \A j \in active : j <= i
    BY <1>2, <2>1, TableAssumption, GreatestNat
  <2>3. Before(n) \in active
    BY <1>2, <2>2 DEF Before
  <2> QED BY <2>1, <2>3, TableAssumption
<1> QED BY <1>1, <1>2

-----------------------------------------------------------------------------
(* The type invariant, with what it rests on.                              *)
SlotRoom == \A c \in Conn : step[c] = "append" => slot[c] < MaxServers

ThirdRoom == \A c \in Conn : step[c] = "backup2" => 3 <= MaxServers

Owned == \A c \in Conn : owner[c] = NoServer <=> step[c] = "unused"

TypeInv == TypeOK /\ SlotRoom /\ ThirdRoom /\ Owned

\* The steps of a thread that registered its server.
Registered(c) == step[c] \in Entering \cup Choosing \cup {"listen"}

\* Choosing backups changes nothing else.
LEMMA ChosenKeeps ==
  ASSUME TypeOK, NEW i \in 1..MaxServers, NEW p \in 0..MaxServers, NEW q \in 0..MaxServers,
         Chosen(i, <<p, q>>)
  PROVE  /\ storage_servers' \in [1..MaxServers -> Entry]
         /\ \A k \in 1..MaxServers :
              /\ storage_servers'[k].address = storage_servers[k].address
              /\ storage_servers'[k].is_active = storage_servers[k].is_active
<1> DEFINE e == storage_servers[i]
           B == [n \in 1..2 |-> IF <<p, q>>[n] # 0 /\ storage_servers[<<p, q>>[n]].is_active
                                THEN storage_servers[<<p, q>>[n]].address ELSE e.backup[n]]
<1>1. storage_servers \in [1..MaxServers -> Entry] /\ e \in Entry
  BY DEF TypeOK, TableOK
<1>2. \A n \in 1..2 : B[n] \in Address
  <2>1. \A k \in 1..MaxServers : storage_servers[k].address \in Address
    BY <1>1 DEF Entry
  <2>2. e.backup[1] \in Address /\ e.backup[2] \in Address
    BY <1>1 DEF Entry
  <2>3. B[1] \in Address
    BY <2>1, <2>2
  <2>4. B[2] \in Address
    BY <2>1, <2>2
  <2> QED BY <2>3, <2>4
<1>3. storage_servers' = [storage_servers EXCEPT ![i].backup = B]
  BY DEF Chosen
<1> HIDE DEF B
<1>4. B \in [1..2 -> Address]
  BY <1>2 DEF B
<1> QED BY <1>1, <1>3, <1>4 DEF Entry

\* What a server's asking for an entry puts on record.
LEMMA NotedType ==
  ASSUME TypeOK, NEW c \in Conn, owner[c] \in Server, NEW full \in BOOLEAN, Noted(c, full)
  PROVE  seen' \in History
BY DEF Noted, Earlier, TypeOK, History

\* At first the table is empty.
LEMMA InitType == Init => TypeInv
BY TableAssumption, StartsAssumption DEF Init, TableInit, TypeInv, TypeOK, TableOK, Info,
  Entry, Address, NoBackups, History, Over, Conn, SlotRoom, ThirdRoom, Owned

\* A server's own steps leave the table alone.
LEMMA ServerType ==
  ASSUME TypeInv, NEW s \in Server, Start(s) \/ Crash(s) \/ Sigpipe(s) PROVE TypeInv'
<1> USE TableAssumption, StartsAssumption DEF TypeInv, TypeOK
<1>1. TableOK' /\ seen' \in History /\ slot' = slot
  BY DEF Start, Crash, Sigpipe, table, TableOK
<1>2. CASE Start(s)
  BY <1>1, <1>2 DEF Start, Step, Unused, Conn, Address, SlotRoom, ThirdRoom, Owned, Over
<1>3. CASE Crash(s) \/ Sigpipe(s)
  BY <1>1, <1>3 DEF Crash, Sigpipe, SlotRoom, ThirdRoom, Owned
<1> QED BY <1>2, <1>3

\* The owner of a connection that is in use is a server.
LEMMA OwnerIsServer ==
  ASSUME TypeInv, NEW c \in Conn, step[c] # "unused" PROVE owner[c] \in Server
BY TableAssumption DEF TypeInv, TypeOK, Owned, Address

\* A thread's step from one place to another keeps the types that go with it.
LEMMA StepType ==
  ASSUME TypeInv, NEW c \in Conn, NEW from, NEW to \in Entering \cup Choosing \cup {"listen", "ended"},
         from # "unused", Step(c, from, to), UNCHANGED processes,
         TableOK', seen' \in History, slot' \in [Conn -> 0..MaxServers],
         \A d \in Conn : d # c => slot'[d] = slot[d],
         to = "append" => slot'[c] < MaxServers,
         to = "backup2" => 3 <= MaxServers
  PROVE  TypeInv'
<1> USE DEF TypeInv, TypeOK
<1>1. step' \in [Conn -> Over \cup Entering \cup Choosing \cup {"scan", "listen"}]
  BY DEF Step, Over
<1>2. running' = running /\ owner' = owner
  BY DEF processes
<1>3. SlotRoom'
  BY DEF Step, SlotRoom
<1>5. ThirdRoom'
  BY DEF Step, ThirdRoom
<1>4. Owned'
  BY <1>2 DEF Step, Owned, Entering, Choosing
<1> QED BY <1>1, <1>2, <1>3, <1>4, <1>5

\* Marking an entry keeps the type of the table.
LEMMA SetActiveType ==
  ASSUME TableOK, NEW i \in 1..MaxServers, NEW value \in BOOLEAN,
         SetActive(i, value), server_count' = server_count
  PROVE  TableOK'
<1>1. storage_servers \in [1..MaxServers -> Entry]
  BY DEF TableOK
<1> DEFINE e == [storage_servers[i] EXCEPT !.is_active = value]
<1>2. e \in Entry
  BY <1>1 DEF Entry
<1>3. storage_servers' = [storage_servers EXCEPT ![i] = e]
  BY DEF SetActive
<1> HIDE DEF e
<1>4. storage_servers' \in [1..MaxServers -> Entry]
  BY <1>1, <1>2, <1>3
<1> QED BY <1>4 DEF TableOK

\* Each step of a thread keeps the type.
LEMMA ThreadType ==
  ASSUME TypeInv, NEW c \in Conn, Thread(c) \/ Timeout(c) PROVE TypeInv'
<1>1. TypeOK /\ TableOK /\ MaxServers \in Nat \ {0}
  BY TableAssumption DEF TypeInv, TypeOK
<1>2. CASE RegisterKnown(c)
  <2>1. owner[c] \in Server
    BY <1>2, OwnerIsServer DEF RegisterKnown, Step
  <2>2. TableOK'
    <3>1. PICK i \in Inactive(owner[c]) : SetActive(i, TRUE)
      BY <1>2 DEF RegisterKnown
    <3>2. i \in 1..MaxServers
      BY <1>1 DEF Inactive, Matches, TableOK
    <3>3. server_count' = server_count
      BY <1>2 DEF RegisterKnown
    <3> QED BY <1>1, <3>1, <3>2, <3>3, SetActiveType
  <2>3. seen' \in History
    BY <1>1, <1>2, <2>1 DEF RegisterKnown, TypeOK, History, Earlier
  <2> QED
    BY <1>1, <1>2, <2>2, <2>3, StepType DEF RegisterKnown, TypeOK
<1>3. CASE RegisterNew(c)
  <2>1. owner[c] \in Server
    BY <1>3, OwnerIsServer DEF RegisterNew, Step
  <2>2. seen' \in History
    BY <1>1, <1>3, <2>1, NotedType DEF RegisterNew
  <2>3. TableOK'
    BY <1>1, <1>3 DEF RegisterNew, table, TableOK
  <2> QED
    BY <1>1, <1>3, <2>2, <2>3, StepType DEF RegisterNew, TypeOK, TableOK, Entering
<1>4. CASE RegisterFull(c)
  <2>1. owner[c] \in Server
    BY <1>4, OwnerIsServer DEF RegisterFull, Step
  <2>2. seen' \in History
    BY <1>1, <1>4, <2>1, NotedType DEF RegisterFull
  <2>3. TableOK'
    BY <1>1, <1>4 DEF RegisterFull, table, TableOK
  <2> QED
    BY <1>1, <1>4, <2>2, <2>3, StepType DEF RegisterFull, TypeOK, TableOK, Choosing
<1>5. CASE AppendEntry(c)
  <2>1. Info(owner[c]) \in Entry
    BY <1>1, TableAssumption DEF Info, Entry, NoBackups, TypeOK, Address
  <2>2. slot[c] \in 0..MaxServers /\ slot[c] < MaxServers
    <3>1. step[c] = "append" /\ SlotRoom
      BY <1>5 DEF AppendEntry, Step, TypeInv
    <3>2. slot[c] \in 0..MaxServers
      BY <1>1 DEF TypeOK
    <3> QED BY <3>1, <3>2, TableAssumption DEF SlotRoom
  <2>3. TableOK'
    BY <1>1, <1>5, <2>1, <2>2 DEF AppendEntry, TableOK
  <2> QED
    BY <1>1, <1>5, <2>3, StepType DEF AppendEntry, TypeOK, Entering
<1>6. CASE InitEntry(c)
  <2>1. NoBackups \in [1..2 -> Address]
    BY DEF NoBackups, Address
  <2>2. TableOK'
    BY <1>1, <1>6, <2>1 DEF InitEntry, TableOK, Entry
  <2> QED
    BY <1>1, <1>6, <2>2, StepType DEF InitEntry, TypeOK, Choosing
<1>7. CASE BackupFirst(c) \/ BackupSecond(c) \/ BackupLast(c)
  <2>1. TableOK'
    <3>1. CASE storage_servers' = storage_servers /\ server_count' = server_count
      BY <1>1, <3>1 DEF TableOK
    <3>2. CASE storage_servers' # storage_servers /\ BackupFirst(c)
      <4>1. server_count = 3 /\ Chosen(1, <<2, 3>>) /\ server_count' = server_count
        BY <3>2 DEF BackupFirst, table
      <4>2. 1 \in 1..MaxServers /\ 2 \in 0..MaxServers /\ 3 \in 0..MaxServers
        BY <1>1, <4>1 DEF TableOK
      <4> QED BY <1>1, <4>1, <4>2, ChosenKeeps DEF TableOK
    <3>3. CASE BackupSecond(c)
      <4>1. Chosen(2, <<1, 3>>) /\ server_count' = server_count
        BY <3>3 DEF BackupSecond
      <4>2. 2 \in 1..MaxServers /\ 1 \in 0..MaxServers /\ 3 \in 0..MaxServers
        BY <1>1, <3>3 DEF BackupSecond, Step, TypeInv, ThirdRoom
      <4> QED BY <1>1, <4>1, <4>2, ChosenKeeps DEF TableOK
    <3>4. CASE storage_servers' # storage_servers /\ BackupLast(c)
      <4>1. /\ server_count >= 3 /\ server_count' = server_count
            /\ Chosen(server_count, <<Before(server_count), Before(Before(server_count))>>)
        BY <3>4 DEF BackupLast
      <4>2. server_count \in 1..MaxServers
        BY <1>1, <4>1 DEF TableOK
      <4>3. Before(server_count) \in 0..MaxServers /\ Before(Before(server_count)) \in 0..MaxServers
        BY <1>1, <4>2, BeforeType
      <4> QED BY <1>1, <4>1, <4>2, <4>3, ChosenKeeps DEF TableOK
    <3> QED BY <1>7, <3>1, <3>2, <3>3, <3>4 DEF BackupFirst, BackupLast, table
  <2>2. /\ UNCHANGED <<seen, slot, processes>>
        /\ \/ server_count = 3 /\ Step(c, "backup", "backup2")
           \/ Step(c, "backup", "backup3") \/ Step(c, "backup2", "backup3") \/ Step(c, "backup3", "listen")
    BY <1>7 DEF BackupFirst, BackupSecond, BackupLast
  <2>3. seen' \in History /\ slot' \in [Conn -> 0..MaxServers]
    BY <1>1, <2>2 DEF TypeOK
  <2>4. server_count = 3 => 3 <= MaxServers
    BY <1>1 DEF TableOK
  <2> QED
    BY <2>1, <2>2, <2>3, <2>4, StepType DEF Choosing
<1>8. CASE MarkInactive(c)
  <2>1. TableOK'
    <3>1. CASE Known(owner[c])
      <4>1. First(owner[c]) \in 1..MaxServers
        BY <1>1, <3>1, FirstIs DEF Matches, TableOK
      <4>2. SetActive(First(owner[c]), FALSE) /\ server_count' = server_count
        BY <1>8, <3>1 DEF MarkInactive
      <4> QED BY <1>1, <4>1, <4>2, SetActiveType
    <3>2. CASE ~Known(owner[c])
      BY <1>1, <1>8, <3>2 DEF MarkInactive, TableOK
    <3> QED BY <3>1, <3>2
  <2> QED
    BY <1>1, <1>8, <2>1, StepType DEF MarkInactive, TypeOK
<1> QED
  BY <1>2, <1>3, <1>4, <1>5, <1>6, <1>7, <1>8 DEF Thread, Timeout, Hangup

\* The table keeps its shape, and never has more entries than there is room for.
THEOREM TypeCorrect == Spec => []TypeOK
<1>1. TypeInv /\ [Next]_vars => TypeInv'
  <2> SUFFICES ASSUME TypeInv, [Next]_vars PROVE TypeInv'
    OBVIOUS
  <2>1. CASE UNCHANGED vars
    BY <2>1 DEF vars, table, TypeInv, TypeOK, TableOK, SlotRoom, ThirdRoom, Owned
  <2> QED BY <2>1, ServerType, ThreadType DEF Next
<1>2. TypeInv => TypeOK
  BY DEF TypeInv
<1> QED BY InitType, <1>1, <1>2, PTL DEF Spec

-----------------------------------------------------------------------------
(* The entries.  What follows holds as long as no two threads set up their *)
(* entries at once.                                                        *)
Entries     == 1..server_count
Addr(i)     == storage_servers[i].address
IsActive(i) == storage_servers[i].is_active
IsFirst(i)  == i \in Entries /\ \A j \in Entries : Addr(j) = Addr(i) => i <= j

\* A thread that is through with the table.
Settled(c) == step[c] \in Choosing \cup {"listen"}

\* A server with two connections that have registered came back early.
OneConnection ==
  \A c, d \in Conn :
    c # d /\ owner[c] = owner[d] /\ Registered(c) /\ Registered(d) => owner[c] \in seen.early

\* One thread at a time sets up an entry: it is to have the next, or has the last.
OneEnters    == \A c, d \in Conn : step[c] \in Entering /\ step[d] \in Entering => c = d
SlotIsNext   == \A c \in Conn : step[c] = "append" => slot[c] = server_count
LastIsOwn    ==
  \A c \in Conn : step[c] = "init" => server_count \in 1..MaxServers /\ Addr(server_count) = owner[c]
KnownIsEarly ==
  \A c \in Conn :
    step[c] = "append" /\ (\E i \in Entries : Addr(i) = owner[c]) => owner[c] \in seen.early

\* A server's first entry is active only while a connection of the server is
\* there, and is so for each that is through, unless the server came back early.
Watched  ==
  \A i \in Entries : IsFirst(i) /\ IsActive(i) => \E c \in Conn : owner[c] = Addr(i) /\ Registered(c)
OneEntry == \A i, j \in Entries : Addr(i) = Addr(j) /\ i # j => Addr(i) \in seen.early
Counted  ==
  \A c \in Conn : Settled(c) /\ owner[c] \notin seen.early =>
    \E i \in Entries : Addr(i) = owner[c] /\ IsFirst(i) /\ IsActive(i)

Entered == OneEnters /\ SlotIsNext /\ LastIsOwn /\ KnownIsEarly
Orderly == Entered /\ Watched /\ OneEntry /\ (~seen.turned => Counted)

TableInv ==
  /\ TypeInv
  /\ OneConnection
  /\ ~seen.clash => Orderly

\* What a server's asking for an entry puts on record, in full.
LEMMA NotedSays ==
  ASSUME TypeOK, NEW c \in Conn, NEW full \in BOOLEAN, Noted(c, full)
  PROVE  /\ seen.clash => seen'.clash
         /\ ~full /\ (\E d \in Others(c) : step[d] \in Entering) => seen'.clash
         /\ seen.turned => seen'.turned
         /\ full => seen'.turned
         /\ seen'.early = seen.early \cup Earlier(c)
<1>1. seen \in History
  BY DEF TypeOK
<1>2. DOMAIN seen = {"clash", "overlap", "turned", "early"}
  BY <1>1 DEF History
<1> QED BY <1>1, <1>2 DEF Noted, History

\* Whoever registers while another connection of its server is there is early.
LEMMA RegistersEarly ==
  ASSUME OneConnection, NEW c \in Conn, ~Registered(c), UNCHANGED owner,
         \A d \in Conn \ {c} : step'[d] = step[d],
         seen'.early = seen.early \cup Earlier(c)
  PROVE  OneConnection'
<1> SUFFICES ASSUME NEW a \in Conn, NEW b \in Conn, a # b, owner[a] = owner[b],
                    Registered(a)', Registered(b)'
             PROVE  owner[a] \in seen'.early
  BY DEF OneConnection
<1>1. CASE a # c /\ b # c
  BY <1>1 DEF OneConnection, Registered
<1>2. ASSUME NEW d \in Conn \ {c}, owner[d] = owner[c], Registered(d)' PROVE owner[c] \in seen'.early
  <2>1. step[d] # "ended"
    BY <1>2 DEF Registered, Entering, Choosing
  <2> QED BY <1>2, <2>1 DEF Earlier, Others
<1> QED BY <1>1, <1>2

\* Otherwise there is no new connection to count.
LEMMA ConnectionsStay ==
  ASSUME OneConnection, seen.early \subseteq seen'.early,
         \A d \in Conn : Registered(d)' => Registered(d) /\ owner'[d] = owner[d]
  PROVE  OneConnection'
BY DEF OneConnection

\* An empty table is in order.
LEMMA InitTable == Init => TableInv
BY InitType DEF Init, TableInit, TableInv, OneConnection, Orderly, Entered, OneEnters, SlotIsNext,
  LastIsOwn, KnownIsEarly, Watched, OneEntry, Counted, Settled, Registered, Entering, Choosing,
  Entries

\* A server's own steps.
LEMMA ServerTableInv ==
  ASSUME TableInv, NEW s \in Server, Start(s) \/ Crash(s) \/ Sigpipe(s) PROVE TableInv'
<1>1. TypeInv /\ TypeInv'
  BY ServerType DEF TableInv
<1>2. UNCHANGED <<storage_servers, server_count, slot, seen>>
  BY DEF Start, Crash, Sigpipe, table
<1>3. \A d \in Conn : Registered(d)' <=> Registered(d)
  BY <1>1 DEF Start, Crash, Sigpipe, Step, Registered, Entering, Choosing, TypeInv, TypeOK
<1>4. \A d \in Conn : Registered(d) => owner'[d] = owner[d] /\ step'[d] = step[d]
  BY <1>1 DEF Start, Crash, Sigpipe, Step, Registered, Entering, Choosing, TypeInv, TypeOK
<1>5. OneConnection'
  BY <1>2, <1>3, <1>4, ConnectionsStay DEF TableInv
<1>6. \A d \in Conn : \A x \in Entering \cup Choosing \cup {"listen"} : step'[d] = x <=> step[d] = x
  BY <1>3, <1>4 DEF Registered
<1>7. ASSUME ~seen.clash PROVE Orderly'
  <2>1. Orderly
    BY <1>7 DEF TableInv
  <2>2. Entered'
    BY <1>2, <1>4, <1>6, <2>1 DEF Orderly, Entered, OneEnters, SlotIsNext, LastIsOwn, KnownIsEarly,
      Entering, Addr, Entries, Registered
  <2>3. Watched' /\ OneEntry'
    BY <1>2, <1>3, <1>4, <2>1 DEF Orderly, Watched, OneEntry, Addr, Entries, IsFirst, IsActive
  <2>4. Counted => Counted'
    BY <1>2, <1>4, <1>6 DEF Counted, Settled, Choosing, Addr, Entries, IsFirst, IsActive, Registered
  <2> QED BY <1>2, <2>1, <2>2, <2>3, <2>4 DEF Orderly
<1> QED BY <1>1, <1>2, <1>5, <1>7 DEF TableInv

\* What the other threads are at stays as it is.
LEMMA OthersStay ==
  ASSUME TypeOK, NEW c \in Conn, NEW from, NEW to, Step(c, from, to)
  PROVE  step[c] = from /\ step'[c] = to /\ \A d \in Conn \ {c} : step'[d] = step[d]
BY DEF Step, TypeOK

\* The choice of backups.
LEMMA BackupTableInv ==
  ASSUME TableInv, NEW c \in Conn, BackupFirst(c) \/ BackupSecond(c) \/ BackupLast(c) PROVE TableInv'
<1>1. TypeInv /\ TypeInv' /\ TypeOK /\ TableOK
  BY ThreadType DEF TableInv, TypeInv, TypeOK, Thread
<1>2. UNCHANGED <<server_count, slot, seen, owner>>
  BY DEF BackupFirst, BackupSecond, BackupLast, table, processes
<1>3. \A k \in 1..MaxServers : Addr(k)' = Addr(k) /\ IsActive(k)' = IsActive(k)
  <2>1. CASE storage_servers' = storage_servers
    BY <2>1 DEF Addr, IsActive
  <2>2. CASE storage_servers' # storage_servers /\ BackupFirst(c)
    <3>1. server_count = 3 /\ Chosen(1, <<2, 3>>)
      BY <2>2 DEF BackupFirst, table
    <3>2. 1 \in 1..MaxServers /\ 2 \in 0..MaxServers /\ 3 \in 0..MaxServers
      BY <1>1, <3>1, TableAssumption DEF TableOK
    <3> QED BY <1>1, <3>1, <3>2, ChosenKeeps DEF Addr, IsActive
  <2>3. CASE BackupSecond(c)
    <3>1. Chosen(2, <<1, 3>>)
      BY <2>3 DEF BackupSecond
    <3>2. 2 \in 1..MaxServers /\ 1 \in 0..MaxServers /\ 3 \in 0..MaxServers
      BY <1>1, <2>3, TableAssumption DEF BackupSecond, Step, TypeInv, ThirdRoom
    <3> QED BY <1>1, <3>1, <3>2, ChosenKeeps DEF Addr, IsActive
  <2>4. CASE storage_servers' # storage_servers /\ BackupLast(c)
    <3>1. /\ server_count >= 3
          /\ Chosen(server_count, <<Before(server_count), Before(Before(server_count))>>)
      BY <2>4 DEF BackupLast
    <3>2. server_count \in 1..MaxServers
      BY <1>1, <3>1, TableAssumption DEF TableOK
    <3>3. Before(server_count) \in 0..MaxServers /\ Before(Before(server_count)) \in 0..MaxServers
      BY <1>1, <3>2, BeforeType
    <3> QED BY <1>1, <3>1, <3>2, <3>3, ChosenKeeps DEF Addr, IsActive
  <2> QED BY <2>1, <2>2, <2>3, <2>4
<1>4. /\ Settled(c) /\ Settled(c)' /\ \A d \in Conn \ {c} : step'[d] = step[d]
  <2>1. PICK from \in Choosing, to \in Choosing \cup {"listen"} : Step(c, from, to)
    BY DEF BackupFirst, BackupSecond, BackupLast, Choosing
  <2> QED BY <1>1, <2>1, OthersStay DEF Settled
<1>5. \A d \in Conn : (Registered(d)' <=> Registered(d)) /\ (Settled(d)' <=> Settled(d))
  BY <1>4 DEF Registered, Settled
<1>6. \A d \in Conn : step'[d] \in Entering \/ step[d] \in Entering => step'[d] = step[d]
  BY <1>4 DEF Settled, Entering, Choosing
<1>7. OneConnection'
  BY <1>2, <1>5, ConnectionsStay DEF TableInv
<1>8. Entries \subseteq 1..MaxServers /\ Entries' = Entries
  BY <1>1, <1>2, TableAssumption DEF Entries, TableOK
<1>9. \A i \in Entries : IsFirst(i)' <=> IsFirst(i)
  BY <1>3, <1>8 DEF IsFirst
<1>10. ASSUME ~seen.clash PROVE Orderly'
  <2>1. Orderly
    BY <1>10 DEF TableInv
  <2>2. OneEnters' /\ SlotIsNext'
    BY <1>2, <1>6, <2>1 DEF Orderly, Entered, OneEnters, SlotIsNext, Entering
  <2>3. LastIsOwn'
    BY <1>2, <1>3, <1>6, <2>1 DEF Orderly, Entered, LastIsOwn, Entering
  <2>4. KnownIsEarly'
    BY <1>2, <1>3, <1>6, <1>8, <2>1 DEF Orderly, Entered, KnownIsEarly, Entering
  <2>5. Watched'
    <3> SUFFICES ASSUME NEW i \in Entries, IsFirst(i), IsActive(i)
                 PROVE  \E d \in Conn : owner[d] = Addr(i) /\ Registered(d)'
      BY <1>2, <1>3, <1>8, <1>9 DEF Watched
    <3> QED BY <1>5, <2>1 DEF Orderly, Watched
  <2>7. OneEntry'
    <3>1. \A i \in Entries : Addr(i)' = Addr(i)
      BY <1>3, <1>8
    <3>2. OneEntry
      BY <2>1 DEF Orderly
    <3> QED BY <1>2, <1>8, <3>1, <3>2 DEF OneEntry
  <2>6. Counted => Counted'
    BY <1>2, <1>3, <1>5, <1>8, <1>9 DEF Counted
  <2>8. Entered'
    BY <2>2, <2>3, <2>4 DEF Entered
  <2> QED BY <1>2, <2>1, <2>5, <2>6, <2>7, <2>8 DEF Orderly
<1> QED BY <1>1, <1>2, <1>7, <1>10 DEF TableInv

\* A server that returns to its entry.
LEMMA KnownTableInv ==
  ASSUME TableInv, NEW c \in Conn, RegisterKnown(c) PROVE TableInv'
<1>1. TypeInv /\ TypeInv' /\ TypeOK /\ TableOK
  BY ThreadType DEF TableInv, TypeInv, TypeOK, Thread
<1>2. UNCHANGED <<server_count, slot, owner>>
  BY DEF RegisterKnown, processes
<1>3. step[c] = "scan" /\ step'[c] = "listen" /\ \A d \in Conn \ {c} : step'[d] = step[d]
  BY <1>1, OthersStay DEF RegisterKnown
<1>4. PICK e \in Inactive(owner[c]) : SetActive(e, TRUE)
  BY DEF RegisterKnown
<1>5. Entries \subseteq 1..MaxServers /\ Entries' = Entries
  BY <1>1, <1>2, TableAssumption DEF Entries, TableOK
<1>6. e \in Entries /\ Addr(e) = owner[c]
  BY <1>4 DEF Inactive, Matches, Entries, Addr
<1>7. /\ \A k \in Entries : Addr(k)' = Addr(k)
      /\ IsActive(e)' /\ \A k \in Entries \ {e} : IsActive(k)' = IsActive(k)
  BY <1>1, <1>4, <1>5, <1>6 DEF SetActive, TableOK, Entry, Addr, IsActive
<1>8. \A i \in Entries : IsFirst(i)' <=> IsFirst(i)
  BY <1>5, <1>7 DEF IsFirst
<1>9. /\ seen'.early = seen.early \cup Earlier(c)
      /\ seen'.clash = seen.clash /\ seen'.turned = seen.turned
  BY <1>1 DEF RegisterKnown, TypeOK, History
<1>10. ~Registered(c) /\ Registered(c)'
  BY <1>3 DEF Registered, Entering, Choosing
<1>11. OneConnection'
  BY <1>2, <1>3, <1>9, <1>10, RegistersEarly DEF TableInv
<1>12. ASSUME ~seen.clash PROVE Orderly'
  <2>1. Orderly
    BY <1>12 DEF TableInv
  <2>2. \A d \in Conn : step'[d] \in Entering => d # c /\ step'[d] = step[d]
    BY <1>3 DEF Entering
  <2>3. OneEnters' /\ SlotIsNext'
    BY <1>2, <2>1, <2>2 DEF Orderly, Entered, OneEnters, SlotIsNext, Entering
  <2>4. LastIsOwn'
    <3>1. \A d \in Conn : step'[d] = "init" => server_count \in Entries
      BY <1>1, <2>1, <2>2 DEF Orderly, Entered, LastIsOwn, Entering, Entries, TableOK
    <3> QED BY <1>2, <1>7, <2>1, <2>2, <3>1 DEF Orderly, Entered, LastIsOwn, Entering
  <2>5. KnownIsEarly'
    BY <1>2, <1>5, <1>7, <1>9, <2>1, <2>2 DEF Orderly, Entered, KnownIsEarly, Entering
  <2>6. Watched'
    <3> SUFFICES ASSUME NEW i \in Entries, IsFirst(i), IsActive(i)'
                 PROVE  \E d \in Conn : owner[d] = Addr(i) /\ Registered(d)'
      BY <1>2, <1>5, <1>7, <1>8 DEF Watched
    <3>1. CASE i = e
      BY <1>6, <1>10, <3>1
    <3>2. CASE i # e
      <4>1. PICK d \in Conn : owner[d] = Addr(i) /\ Registered(d)
        BY <1>7, <2>1, <3>2 DEF Orderly, Watched
      <4>2. Registered(d)'
        BY <1>3, <1>10, <4>1 DEF Registered
      <4> QED BY <4>1, <4>2
    <3> QED BY <3>1, <3>2
  <2>7. OneEntry'
    BY <1>5, <1>7, <1>9, <2>1 DEF Orderly, OneEntry
  <2>8. ASSUME Counted PROVE Counted'
    <3> SUFFICES ASSUME NEW d \in Conn, Settled(d)', owner[d] \notin seen'.early
                 PROVE  \E i \in Entries : Addr(i) = owner[d] /\ IsFirst(i) /\ IsActive(i)'
      BY <1>2, <1>5, <1>7, <1>8 DEF Counted
    <3>1. CASE d = c
      <4>1. \A j \in Entries : Addr(j) = Addr(e) => j = e
        BY <1>6, <1>9, <2>1, <3>1 DEF Orderly, OneEntry
      <4>2. IsFirst(e)
        BY <1>1, <1>5, <1>6, <4>1, TableAssumption DEF IsFirst, Entries, TableOK
      <4> QED BY <1>6, <1>7, <3>1, <4>2
    <3>2. CASE d # c
      <4>1. Settled(d) /\ owner[d] \notin seen.early
        BY <1>3, <1>9, <3>2 DEF Settled
      <4>2. PICK i \in Entries : Addr(i) = owner[d] /\ IsFirst(i) /\ IsActive(i)
        BY <2>8, <4>1 DEF Counted
      <4> QED BY <1>7, <4>2
    <3> QED BY <3>1, <3>2
  <2> QED BY <1>9, <2>1, <2>3, <2>4, <2>5, <2>6, <2>7, <2>8 DEF Orderly, Entered
<1> QED BY <1>1, <1>9, <1>11, <1>12 DEF TableInv

\* A server that is to have the next entry.
LEMMA NewTableInv ==
  ASSUME TableInv, NEW c \in Conn, RegisterNew(c) PROVE TableInv'
<1>1. TypeInv /\ TypeInv' /\ TypeOK /\ TableOK
  BY ThreadType DEF TableInv, TypeInv, TypeOK, Thread
<1>2. UNCHANGED <<storage_servers, server_count, owner>>
  BY DEF RegisterNew, table, processes
<1>3. step[c] = "scan" /\ step'[c] = "append" /\ \A d \in Conn \ {c} : step'[d] = step[d]
  BY <1>1, OthersStay DEF RegisterNew
<1>4. slot'[c] = server_count /\ \A d \in Conn \ {c} : slot'[d] = slot[d]
  BY <1>1 DEF RegisterNew, TypeOK
<1>5. /\ seen.clash => seen'.clash
      /\ (\E d \in Others(c) : step[d] \in Entering) => seen'.clash
      /\ seen.turned => seen'.turned
      /\ seen'.early = seen.early \cup Earlier(c)
  BY <1>1, NotedSays DEF RegisterNew
<1>6. ~Registered(c) /\ Registered(c)'
  BY <1>3 DEF Registered, Entering, Choosing
<1>7. OneConnection'
  BY <1>2, <1>3, <1>5, <1>6, RegistersEarly DEF TableInv
<1>8. \A d \in Conn \ {c} : (Registered(d)' <=> Registered(d)) /\ (Settled(d)' <=> Settled(d))
  BY <1>3 DEF Registered, Settled
<1>9. ASSUME ~seen'.clash PROVE Orderly'
  <2>1. Orderly
    BY <1>5, <1>9 DEF TableInv
  <2>2. \A d \in Conn : step'[d] \in Entering => d = c
    BY <1>3, <1>5, <1>9 DEF Others
  <2>3. OneEnters' /\ SlotIsNext' /\ LastIsOwn'
    BY <1>2, <1>3, <1>4, <2>2 DEF OneEnters, SlotIsNext, LastIsOwn, Entering
  <2>4. KnownIsEarly'
    <3> SUFFICES ASSUME Known(owner[c]) PROVE owner[c] \in seen'.early
      BY <1>2, <1>3, <2>2 DEF KnownIsEarly, Entering, Entries, Addr, Known, Matches
    <3> DEFINE f == First(owner[c])
    <3>1. f \in Matches(owner[c]) /\ \A j \in Matches(owner[c]) : f <= j
      BY <1>1, FirstIs
    <3> HIDE DEF f
    <3>2. IsFirst(f) /\ f \in Entries /\ Addr(f) = owner[c]
      BY <3>1 DEF IsFirst, Matches, Entries, Addr
    <3>3. IsActive(f)
      <4>1. f \notin Inactive(owner[c])
        BY DEF RegisterNew
      <4> QED BY <3>1, <4>1 DEF Inactive, IsActive
    <3>4. PICK d \in Conn : owner[d] = owner[c] /\ Registered(d)
      BY <2>1, <3>2, <3>3 DEF Orderly, Watched
    <3>5. d # c /\ step[d] # "ended"
      BY <1>6, <3>4 DEF Registered, Entering, Choosing
    <3> QED BY <1>5, <3>4, <3>5 DEF Earlier, Others
  <2>5. Watched'
    <3> SUFFICES ASSUME NEW i \in Entries, IsFirst(i), IsActive(i)
                 PROVE  \E d \in Conn : owner[d] = Addr(i) /\ Registered(d)'
      BY <1>2 DEF Watched, Entries, IsFirst, IsActive, Addr
    <3> QED BY <1>6, <1>8, <2>1 DEF Orderly, Watched
  <2>6. OneEntry'
    BY <1>2, <1>5, <2>1 DEF Orderly, OneEntry, Entries, Addr
  <2>7. Counted => Counted'
    <3> SUFFICES ASSUME Counted, NEW d \in Conn, Settled(d)', owner[d] \notin seen'.early
                 PROVE  \E i \in Entries : Addr(i) = owner[d] /\ IsFirst(i) /\ IsActive(i)
      BY <1>2 DEF Counted, Entries, IsFirst, IsActive, Addr
    <3>1. d # c
      BY <1>3 DEF Settled, Choosing
    <3> QED BY <1>5, <1>8, <3>1 DEF Counted
  <2> QED BY <1>5, <2>1, <2>3, <2>4, <2>5, <2>6, <2>7 DEF Orderly, Entered
<1> QED BY <1>1, <1>7, <1>9 DEF TableInv

\* A server that is turned away.
LEMMA FullTableInv ==
  ASSUME TableInv, NEW c \in Conn, RegisterFull(c) PROVE TableInv'
<1>1. TypeInv /\ TypeInv' /\ TypeOK /\ TableOK
  BY ThreadType DEF TableInv, TypeInv, TypeOK, Thread
<1>2. UNCHANGED <<storage_servers, server_count, slot, owner>>
  BY DEF RegisterFull, table, processes
<1>3. step[c] = "scan" /\ step'[c] = "backup" /\ \A d \in Conn \ {c} : step'[d] = step[d]
  BY <1>1, OthersStay DEF RegisterFull
<1>4. /\ seen.clash => seen'.clash
      /\ seen'.turned
      /\ seen'.early = seen.early \cup Earlier(c)
  BY <1>1, NotedSays DEF RegisterFull
<1>5. ~Registered(c) /\ Registered(c)'
  BY <1>3 DEF Registered, Entering, Choosing
<1>6. OneConnection'
  BY <1>2, <1>3, <1>4, <1>5, RegistersEarly DEF TableInv
<1>7. \A d \in Conn \ {c} : (Registered(d)' <=> Registered(d))
  BY <1>3 DEF Registered
<1>8. ASSUME ~seen'.clash PROVE Orderly'
  <2>1. Orderly
    BY <1>4, <1>8 DEF TableInv
  <2>2. \A d \in Conn : step'[d] \in Entering => d # c /\ step'[d] = step[d]
    BY <1>3 DEF Entering
  <2>3. OneEnters' /\ SlotIsNext' /\ LastIsOwn'
    BY <1>2, <2>1, <2>2 DEF Orderly, Entered, OneEnters, SlotIsNext, LastIsOwn, Entering, Addr
  <2>4. KnownIsEarly'
    BY <1>2, <1>4, <2>1, <2>2 DEF Orderly, Entered, KnownIsEarly, Entering, Entries, Addr
  <2>5. Watched'
    <3> SUFFICES ASSUME NEW i \in Entries, IsFirst(i), IsActive(i)
                 PROVE  \E d \in Conn : owner[d] = Addr(i) /\ Registered(d)'
      BY <1>2 DEF Watched, Entries, IsFirst, IsActive, Addr
    <3> QED BY <1>5, <1>7, <2>1 DEF Orderly, Watched
  <2>6. OneEntry'
    BY <1>2, <1>4, <2>1 DEF Orderly, OneEntry, Entries, Addr
  <2> QED BY <1>4, <2>3, <2>4, <2>5, <2>6 DEF Orderly, Entered
<1> QED BY <1>1, <1>6, <1>8 DEF TableInv

\* The new entry.
LEMMA AppendTableInv ==
  ASSUME TableInv, NEW c \in Conn, AppendEntry(c) PROVE TableInv'
<1>1. TypeInv /\ TypeInv' /\ TypeOK /\ TableOK /\ MaxServers \in Nat \ {0}
  BY ThreadType, TableAssumption DEF TableInv, TypeInv, TypeOK, Thread
<1>2. UNCHANGED <<seen, owner>>
  BY DEF AppendEntry, processes
<1>3. step[c] = "append" /\ step'[c] = "init" /\ \A d \in Conn \ {c} : step'[d] = step[d]
  BY <1>1, OthersStay DEF AppendEntry
<1>4. \A d \in Conn : (Registered(d)' <=> Registered(d)) /\ (Settled(d)' <=> Settled(d))
  BY <1>3 DEF Registered, Settled, Entering, Choosing
<1>5. OneConnection'
  BY <1>2, <1>4, ConnectionsStay DEF TableInv
<1>6. ASSUME ~seen.clash PROVE Orderly'
  <2>1. Orderly
    BY <1>6 DEF TableInv
  <2>2. slot[c] = server_count
    BY <1>3, <2>1 DEF Orderly, Entered, SlotIsNext
  <2>3. PICK n \in 1..MaxServers : n = server_count + 1 /\ server_count' = n
    <3>1. server_count + 1 \in 1..MaxServers
      BY <1>1, <1>3, <2>2 DEF TypeInv, SlotRoom, TableOK
    <3> QED BY <2>2, <3>1 DEF AppendEntry
  <2>4. Entries \subseteq 1..MaxServers /\ n \notin Entries /\ Entries' = Entries \cup {n}
    BY <1>1, <2>3 DEF Entries, TableOK
  <2>5. /\ Addr(n)' = owner[c] /\ ~IsActive(n)'
        /\ \A k \in Entries : Addr(k)' = Addr(k) /\ IsActive(k)' = IsActive(k)
    <3>1. storage_servers' = [storage_servers EXCEPT ![n] = Info(owner[c])]
      BY <2>2, <2>3 DEF AppendEntry
    <3> QED BY <1>1, <2>3, <2>4, <3>1 DEF TableOK, Info, Addr, IsActive
  <2>6. \A k \in Entries : k <= n
    BY <1>1, <2>3 DEF Entries, TableOK
  <2>7. \A k \in Entries : IsFirst(k)' <=> IsFirst(k)
    BY <2>4, <2>5, <2>6 DEF IsFirst
  <2>8. \A d \in Conn : step'[d] \in Entering => d = c
    BY <1>3, <2>1 DEF Orderly, Entered, OneEnters, Entering
  <2>9. OneEnters' /\ SlotIsNext' /\ LastIsOwn' /\ KnownIsEarly'
    BY <1>2, <1>3, <2>3, <2>5, <2>8 DEF OneEnters, SlotIsNext, LastIsOwn, KnownIsEarly, Entering
  <2>10. Watched'
    <3> SUFFICES ASSUME NEW i \in Entries, IsFirst(i), IsActive(i)
                 PROVE  \E d \in Conn : owner[d] = Addr(i) /\ Registered(d)'
      BY <1>2, <2>4, <2>5, <2>7 DEF Watched
    <3> QED BY <1>4, <2>1 DEF Orderly, Watched
  <2>11. OneEntry'
    <3>1. ASSUME NEW i \in Entries, Addr(i) = owner[c] PROVE owner[c] \in seen.early
      BY <1>3, <2>1, <3>1 DEF Orderly, Entered, KnownIsEarly
    <3> SUFFICES ASSUME NEW i \in Entries \cup {n}, NEW j \in Entries \cup {n},
                        Addr(i)' = Addr(j)', i # j
                 PROVE  Addr(i)' \in seen.early
      BY <1>2, <2>4 DEF OneEntry
    <3>2. CASE i \in Entries /\ j \in Entries
      BY <2>1, <2>5, <3>2 DEF Orderly, OneEntry
    <3>3. CASE i = n /\ j \in Entries
      BY <2>5, <3>1, <3>3
    <3>4. CASE j = n /\ i \in Entries
      BY <2>5, <3>1, <3>4
    <3> QED BY <3>2, <3>3, <3>4
  <2>12. Counted => Counted'
    <3> SUFFICES ASSUME Counted, NEW d \in Conn, Settled(d)', owner[d] \notin seen.early
                 PROVE  \E i \in Entries : Addr(i)' = owner[d] /\ IsFirst(i)' /\ IsActive(i)'
      BY <1>2, <2>4 DEF Counted
    <3>1. PICK i \in Entries : Addr(i) = owner[d] /\ IsFirst(i) /\ IsActive(i)
      BY <1>4 DEF Counted
    <3> QED BY <2>5, <2>7, <3>1
  <2> QED BY <1>2, <2>1, <2>9, <2>10, <2>11, <2>12 DEF Orderly, Entered
<1> QED BY <1>1, <1>2, <1>5, <1>6 DEF TableInv

\* The new entry becomes active.
LEMMA InitTableInv ==
  ASSUME TableInv, NEW c \in Conn, InitEntry(c) PROVE TableInv'
<1>1. TypeInv /\ TypeInv' /\ TypeOK /\ TableOK /\ MaxServers \in Nat \ {0}
  BY ThreadType, TableAssumption DEF TableInv, TypeInv, TypeOK, Thread
<1>2. UNCHANGED <<server_count, slot, seen, owner>>
  BY DEF InitEntry, processes
<1>3. step[c] = "init" /\ step'[c] = "backup" /\ \A d \in Conn \ {c} : step'[d] = step[d]
  BY <1>1, OthersStay DEF InitEntry
<1>4. \A d \in Conn : Registered(d)' <=> Registered(d)
  BY <1>3 DEF Registered, Entering, Choosing
<1>5. OneConnection'
  BY <1>2, <1>4, ConnectionsStay DEF TableInv
<1>6. ASSUME ~seen.clash PROVE Orderly'
  <2>1. Orderly
    BY <1>6 DEF TableInv
  <2>2. PICK e \in 1..MaxServers : e = server_count /\ Addr(e) = owner[c]
    BY <1>3, <2>1 DEF Orderly, Entered, LastIsOwn
  <2>3. Entries \subseteq 1..MaxServers /\ e \in Entries /\ Entries' = Entries
    BY <1>1, <1>2, <2>2 DEF Entries, TableOK
  <2>4. /\ \A k \in Entries : Addr(k)' = Addr(k)
        /\ IsActive(e)'
        /\ \A k \in Entries \ {e} : IsActive(k)' = IsActive(k)
    BY <1>1, <2>2, <2>3 DEF InitEntry, TableOK, Entry, Addr, IsActive
  <2>5. \A k \in Entries : IsFirst(k)' <=> IsFirst(k)
    BY <2>3, <2>4 DEF IsFirst
  <2>6. \A d \in Conn : step'[d] \notin Entering
    BY <1>3, <2>1 DEF Orderly, Entered, OneEnters, Entering
  <2>7. OneEnters' /\ SlotIsNext' /\ LastIsOwn' /\ KnownIsEarly'
    BY <2>6 DEF OneEnters, SlotIsNext, LastIsOwn, KnownIsEarly, Entering
  <2>8. Watched'
    <3> SUFFICES ASSUME NEW i \in Entries, IsFirst(i), IsActive(i)'
                 PROVE  \E d \in Conn : owner[d] = Addr(i) /\ Registered(d)'
      BY <1>2, <2>3, <2>4, <2>5 DEF Watched
    <3>1. CASE i = e
      BY <1>3, <1>4, <2>2, <3>1 DEF Registered, Entering
    <3>2. CASE i # e
      BY <1>4, <2>1, <2>4, <3>2 DEF Orderly, Watched
    <3> QED BY <3>1, <3>2
  <2>9. OneEntry'
    BY <1>2, <2>1, <2>3, <2>4 DEF Orderly, OneEntry
  <2>10. Counted => Counted'
    <3> SUFFICES ASSUME Counted, NEW d \in Conn, Settled(d)', owner[d] \notin seen.early
                 PROVE  \E i \in Entries : Addr(i) = owner[d] /\ IsFirst(i) /\ IsActive(i)'
      BY <1>2, <2>3, <2>4, <2>5 DEF Counted
    <3>1. CASE d = c
      <4>1. \A j \in Entries : Addr(j) = owner[c] => j = e
        BY <2>1, <2>2, <2>3, <3>1 DEF Orderly, OneEntry
      <4>2. IsFirst(e)
        BY <1>1, <2>2, <2>3, <4>1 DEF IsFirst, Entries
      <4> QED BY <2>2, <2>3, <2>4, <3>1, <4>2
    <3>2. CASE d # c
      <4>1. Settled(d)
        BY <1>3, <3>2 DEF Settled
      <4>2. PICK i \in Entries : Addr(i) = owner[d] /\ IsFirst(i) /\ IsActive(i)
        BY <4>1 DEF Counted
      <4> QED BY <2>4, <4>2
    <3> QED BY <3>1, <3>2
  <2> QED BY <1>2, <2>1, <2>7, <2>8, <2>9, <2>10 DEF Orderly, Entered
<1> QED BY <1>1, <1>2, <1>5, <1>6 DEF TableInv

\* A connection's end: the first entry of its server is marked.
LEMMA MarkTableInv ==
  ASSUME TableInv, NEW c \in Conn, Hangup(c) \/ Timeout(c) PROVE TableInv'
<1> USE DEF Hangup, Timeout
<1>1. TypeInv /\ TypeInv' /\ TypeOK /\ TableOK /\ MaxServers \in Nat \ {0}
  BY ThreadType, TableAssumption DEF TableInv, TypeInv, TypeOK, Thread
<1>2. UNCHANGED <<server_count, slot, seen, owner>>
  BY DEF MarkInactive, processes
<1>3. step[c] = "listen" /\ step'[c] = "ended" /\ \A d \in Conn \ {c} : step'[d] = step[d]
  BY <1>1, OthersStay DEF MarkInactive
<1>4. ~Registered(c)' /\ Registered(c)
  BY <1>3 DEF Registered, Entering, Choosing
<1>5. \A d \in Conn \ {c} : (Registered(d)' <=> Registered(d)) /\ (Settled(d)' <=> Settled(d))
  BY <1>3 DEF Registered, Settled
<1>6. OneConnection'
  BY <1>2, <1>4, <1>5, ConnectionsStay DEF TableInv
<1>7. Entries \subseteq 1..MaxServers /\ Entries' = Entries
  BY <1>1, <1>2 DEF Entries, TableOK
<1>8. /\ \A k \in Entries : Addr(k)' = Addr(k)
      /\ \A k \in Entries : IsActive(k)' => IsActive(k)
      /\ \A k \in Entries : Addr(k) # owner[c] => IsActive(k)' = IsActive(k)
      /\ \A k \in Entries : IsFirst(k) /\ Addr(k) = owner[c] => ~IsActive(k)'
  <2>1. CASE Known(owner[c])
    <3>1. PICK f \in Matches(owner[c]) :
            (\A j \in Matches(owner[c]) : f <= j) /\ SetActive(f, FALSE)
      BY <1>1, <2>1, FirstIs DEF MarkInactive
    <3>3. f \in Entries /\ Addr(f) = owner[c] /\ \A j \in Entries : Addr(j) = owner[c] => f <= j
      BY <3>1 DEF Matches, Entries, Addr
    <3>4. /\ \A k \in Entries : Addr(k)' = Addr(k)
          /\ ~IsActive(f)' /\ \A k \in Entries \ {f} : IsActive(k)' = IsActive(k)
      BY <1>1, <1>7, <3>1, <3>3 DEF SetActive, TableOK, Entry, Addr, IsActive
    <3>5. \A k \in Entries : IsFirst(k) /\ Addr(k) = owner[c] => k = f
      BY <1>1, <1>7, <3>3 DEF IsFirst
    <3> QED BY <3>3, <3>4, <3>5
  <2>2. CASE ~Known(owner[c])
    <3>1. storage_servers' = storage_servers
      BY <2>2 DEF MarkInactive
    <3>2. \A k \in Entries : Addr(k) # owner[c]
      BY <2>2 DEF Known, Matches, Entries, Addr
    <3> QED BY <3>1, <3>2 DEF Addr, IsActive
  <2> QED BY <2>1, <2>2
<1>9. \A k \in Entries : IsFirst(k)' <=> IsFirst(k)
  BY <1>7, <1>8 DEF IsFirst
<1>10. ASSUME ~seen.clash PROVE Orderly'
  <2>1. Orderly
    BY <1>10 DEF TableInv
  <2>2. \A d \in Conn : step'[d] \in Entering => d # c /\ step'[d] = step[d]
    BY <1>3 DEF Entering
  <2>3. OneEnters' /\ SlotIsNext'
    BY <1>2, <2>1, <2>2 DEF Orderly, Entered, OneEnters, SlotIsNext, Entering
  <2>4. LastIsOwn'
    <3>1. \A d \in Conn : step'[d] = "init" => server_count \in Entries
      BY <1>1, <2>1, <2>2 DEF Orderly, Entered, LastIsOwn, Entering, Entries, TableOK
    <3> QED BY <1>2, <1>8, <2>1, <2>2, <3>1 DEF Orderly, Entered, LastIsOwn, Entering
  <2>5. KnownIsEarly'
    BY <1>2, <1>7, <1>8, <2>1, <2>2 DEF Orderly, Entered, KnownIsEarly, Entering
  <2>6. Watched'
    <3> SUFFICES ASSUME NEW i \in Entries, IsFirst(i), IsActive(i)'
                 PROVE  \E d \in Conn : owner[d] = Addr(i) /\ Registered(d)'
      BY <1>2, <1>7, <1>8, <1>9 DEF Watched
    <3>1. Addr(i) # owner[c] /\ IsActive(i)
      BY <1>8
    <3>2. PICK d \in Conn : owner[d] = Addr(i) /\ Registered(d)
      BY <2>1, <3>1 DEF Orderly, Watched
    <3> QED BY <1>5, <3>1, <3>2
  <2>7. OneEntry'
    BY <1>2, <1>7, <1>8, <2>1 DEF Orderly, OneEntry
  <2>8. Counted => Counted'
    <3> SUFFICES ASSUME Counted, NEW d \in Conn, Settled(d)', owner[d] \notin seen.early
                 PROVE  \E i \in Entries : Addr(i) = owner[d] /\ IsFirst(i) /\ IsActive(i)'
      BY <1>2, <1>7, <1>8, <1>9 DEF Counted
    <3>1. d # c
      BY <1>3 DEF Settled, Choosing
    <3>2. Settled(d) /\ Registered(d)
      BY <1>5, <3>1 DEF Settled, Registered
    <3>3. owner[d] # owner[c]
      BY <1>4, <3>1, <3>2 DEF TableInv, OneConnection
    <3>4. PICK i \in Entries : Addr(i) = owner[d] /\ IsFirst(i) /\ IsActive(i)
      BY <3>2 DEF Counted
    <3> QED BY <1>8, <3>3, <3>4
  <2> QED BY <1>2, <2>1, <2>3, <2>4, <2>5, <2>6, <2>7, <2>8 DEF Orderly, Entered
<1> QED BY <1>1, <1>2, <1>6, <1>10 DEF TableInv

-----------------------------------------------------------------------------
(* What follows for every reachable state.                                 *)
LEMMA TableHolds == Spec => []TableInv
<1>1. TableInv /\ [Next]_vars => TableInv'
  <2> SUFFICES ASSUME TableInv, [Next]_vars PROVE TableInv'
    OBVIOUS
  <2>1. CASE UNCHANGED vars
    <3>1. UNCHANGED <<storage_servers, server_count, running, owner, step, slot, seen>>
      BY <2>1 DEF vars, table
    <3>2. TypeInv'
      BY <3>1 DEF TableInv, TypeInv, TypeOK, TableOK, SlotRoom, ThirdRoom, Owned
    <3>3. OneConnection'
      BY <3>1 DEF TableInv, OneConnection, Registered
    <3>4. ~seen.clash => Entered'
      BY <3>1 DEF TableInv, Orderly, Entered, OneEnters, SlotIsNext, LastIsOwn, KnownIsEarly,
        Entries, Addr
    <3>5. ~seen.clash => Watched' /\ OneEntry'
      BY <3>1 DEF TableInv, Orderly, Watched, OneEntry, Entries, Addr, IsFirst, IsActive, Registered
    <3>6. Counted => Counted'
      BY <3>1 DEF Counted, Entries, Addr, IsFirst, IsActive, Settled
    <3> QED BY <3>1, <3>2, <3>3, <3>4, <3>5, <3>6 DEF TableInv, Orderly
  <2>2. ASSUME NEW c \in Conn, Thread(c) \/ Timeout(c) PROVE TableInv'
    BY <2>2, KnownTableInv, NewTableInv, FullTableInv, AppendTableInv, InitTableInv,
       BackupTableInv, MarkTableInv DEF Thread, Timeout, Hangup
  <2> QED BY <2>1, <2>2, ServerTableInv DEF Next
<1> QED BY InitTable, <1>1, PTL DEF Spec

\* A server has a second entry only if it came back before the thread of its
\* earlier connection had marked the first, or two threads entered at once
\* (naming_server.c:1198-1205).
THEOREM OneEntryEach == Spec => []OneEntryUnlessEarly
<1>1. TableInv => OneEntryUnlessEarly
  BY DEF TableInv, Orderly, OneEntry, OneEntryUnlessEarly, Entries, Addr
<1> QED BY TableHolds, <1>1, PTL

\* A server that check_active_server takes for active has a connection whose
\* thread will mark it, unless two threads entered at once
\* (naming_server.c:1405-1416).
THEOREM ActiveWatched == Spec => []ActiveIsWatched
<1>1. ASSUME TableInv PROVE ActiveIsWatched
  <2> SUFFICES ASSUME NEW s \in Server, check_active_server(s), ~seen.clash
               PROVE  \E c \in Conn : owner[c] = s /\ step[c] \notin {"scan", "ended"}
    BY DEF ActiveIsWatched
  <2>1. First(s) \in Matches(s) /\ \A j \in Matches(s) : First(s) <= j
    BY <1>1, FirstIs DEF check_active_server, TableInv, TypeInv
  <2>2. First(s) \in Entries /\ Addr(First(s)) = s /\ IsFirst(First(s)) /\ IsActive(First(s))
    BY <2>1 DEF check_active_server, Matches, Entries, Addr, IsFirst, IsActive
  <2>3. PICK c \in Conn : owner[c] = s /\ Registered(c)
    BY <1>1, <2>2 DEF TableInv, Orderly, Watched
  <2> QED BY <2>3 DEF Registered, Entering, Choosing
<1> QED BY TableHolds, <1>1, PTL

\* A server that is listened to counts as active, unless it came back early,
\* was turned away or entered as another did (naming_server.c:1198-1242).
THEOREM ListenedActive == Spec => []ListenedToIsActive
<1>1. ASSUME TableInv PROVE ListenedToIsActive
  <2> SUFFICES ASSUME NEW c \in Conn, step[c] = "listen", ~seen.clash, ~seen.turned,
                      owner[c] \notin seen.early
               PROVE  check_active_server(owner[c])
    BY DEF ListenedToIsActive
  <2>1. PICK i \in Entries : Addr(i) = owner[c] /\ IsFirst(i) /\ IsActive(i)
    BY <1>1 DEF TableInv, Orderly, Counted, Settled
  <2>2. i \in Matches(owner[c]) /\ Known(owner[c])
    BY <2>1 DEF Matches, Known, Entries, Addr
  <2>3. First(owner[c]) \in Matches(owner[c]) /\ \A j \in Matches(owner[c]) : First(owner[c]) <= j
    BY <1>1, <2>2, FirstIs DEF TableInv, TypeInv
  <2>4. First(owner[c]) = i
    <3> DEFINE f == First(owner[c])
    <3>1. f \in Entries /\ Addr(f) = owner[c] /\ f <= i
      BY <2>2, <2>3 DEF Matches, Entries, Addr
    <3> HIDE DEF f
    <3>2. i <= f
      BY <2>1, <3>1 DEF IsFirst
    <3>3. i \in Int /\ f \in Int
      BY <1>1, <2>1, <3>1, TableAssumption DEF Entries, TableInv, TypeInv, TypeOK, TableOK
    <3>4. f = i
      BY <3>1, <3>2, <3>3
    <3> QED BY <3>4 DEF f
  <2> QED BY <2>1, <2>2, <2>4 DEF check_active_server, IsActive
<1> QED BY TableHolds, <1>1, PTL

-----------------------------------------------------------------------------
(* The backups.  What follows holds as long as registrations do not        *)
(* overlap and nobody is turned away: then one thread at a time has to do  *)
(* with the table, and whatever it gives backups to had none before.       *)
Backups(i) == storage_servers[i].backup
Bare(i)    == Backups(i) = NoBackups
AtTable    == Entering \cup Choosing

OneAtTable == \A c, d \in Conn : step[c] \in AtTable /\ step[d] \in AtTable => c = d

\* No entry has backups before the third, nor what is behind the last; the last
\* has none while its thread is at the table, the first two none until the third
\* server's thread gives them theirs, one after the other.
UnusedBare == \A i \in 1..MaxServers : server_count < 3 \/ server_count < i => Bare(i)
LastBare   ==
  \A c \in Conn : step[c] \in {"init"} \cup Choosing => server_count \in 1..MaxServers /\ Bare(server_count)
FirstBare  == \A c \in Conn : step[c] \in {"init", "backup"} /\ server_count = 3 => Bare(1) /\ Bare(2)
SecondBare == \A c \in Conn : step[c] = "backup2" => server_count = 3 /\ Bare(2)

EntriesOwned == \A i \in Entries : Addr(i) \in Server

TwoOthers(i) ==
  /\ Addr(i) \notin {Backups(i)[1], Backups(i)[2]}
  /\ Backups(i)[1] = Backups(i)[2] => Backups(i)[1] = NoServer

Choice ==
  /\ OneAtTable /\ UnusedBare /\ LastBare /\ FirstBare /\ SecondBare
  /\ EntriesOwned
  /\ seen.early = {} => \A i \in Entries : TwoOthers(i)

ClashOverlaps == seen.clash => seen.overlap

ChoiceInv ==
  /\ TableInv
  /\ ClashOverlaps
  /\ ~seen.overlap /\ ~seen.turned => Choice

\* Backups are lost only where there are none.
Kept == \A i \in 1..MaxServers : Backups(i)' = Backups(i) \/ Bare(i)

\* The table and what is known of it where Choice holds.
LEMMA ChoiceBasis ==
  ASSUME ChoiceInv, ~seen.overlap, ~seen.turned
  PROVE  /\ TypeInv /\ TypeOK /\ TableOK /\ Orderly /\ Choice /\ ~seen.clash
         /\ MaxServers \in Nat \ {0} /\ server_count \in 0..MaxServers
BY TableAssumption DEF ChoiceInv, ClashOverlaps, TableInv, TypeInv, TypeOK, TableOK

\* Before finds an entry before the one it is asked about, or none.
LEMMA BeforeIsLess ==
  ASSUME TypeOK, NEW n \in 0..MaxServers PROVE Before(n) = 0 \/ (Before(n) \in 1..MaxServers /\ Before(n) < n)
<1> DEFINE active == {i \in 1..(n - 1) : storage_servers[i].is_active}
<1>1. CASE active = {}
  BY <1>1 DEF Before
<1>2. CASE active # {}
  <2>1. active \in SUBSET (1..MaxServers)
    BY TableAssumption
  <2>2. \E i \in active : \A j \in active : j <= i
    BY <1>2, <2>1, TableAssumption, GreatestNat
  <2>3. Before(n) \in active
    BY <1>2, <2>2 DEF Before
  <2> QED BY <2>1, <2>3, TableAssumption
<1> QED BY <1>1, <1>2

\* What the choice of backups does to an entry that has none, and to the others.
LEMMA ChosenSets ==
  ASSUME TypeOK, NEW i \in 1..MaxServers, NEW p \in 0..MaxServers, NEW q \in 0..MaxServers,
         Chosen(i, <<p, q>>), Bare(i)
  PROVE  /\ \A k \in (1..MaxServers) \ {i} : Backups(k)' = Backups(k)
         /\ Backups(i)'[1] = NoServer \/ (p # 0 /\ Backups(i)'[1] = Addr(p))
         /\ Backups(i)'[2] = NoServer \/ (q # 0 /\ Backups(i)'[2] = Addr(q))
<1> DEFINE e == storage_servers[i]
           B == [n \in 1..2 |-> IF <<p, q>>[n] # 0 /\ storage_servers[<<p, q>>[n]].is_active
                                THEN storage_servers[<<p, q>>[n]].address ELSE e.backup[n]]
<1>1. storage_servers \in [1..MaxServers -> Entry]
  BY DEF TypeOK, TableOK
<1>2. storage_servers' = [storage_servers EXCEPT ![i].backup = B]
  BY DEF Chosen
<1>3. e.backup[1] = NoServer /\ e.backup[2] = NoServer
  BY DEF Bare, Backups, NoBackups
<1>4. B[1] = NoServer \/ (p # 0 /\ B[1] = Addr(p))
  BY <1>3 DEF Addr
<1>5. B[2] = NoServer \/ (q # 0 /\ B[2] = Addr(q))
  BY <1>3 DEF Addr
<1> HIDE DEF B
<1>6. Backups(i)' = B
  BY <1>1, <1>2 DEF Backups, Entry
<1>7. \A k \in (1..MaxServers) \ {i} : Backups(k)' = Backups(k)
  BY <1>1, <1>2 DEF Backups
<1> QED BY <1>4, <1>5, <1>6, <1>7

\* Two different other entries make two different other servers.
LEMMA ChosenOthers ==
  ASSUME ChoiceInv, ~seen.overlap, ~seen.turned,
         NEW i \in Entries, NEW p \in 0..server_count, NEW q \in 0..server_count,
         p # i, q # i, p = q => p = 0,
         Chosen(i, <<p, q>>), Bare(i), UNCHANGED <<server_count, seen>>
  PROVE  /\ Kept /\ EntriesOwned'
         /\ \A k \in (1..MaxServers) \ {i} : Bare(k) => Bare(k)'
         /\ seen'.early = {} => \A k \in Entries' : TwoOthers(k)'
<1>1. TypeOK /\ TableOK /\ Orderly /\ Choice /\ MaxServers \in Nat \ {0} /\ server_count \in 0..MaxServers
  BY ChoiceBasis
<1>2. Entries \subseteq 1..MaxServers /\ Entries' = Entries /\ i \in 1..MaxServers
  BY <1>1 DEF Entries
<1>3. p \in 0..MaxServers /\ q \in 0..MaxServers
  BY <1>1
<1>4. \A k \in 1..MaxServers : Addr(k)' = Addr(k)
  BY <1>1, <1>2, <1>3, ChosenKeeps DEF Addr
<1>5. /\ \A k \in (1..MaxServers) \ {i} : Backups(k)' = Backups(k)
      /\ Backups(i)'[1] = NoServer \/ (p # 0 /\ Backups(i)'[1] = Addr(p))
      /\ Backups(i)'[2] = NoServer \/ (q # 0 /\ Backups(i)'[2] = Addr(q))
  BY <1>1, <1>2, <1>3, ChosenSets
<1>6. Kept
  BY <1>5 DEF Kept
<1>7. EntriesOwned'
  BY <1>1, <1>2, <1>4 DEF Choice, EntriesOwned
<1>8. ASSUME seen.early = {}, NEW k \in Entries PROVE TwoOthers(k)'
  <2>1. CASE k # i
    <3>1. Backups(k)' = Backups(k) /\ Addr(k)' = Addr(k) /\ TwoOthers(k)
      BY <1>1, <1>2, <1>4, <1>5, <1>8, <2>1 DEF Choice
    <3> QED BY <3>1 DEF TwoOthers
  <2>2. CASE k = i
    <3>1. \A m, n \in Entries : Addr(m) = Addr(n) => m = n
      BY <1>1, <1>8 DEF Orderly, OneEntry
    <3>2. \A m \in Entries : Addr(m) # NoServer
      BY <1>1, TableAssumption DEF Choice, EntriesOwned
    <3>3. (p # 0 => p \in Entries) /\ (q # 0 => q \in Entries)
      BY <1>1 DEF Entries
    <3>4. Addr(i)' # Backups(i)'[1] /\ Addr(i)' # Backups(i)'[2]
      BY <1>2, <1>4, <1>5, <3>1, <3>2, <3>3
    <3>5. Backups(i)'[1] = Backups(i)'[2] => Backups(i)'[1] = NoServer
      BY <1>5, <3>1, <3>2, <3>3
    <3> QED BY <2>2, <3>4, <3>5 DEF TwoOthers
  <2> QED BY <2>1, <2>2
<1> QED BY <1>2, <1>5, <1>6, <1>7, <1>8 DEF Bare

\* Nothing is lost where neither the entries nor their number change and no
\* thread comes to the table.
LEMMA ChoiceStays ==
  ASSUME ChoiceInv, ~seen.overlap, ~seen.turned, server_count' = server_count,
         \A k \in 1..MaxServers : Addr(k)' = Addr(k) /\ Backups(k)' = Backups(k),
         seen.early \subseteq seen'.early, OneAtTable',
         \A d \in Conn : step'[d] \in {"init"} \cup Choosing =>
           \/ step'[d] = step[d]
           \/ step[d] = "init" /\ step'[d] = "backup"
           \/ step[d] \in Choosing /\ step'[d] = "backup3"
  PROVE  Choice' /\ Kept
<1>1. TypeOK /\ TableOK /\ Choice /\ MaxServers \in Nat \ {0} /\ server_count \in 0..MaxServers
  BY ChoiceBasis
<1>2. Entries \subseteq 1..MaxServers /\ Entries' = Entries
  BY <1>1 DEF Entries
<1>3. \A k \in 1..MaxServers : (Bare(k)' <=> Bare(k)) /\ (TwoOthers(k)' <=> TwoOthers(k))
  BY DEF Bare, TwoOthers
<1>4. UnusedBare'
  BY <1>1, <1>3 DEF Choice, UnusedBare
<1>5. LastBare'
  BY <1>1, <1>3 DEF Choice, LastBare, Choosing
<1>6. FirstBare'
  <2> SUFFICES ASSUME NEW d \in Conn, step'[d] \in {"init", "backup"}, server_count = 3
               PROVE  Bare(1)' /\ Bare(2)'
    BY DEF FirstBare
  <2>1. Bare(1) /\ Bare(2)
    BY <1>1 DEF Choice, FirstBare, Choosing
  <2> QED BY <1>1, <1>3, <2>1
<1>7. SecondBare'
  <2> SUFFICES ASSUME NEW d \in Conn, step'[d] = "backup2" PROVE server_count = 3 /\ Bare(2)'
    BY DEF SecondBare
  <2>1. server_count = 3 /\ Bare(2)
    BY <1>1 DEF Choice, SecondBare, Choosing
  <2> QED BY <1>1, <1>3, <2>1
<1>8. EntriesOwned' /\ (seen'.early = {} => \A i \in Entries' : TwoOthers(i)')
  BY <1>1, <1>2, <1>3 DEF Choice, EntriesOwned
<1> QED BY <1>4, <1>5, <1>6, <1>7, <1>8 DEF Choice, Kept

\* The third server's coming, and every later one's.
LEMMA BackupChoice ==
  ASSUME ChoiceInv, ~seen.overlap, ~seen.turned, NEW c \in Conn,
         BackupFirst(c) \/ BackupSecond(c) \/ BackupLast(c)
  PROVE  Choice' /\ Kept
<1>1. /\ TypeOK /\ TableOK /\ Orderly /\ Choice /\ MaxServers \in Nat \ {0}
      /\ server_count \in 0..MaxServers
  BY ChoiceBasis
<1>2. UNCHANGED <<server_count, seen>>
  BY DEF BackupFirst, BackupSecond, BackupLast, table
<1>3. PICK from \in Choosing, to \in Choosing \cup {"listen"} :
        /\ step[c] = from /\ step'[c] = to /\ \A d \in Conn \ {c} : step'[d] = step[d]
        /\ \/ from = "backup" /\ to = "backup2" /\ server_count = 3 /\ Chosen(1, <<2, 3>>)
           \/ to \in {"backup3", "listen"} /\ storage_servers' = storage_servers
           \/ from = "backup2" /\ to = "backup3" /\ Chosen(2, <<1, 3>>)
           \/ /\ to = "listen" /\ server_count >= 3
              /\ Chosen(server_count, <<Before(server_count), Before(Before(server_count))>>)
  <2>1. CASE BackupFirst(c)
    BY <1>1, <2>1, OthersStay DEF BackupFirst, Choosing, table
  <2>2. CASE BackupSecond(c)
    BY <1>1, <2>2, OthersStay DEF BackupSecond, Choosing
  <2>3. CASE BackupLast(c)
    BY <1>1, <2>3, OthersStay DEF BackupLast, Choosing
  <2> QED BY <2>1, <2>2, <2>3
<1>4. \A d \in Conn \ {c} : step'[d] \notin AtTable
  BY <1>1, <1>3 DEF Choice, OneAtTable, AtTable
<1>5. OneAtTable'
  BY <1>4 DEF OneAtTable
<1>6. LastBare /\ UnusedBare /\ FirstBare /\ SecondBare
  BY <1>1 DEF Choice
<1>7. CASE to \in {"backup3", "listen"} /\ storage_servers' = storage_servers
  <2>1. \A d \in Conn : step'[d] \in {"init"} \cup Choosing => step'[d] = "backup3" /\ step[d] \in Choosing
    BY <1>3, <1>4, <1>7 DEF AtTable, Entering, Choosing
  <2>2. \A k \in 1..MaxServers : Addr(k)' = Addr(k) /\ Backups(k)' = Backups(k)
    BY <1>7 DEF Addr, Backups
  <2> QED BY <1>2, <1>5, <2>1, <2>2, ChoiceStays
<1>8. CASE from = "backup" /\ to = "backup2" /\ server_count = 3 /\ Chosen(1, <<2, 3>>)
  <2>1. Bare(1) /\ Bare(2) /\ Bare(3)
    BY <1>3, <1>6, <1>8 DEF LastBare, FirstBare, Choosing
  <2>2. 1 \in Entries /\ 2 \in 0..server_count /\ 3 \in 0..server_count /\ 2 \in 1..MaxServers /\ 3 \in 1..MaxServers
    BY <1>1, <1>8 DEF Entries
  <2>3. /\ Kept /\ EntriesOwned' /\ \A k \in (1..MaxServers) \ {1} : Bare(k) => Bare(k)'
        /\ seen'.early = {} => \A k \in Entries' : TwoOthers(k)'
    BY <1>2, <1>8, <2>1, <2>2, ChosenOthers
  <2>4. LastBare' /\ FirstBare' /\ SecondBare'
    BY <1>2, <1>3, <1>4, <1>8, <2>1, <2>2, <2>3 DEF LastBare, FirstBare, SecondBare, AtTable, Entering, Choosing
  <2>5. UnusedBare'
    BY <1>1, <1>2, <1>6, <1>8, <2>3 DEF UnusedBare
  <2> QED BY <1>5, <2>3, <2>4, <2>5 DEF Choice
<1>9. CASE from = "backup2" /\ to = "backup3" /\ Chosen(2, <<1, 3>>)
  <2>1. server_count = 3 /\ Bare(2) /\ Bare(3)
    BY <1>3, <1>6, <1>9 DEF LastBare, SecondBare, Choosing
  <2>2. 2 \in Entries /\ 1 \in 0..server_count /\ 3 \in 0..server_count /\ 3 \in 1..MaxServers
    BY <1>1, <2>1 DEF Entries
  <2>3. /\ Kept /\ EntriesOwned' /\ \A k \in (1..MaxServers) \ {2} : Bare(k) => Bare(k)'
        /\ seen'.early = {} => \A k \in Entries' : TwoOthers(k)'
    BY <1>2, <1>9, <2>1, <2>2, ChosenOthers
  <2>4. LastBare' /\ FirstBare' /\ SecondBare'
    BY <1>2, <1>3, <1>4, <1>9, <2>1, <2>2, <2>3 DEF LastBare, FirstBare, SecondBare, AtTable, Entering, Choosing
  <2>5. UnusedBare'
    BY <1>1, <1>2, <1>6, <2>1, <2>3 DEF UnusedBare
  <2> QED BY <1>5, <2>3, <2>4, <2>5 DEF Choice
<1>10. CASE /\ to = "listen" /\ server_count >= 3
            /\ Chosen(server_count, <<Before(server_count), Before(Before(server_count))>>)
  <2> DEFINE p == Before(server_count)
             q == Before(Before(server_count))
  <2>1. Bare(server_count) /\ server_count \in Entries
    BY <1>1, <1>3, <1>6, <1>10 DEF LastBare, Choosing, Entries
  <2>2. p = 0 \/ (p \in 1..MaxServers /\ p < server_count)
    BY <1>1, BeforeIsLess
  <2>3. p \in 0..MaxServers
    BY <1>1, <2>2
  <2>4. q = 0 \/ (q \in 1..MaxServers /\ q < p)
    BY <1>1, <2>3, BeforeIsLess
  <2> HIDE DEF p, q
  <2>5. p \in 0..server_count /\ q \in 0..server_count /\ p # server_count /\ q # server_count /\ (p = q => p = 0)
    BY <1>1, <1>10, <2>2, <2>3, <2>4
  <2>6. Chosen(server_count, <<p, q>>)
    BY <1>10 DEF p, q
  <2>7. /\ Kept /\ EntriesOwned' /\ \A k \in (1..MaxServers) \ {server_count} : Bare(k) => Bare(k)'
        /\ seen'.early = {} => \A k \in Entries' : TwoOthers(k)'
    BY <1>2, <2>1, <2>5, <2>6, ChosenOthers
  <2>8. LastBare' /\ FirstBare' /\ SecondBare'
    BY <1>3, <1>4, <1>10 DEF LastBare, FirstBare, SecondBare, AtTable, Entering, Choosing
  <2>9. UnusedBare'
    BY <1>1, <1>2, <1>6, <1>10, <2>7 DEF UnusedBare
  <2> QED BY <1>5, <2>7, <2>8, <2>9 DEF Choice
<1> QED BY <1>3, <1>7, <1>8, <1>9, <1>10

\* What a server's asking for an entry puts on record of overlaps.
LEMMA NotedOverlap ==
  ASSUME TypeOK, NEW c \in Conn, NEW full \in BOOLEAN, Noted(c, full)
  PROVE  /\ seen.overlap => seen'.overlap
         /\ (\E d \in Others(c) : step[d] \in AtTable) => seen'.overlap
         /\ ClashOverlaps => ClashOverlaps'
         /\ seen.turned => seen'.turned
<1>1. seen \in History
  BY DEF TypeOK
<1>2. DOMAIN seen = {"clash", "overlap", "turned", "early"}
  BY <1>1 DEF History
<1> QED BY <1>1, <1>2 DEF Noted, History, AtTable, ClashOverlaps

\* A server that is to have the next entry comes to the table alone.
LEMMA NewChoice ==
  ASSUME ChoiceInv, NEW c \in Conn, RegisterNew(c), ~seen'.overlap, ~seen'.turned
  PROVE  Choice' /\ Kept
<1>1. TypeOK
  BY DEF ChoiceInv, TableInv, TypeInv
<1>2. ~seen.overlap /\ ~seen.turned /\ \A d \in Others(c) : step[d] \notin AtTable
  BY <1>1, NotedOverlap DEF RegisterNew
<1>3. step[c] = "scan" /\ step'[c] = "append" /\ \A d \in Conn \ {c} : step'[d] = step[d]
  BY <1>1, OthersStay DEF RegisterNew
<1>4. seen.early \subseteq seen'.early
  BY <1>1, NotedSays DEF RegisterNew
<1>5. OneAtTable'
  BY <1>2, <1>3 DEF OneAtTable, Others
<1>6. \A d \in Conn : step'[d] \in {"init"} \cup Choosing => step'[d] = step[d]
  BY <1>3 DEF Choosing
<1>7. UNCHANGED <<storage_servers, server_count>>
  BY DEF RegisterNew, table
<1> QED BY <1>2, <1>4, <1>5, <1>6, <1>7, ChoiceStays DEF Addr, Backups

\* The new entry has no backups, and it is the third or later where some have.
LEMMA AppendChoice ==
  ASSUME ChoiceInv, ~seen.overlap, ~seen.turned, NEW c \in Conn, AppendEntry(c)
  PROVE  Choice' /\ Kept
<1>1. /\ TypeInv /\ TypeOK /\ TableOK /\ Orderly /\ Choice /\ MaxServers \in Nat \ {0}
      /\ server_count \in 0..MaxServers
  BY ChoiceBasis
<1>2. step[c] = "append" /\ step'[c] = "init" /\ \A d \in Conn \ {c} : step'[d] = step[d]
  BY <1>1, OthersStay DEF AppendEntry
<1>3. slot[c] = server_count
  BY <1>1, <1>2 DEF Orderly, Entered, SlotIsNext
<1>4. PICK n \in 1..MaxServers : n = server_count + 1 /\ server_count' = n
  <2>1. server_count + 1 \in 1..MaxServers
    BY <1>1, <1>2, <1>3 DEF TypeInv, SlotRoom
  <2> QED BY <1>3, <2>1 DEF AppendEntry
<1>5. owner[c] \in Server
  BY <1>1, <1>2, OwnerIsServer
<1>6. /\ Addr(n)' = owner[c] /\ Bare(n)'
      /\ \A k \in (1..MaxServers) \ {n} : Addr(k)' = Addr(k) /\ Backups(k)' = Backups(k)
  <2>1. storage_servers' = [storage_servers EXCEPT ![n] = Info(owner[c])]
    BY <1>3, <1>4 DEF AppendEntry
  <2> QED BY <1>1, <1>4, <2>1 DEF TableOK, Info, Addr, Bare, Backups
<1>7. Entries \subseteq 1..MaxServers /\ n \notin Entries /\ Entries' = Entries \cup {n}
  BY <1>1, <1>4 DEF Entries
<1>8. \A d \in Conn : step'[d] \in AtTable => d = c
  BY <1>1, <1>2 DEF Choice, OneAtTable, AtTable, Entering
<1>9. OneAtTable'
  BY <1>8 DEF OneAtTable
<1>10. \A k \in (1..MaxServers) \ {n} : Bare(k) => Bare(k)'
  BY <1>6 DEF Bare
<1>11. UnusedBare /\ Bare(n)
  BY <1>1, <1>4 DEF Choice, UnusedBare
<1>12. UnusedBare'
  BY <1>1, <1>4, <1>6, <1>10, <1>11 DEF UnusedBare
<1>13. LastBare' /\ SecondBare'
  BY <1>2, <1>4, <1>6, <1>8 DEF LastBare, SecondBare, AtTable, Entering, Choosing
<1>14. FirstBare'
  <2> SUFFICES ASSUME n = 3 PROVE Bare(1)' /\ Bare(2)'
    BY <1>4 DEF FirstBare
  <2>1. server_count < 3 /\ 1 \in (1..MaxServers) \ {n} /\ 2 \in (1..MaxServers) \ {n}
    BY <1>1, <1>4
  <2> QED BY <1>10, <1>11, <2>1 DEF UnusedBare
<1>15. EntriesOwned'
  <2>1. \A k \in Entries : Addr(k)' \in Server
    BY <1>1, <1>6, <1>7 DEF Choice, EntriesOwned
  <2> QED BY <1>5, <1>6, <1>7, <2>1 DEF EntriesOwned
<1>16. ASSUME seen'.early = {} PROVE \A k \in Entries' : TwoOthers(k)'
  <2>1. UNCHANGED seen
    BY DEF AppendEntry
  <2>2. \A k \in Entries : TwoOthers(k)'
    BY <1>1, <1>6, <1>7, <1>16, <2>1 DEF Choice, TwoOthers
  <2>3. TwoOthers(n)'
    BY <1>5, <1>6, TableAssumption DEF TwoOthers, Bare, NoBackups
  <2> QED BY <1>7, <2>2, <2>3
<1>17. Kept
  BY <1>6, <1>11 DEF Kept
<1> QED BY <1>9, <1>12, <1>13, <1>14, <1>15, <1>16, <1>17 DEF Choice

\* The new entry becomes active; its backups are cleared, and there were none.
LEMMA InitChoice ==
  ASSUME ChoiceInv, ~seen.overlap, ~seen.turned, NEW c \in Conn, InitEntry(c)
  PROVE  Choice' /\ Kept
<1>1. TypeOK /\ TableOK /\ Choice /\ MaxServers \in Nat \ {0} /\ server_count \in 0..MaxServers
  BY ChoiceBasis
<1>2. step[c] = "init" /\ step'[c] = "backup" /\ \A d \in Conn \ {c} : step'[d] = step[d]
  BY <1>1, OthersStay DEF InitEntry
<1>3. UNCHANGED <<server_count, seen>>
  BY DEF InitEntry
<1>4. server_count \in 1..MaxServers /\ Bare(server_count)
  BY <1>1, <1>2 DEF Choice, LastBare
<1>5. \A k \in 1..MaxServers : Addr(k)' = Addr(k) /\ Backups(k)' = Backups(k)
  BY <1>1, <1>4 DEF InitEntry, TableOK, Entry, Addr, Backups, Bare
<1>6. \A d \in Conn \ {c} : step[d] \notin AtTable
  BY <1>1, <1>2 DEF Choice, OneAtTable, AtTable, Entering
<1>7. OneAtTable'
  BY <1>2, <1>6 DEF OneAtTable
<1> QED BY <1>2, <1>3, <1>5, <1>7, ChoiceStays

\* A server's own steps, its return to its entry and the end of a connection.
LEMMA QuietChoice ==
  ASSUME ChoiceInv, ~seen.overlap, ~seen.turned,
         \/ \E s \in Server : Start(s) \/ Crash(s) \/ Sigpipe(s)
         \/ \E c \in Conn : RegisterKnown(c) \/ MarkInactive(c)
         \/ UNCHANGED vars
  PROVE  Choice' /\ Kept
<1>1. TypeOK /\ TableOK /\ Choice /\ MaxServers \in Nat \ {0} /\ server_count \in 0..MaxServers
  BY ChoiceBasis
<1>2. server_count' = server_count
  BY DEF Start, Crash, Sigpipe, RegisterKnown, MarkInactive, vars, table
<1>3. \A d \in Conn : step'[d] = step[d] \/ step'[d] \in {"scan", "listen", "ended"}
  BY <1>1 DEF Start, Crash, Sigpipe, RegisterKnown, MarkInactive, vars, Step, TypeOK
<1>4. OneAtTable'
  <2>1. \A d \in Conn : step'[d] \in AtTable => step[d] \in AtTable
    BY <1>3 DEF AtTable, Entering, Choosing
  <2> QED BY <1>1, <2>1 DEF Choice, OneAtTable
<1>5. \A d \in Conn : step'[d] \in {"init"} \cup Choosing => step'[d] = step[d]
  BY <1>3 DEF Choosing
<1>6. seen.early \subseteq seen'.early
  <2>1. CASE \E c \in Conn : RegisterKnown(c)
    BY <1>1, <2>1 DEF RegisterKnown, TypeOK, History
  <2>2. CASE UNCHANGED seen
    BY <2>2
  <2> QED BY <2>1, <2>2 DEF Start, Crash, Sigpipe, MarkInactive, vars
<1>7. \A k \in 1..MaxServers : Addr(k)' = Addr(k) /\ Backups(k)' = Backups(k)
  <2>1. ASSUME NEW i \in 1..MaxServers, NEW v, SetActive(i, v)
        PROVE  \A k \in 1..MaxServers : Addr(k)' = Addr(k) /\ Backups(k)' = Backups(k)
    BY <1>1, <2>1 DEF SetActive, TableOK, Entry, Addr, Backups
  <2>2. CASE UNCHANGED storage_servers
    BY <2>2 DEF Addr, Backups
  <2>3. ASSUME NEW c \in Conn, RegisterKnown(c) PROVE \E i \in 1..MaxServers : SetActive(i, TRUE)
    <3>1. PICK i \in Inactive(owner[c]) : SetActive(i, TRUE)
      BY <2>3 DEF RegisterKnown
    <3>2. i \in 1..MaxServers
      BY <1>1 DEF Inactive, Matches
    <3> QED BY <3>1, <3>2
  <2>4. ASSUME NEW c \in Conn, MarkInactive(c)
        PROVE  UNCHANGED storage_servers \/ \E i \in 1..MaxServers : SetActive(i, FALSE)
    <3>1. Known(owner[c]) => First(owner[c]) \in 1..MaxServers
      BY <1>1, FirstIs DEF Matches
    <3> QED BY <2>4, <3>1 DEF MarkInactive
  <2> QED BY <2>1, <2>2, <2>3, <2>4 DEF Start, Crash, Sigpipe, vars, table
<1> QED BY <1>2, <1>4, <1>5, <1>6, <1>7, ChoiceStays

\* What each step does to the record of overlaps.
LEMMA RecordGrows ==
  ASSUME TypeOK, [Next]_vars
  PROVE  /\ seen.overlap => seen'.overlap
         /\ seen.turned => seen'.turned
         /\ ClashOverlaps => ClashOverlaps'
<1>1. seen \in History
  BY DEF TypeOK
<1>2. CASE \E c \in Conn : RegisterNew(c) \/ RegisterFull(c)
  BY <1>2, NotedOverlap DEF RegisterNew, RegisterFull
<1>3. CASE \E c \in Conn : RegisterKnown(c)
  BY <1>1, <1>3 DEF RegisterKnown, History, ClashOverlaps
<1>4. CASE UNCHANGED seen
  BY <1>4 DEF ClashOverlaps
<1> QED
  BY <1>2, <1>3, <1>4 DEF Next, Thread, Timeout, Hangup, Start, Crash, Sigpipe, AppendEntry, InitEntry,
    BackupFirst, BackupSecond, BackupLast, MarkInactive, vars

\* Each step keeps the order of things, and the backups.
LEMMA ChoiceStep ==
  ASSUME ChoiceInv, [Next]_vars
  PROVE  /\ ~seen'.overlap /\ ~seen'.turned => Choice'
         /\ ~seen.overlap /\ ~seen.turned => Kept
<1>1. (seen.overlap => seen'.overlap) /\ (seen.turned => seen'.turned)
  BY RecordGrows DEF ChoiceInv, TableInv, TypeInv
<1>2. CASE ~(seen.overlap \/ seen.turned)
  <2>1. ASSUME NEW c \in Conn, RegisterNew(c)
        PROVE  /\ ~seen'.overlap /\ ~seen'.turned => Choice'
               /\ Kept
    BY <2>1, NewChoice DEF RegisterNew, table, Kept, Backups
  <2>2. ASSUME NEW c \in Conn, RegisterFull(c) PROVE seen'.turned /\ Kept
    <3>1. seen'.turned
      BY <2>2, NotedSays DEF RegisterFull, ChoiceInv, TableInv, TypeInv
    <3> QED BY <2>2, <3>1 DEF RegisterFull, table, Kept, Backups
  <2>3. ASSUME NEW c \in Conn, Thread(c) \/ Timeout(c)
        PROVE  /\ ~seen'.overlap /\ ~seen'.turned => Choice'
               /\ Kept
    BY <1>2, <2>1, <2>2, <2>3, AppendChoice, InitChoice, BackupChoice, QuietChoice
      DEF Thread, Timeout, Hangup
  <2> QED BY <1>2, <2>3, QuietChoice DEF Next
<1> QED BY <1>1, <1>2

LEMMA ChoiceHolds == Spec => []ChoiceInv
<1>1. Init => ChoiceInv
  <2>1. Init => TableInv
    BY InitTable
  <2>2. Init => Choice /\ ClashOverlaps
    BY TableAssumption DEF Init, TableInit, Choice, OneAtTable, UnusedBare, LastBare, FirstBare,
      SecondBare, EntriesOwned, Entries, Bare, Backups, Info, AtTable, Entering, Choosing, ClashOverlaps
  <2> QED BY <2>1, <2>2 DEF ChoiceInv
<1>2. ChoiceInv /\ TableInv' /\ [Next]_vars => ChoiceInv'
  BY ChoiceStep, RecordGrows DEF ChoiceInv, TableInv, TypeInv
<1> QED BY TableHolds, <1>1, <1>2, PTL DEF Spec

\* No server is its own backup, nor a backup twice over, as long as
\* registrations do not overlap, nobody is turned away and no server comes back
\* early (naming_server.c:1244-1375).
THEOREM BackupsDiffer == Spec => []BackupsAreOthers
<1>1. ChoiceInv => BackupsAreOthers
  BY DEF ChoiceInv, Choice, TwoOthers, BackupsAreOthers, Entries, Addr, Backups
<1> QED BY ChoiceHolds, <1>1, PTL

\* A backup once chosen stays, as long as registrations do not overlap and
\* nobody is turned away (naming_server.c:1244-1375).
THEOREM BackupsRemain == Spec => BackupsStay
<1> DEFINE Stays ==
      \A i \in 1..MaxServers, n \in 1..2 :
        ~seen.overlap /\ ~seen.turned /\ storage_servers[i].backup[n] # NoServer
          => storage_servers'[i].backup[n] = storage_servers[i].backup[n]
<1>1. ChoiceInv /\ [Next]_vars => Stays
  <2> SUFFICES ASSUME ChoiceInv, [Next]_vars, NEW i \in 1..MaxServers, NEW n \in 1..2,
                      ~seen.overlap, ~seen.turned, Backups(i)[n] # NoServer
               PROVE  Backups(i)'[n] = Backups(i)[n]
    BY DEF Backups
  <2>1. Kept
    BY ChoiceStep
  <2>2. ~Bare(i)
    BY DEF Bare, NoBackups
  <2> QED BY <2>1, <2>2 DEF Kept
<1>2. BackupsStay <=> [][Stays]_vars
  BY DEF BackupsStay
<1> HIDE DEF Stays
<1> QED BY ChoiceHolds, <1>1, <1>2, PTL DEF Spec
=============================================================================
