------------------------------ MODULE Registry ------------------------------
(***************************************************************************)
(* How storage servers come and go (handle_storage_server of               *)
(* naming_server/naming_server.c, start_storage_server of                  *)
(* storage_server/storage_server.c).  A storage server registers over a    *)
(* connection and then sends heartbeats over it.  Each connection has a    *)
(* thread in the naming server, which enters the server into the table,    *)
(* chooses its backups, listens, and marks the server inactive when        *)
(* nothing is heard any more.  From the third server on each has backups.  *)
(*                                                                         *)
(* A server may go down at any moment and come back; its old connection's  *)
(* thread hears of that when it gets to it.                                *)
(***************************************************************************)
EXTENDS ServerTable

CONSTANTS
  Frail,      \* the servers that may go down, or not be heard for too long
  MaxStarts,  \* bound on how often servers are started, all together
  MaxBusy     \* bound on how many registrations are under way at once

ASSUME StartsAssumption == Frail \subseteq Server /\ MaxStarts \in Nat /\ MaxBusy \in Nat

\* The connections in the order they are made, one for each start of a server.
Conn == 1..MaxStarts

VARIABLES
  running,  \* the connection of a server that is up, 0 when it is down
  owner,    \* the server a connection comes from
  step,     \* what the thread of each connection does next
  slot,     \* server_count as it read it
  seen      \* history, below

vars == <<table, running, owner, step, slot, seen>>

\* clash: two threads were between reading server_count and setting up the
\* entry at once.  overlap: the same, until the backups were chosen.  turned:
\* a server was turned away.  early: servers that registered anew while the
\* thread of an earlier connection was still there.
History == [clash : BOOLEAN, overlap : BOOLEAN, turned : BOOLEAN, early : SUBSET Server]

Init ==
  /\ TableInit
  /\ running = [s \in Server |-> 0]
  /\ owner = [c \in Conn |-> NoServer]
  /\ step = [c \in Conn |-> "unused"]
  /\ slot = [c \in Conn |-> 0]
  /\ seen = [clash |-> FALSE, overlap |-> FALSE, turned |-> FALSE, early |-> {}]

Entering == {"append", "init"}
Choosing == {"backup", "backup2", "backup3"}
Over     == {"unused", "ended"}

Step(c, from, to) == step[c] = from /\ step' = [step EXCEPT ![c] = to]

processes == <<running, owner>>

Busy   == {c \in Conn : step[c] \in {"scan"} \cup Entering \cup Choosing}
Unused == {c \in Conn : step[c] = "unused"}

-----------------------------------------------------------------------------
(* The storage server.                                                     *)
Start(s) ==
  /\ running[s] = 0
  /\ Cardinality(Busy) < MaxBusy
  /\ \E c \in Unused :
       /\ \A d \in Unused : c <= d
       /\ running' = [running EXCEPT ![s] = c]
       /\ owner' = [owner EXCEPT ![c] = s]
       /\ Step(c, "unused", "scan")
  /\ UNCHANGED <<table, slot, seen>>

Crash(s) ==
  /\ running[s] # 0 /\ s \in Frail
  /\ running' = [running EXCEPT ![s] = 0]
  /\ UNCHANGED <<table, owner, step, slot, seen>>

\* A heartbeat on a connection the naming server has closed kills the sender.
Sigpipe(s) ==
  /\ running[s] # 0
  /\ step[running[s]] = "ended"
  /\ running' = [running EXCEPT ![s] = 0]
  /\ UNCHANGED <<table, owner, step, slot, seen>>

-----------------------------------------------------------------------------
(* The naming server's thread for a connection.                            *)

\* History: who else is there as a server asks for an entry?
Others(c)  == Conn \ {c}
Earlier(c) == {s \in {owner[c]} : \E d \in Others(c) : owner[d] = s /\ step[d] # "ended"}

Noted(c, full) ==
  seen' = [seen EXCEPT
    !.clash   = @ \/ (~full /\ \E d \in Others(c) : step[d] \in Entering),
    !.overlap = @ \/ \E d \in Others(c) : step[d] \in Entering \cup Choosing,
    !.turned  = @ \/ full,
    !.early   = @ \cup Earlier(c)]

Inactive(s) == {i \in Matches(s) : ~storage_servers[i].is_active}

\* Mutation: the entry stays inactive.
RegisterKnownIdle(c) ==
  /\ Inactive(owner[c]) # {}
  /\ Step(c, "scan", "listen")
  /\ seen' = [seen EXCEPT !.early = @ \cup Earlier(c)]
  /\ UNCHANGED <<table, slot, processes>>

\* Mutation: backups are chosen for a server that returns as for a new one.
RegisterKnownAnew(c) ==
  LET found == Inactive(owner[c])
  IN  /\ Step(c, "scan", "backup")
      /\ \E i \in found : (\A j \in found : i <= j) /\ SetActive(i, TRUE)
      /\ seen' = [seen EXCEPT !.early = @ \cup Earlier(c)]
      /\ UNCHANGED <<server_count, slot, processes>>

\* A server that has an entry marked inactive takes it up again (what it
\* missed is sent to it first, see Replication).
RegisterKnown(c) ==
  LET found == Inactive(owner[c])
  IN  /\ Step(c, "scan", "listen")
      /\ \E i \in found : (\A j \in found : i <= j) /\ SetActive(i, TRUE)
      /\ seen' = [seen EXCEPT !.early = @ \cup Earlier(c)]
      /\ UNCHANGED <<server_count, slot, processes>>

\* Mutation: nobody looks for an entry the server has.
RegisterNewTwice(c) ==
  /\ server_count < MaxServers
  /\ Step(c, "scan", "append")
  /\ slot' = [slot EXCEPT ![c] = server_count]
  /\ Noted(c, FALSE)
  /\ UNCHANGED <<table, processes>>

\* Mutation: nobody looks whether there is room.
RegisterNewPast(c) ==
  /\ Inactive(owner[c]) = {}
  /\ Step(c, "scan", "append")
  /\ slot' = [slot EXCEPT ![c] = server_count]
  /\ Noted(c, FALSE)
  /\ UNCHANGED <<table, processes>>

\* A server without such an entry is to have the next one.
RegisterNew(c) ==
  /\ Inactive(owner[c]) = {}
  /\ server_count < MaxServers
  /\ Step(c, "scan", "append")
  /\ slot' = [slot EXCEPT ![c] = server_count]
  /\ Noted(c, FALSE)
  /\ UNCHANGED <<table, processes>>

\* There is no room, but backups are chosen all the same.
RegisterFull(c) ==
  /\ Inactive(owner[c]) = {}
  /\ server_count = MaxServers
  /\ Step(c, "scan", "backup")
  /\ Noted(c, TRUE)
  /\ UNCHANGED <<table, slot, processes>>

AppendEntry(c) ==
  /\ Step(c, "append", "init")
  /\ storage_servers' = [storage_servers EXCEPT ![slot[c] + 1] = Info(owner[c])]
  /\ server_count' = slot[c] + 1
  /\ slot' = [slot EXCEPT ![c] = 0]
  /\ UNCHANGED <<seen, processes>>

\* The last entry, whosever it is by now, is marked active.
InitEntry(c) ==
  /\ Step(c, "init", "backup")
  /\ storage_servers' = [storage_servers EXCEPT
                           ![server_count].is_active = TRUE,
                           ![server_count].backup = NoBackups]
  /\ UNCHANGED <<server_count, slot, seen, processes>>

\* The n-th backup of entry i is given an active server's address, or stays.
Chosen(i, dest) ==
  storage_servers' = [storage_servers EXCEPT ![i].backup =
    [n \in 1..2 |-> IF dest[n] # 0 /\ storage_servers[dest[n]].is_active
                    THEN storage_servers[dest[n]].address ELSE @[n]]]

\* The third server's coming gives the first two their backups.
BackupFirst(c) ==
  \/ /\ server_count = 3
     /\ Step(c, "backup", "backup2")
     /\ Chosen(1, <<2, 3>>)
     /\ UNCHANGED <<server_count, slot, seen, processes>>
  \/ /\ server_count # 3
     /\ Step(c, "backup", "backup3")
     /\ UNCHANGED <<table, slot, seen, processes>>

BackupSecond(c) ==
  /\ Step(c, "backup2", "backup3")
  /\ Chosen(2, <<1, 3>>)
  /\ UNCHANGED <<server_count, slot, seen, processes>>

\* The last active entry before position n, 0 where there is none.
Before(n) ==
  LET active == {i \in 1..(n - 1) : storage_servers[i].is_active}
  IN  IF active = {} THEN 0 ELSE CHOOSE i \in active : \A j \in active : j <= i

\* Mutation: the search begins with the server's own entry.
BackupLastOwn(c) ==
  LET n == server_count
  IN  /\ Step(c, "backup3", "listen")
      /\ \/ n >= 3 /\ Chosen(n, <<Before(n + 1), Before(Before(n + 1))>>)
         \/ n < 3 /\ UNCHANGED storage_servers
      /\ UNCHANGED <<server_count, slot, seen, processes>>

BackupLast(c) ==
  LET n == server_count
  IN  /\ Step(c, "backup3", "listen")
      /\ \/ n >= 3 /\ Chosen(n, <<Before(n), Before(Before(n))>>)
         \/ n < 3 /\ UNCHANGED storage_servers
      /\ UNCHANGED <<server_count, slot, seen, processes>>

\* Mutation: the search stops short of the last entry.
MarkInactiveShort(c) ==
  /\ Step(c, "listen", "ended")
  /\ IF Known(owner[c]) /\ First(owner[c]) < server_count
     THEN SetActive(First(owner[c]), FALSE) ELSE UNCHANGED storage_servers
  /\ UNCHANGED <<server_count, slot, seen, processes>>

\* The connection has ended: the first entry with the address is marked.
MarkInactive(c) ==
  /\ Step(c, "listen", "ended")
  /\ IF Known(owner[c]) THEN SetActive(First(owner[c]), FALSE) ELSE UNCHANGED storage_servers
  /\ UNCHANGED <<server_count, slot, seen, processes>>

\* Is the server that made this connection still there?
Alive(c) == \E s \in Server : running[s] = c

\* recv returns as the server's end is closed ...
Hangup(c) == ~Alive(c) /\ MarkInactive(c)

\* ... or after ten seconds without a heartbeat from a server that still runs.
Timeout(c) == Alive(c) /\ owner[c] \in Frail /\ MarkInactive(c)

Thread(c) ==
  \/ RegisterKnown(c) \/ RegisterNew(c) \/ RegisterFull(c)
  \/ AppendEntry(c) \/ InitEntry(c)
  \/ BackupFirst(c) \/ BackupSecond(c) \/ BackupLast(c)
  \/ Hangup(c)

Next ==
  \/ \E s \in Server : Start(s) \/ Crash(s) \/ Sigpipe(s)
  \/ \E c \in Conn : Thread(c) \/ Timeout(c)

Spec == Init /\ [][Next]_vars

\* Threads are scheduled, and recv returns once the connection is gone; a
\* server on a dead connection sends on.
Fairness ==
  /\ \A c \in Conn : WF_vars(Thread(c))
  /\ \A s \in Server : WF_vars(Sigpipe(s))

FairSpec == Spec /\ Fairness

-----------------------------------------------------------------------------
TypeOK ==
  /\ TableOK
  /\ running \in [Server -> 0..MaxStarts]
  /\ owner \in [Conn -> Address]
  /\ step \in [Conn -> Over \cup Entering \cup Choosing \cup {"scan", "listen"}]
  /\ slot \in [Conn -> 0..MaxServers]
  /\ seen \in History

\* A server has a second entry only if it registered anew before the thread of
\* an earlier connection had marked the first inactive
\* (naming_server.c:1198-1205), or where two threads set up their entries at
\* once: whoever looks a server up looks at the first.
OneEntryUnlessEarly ==
  \A i, j \in 1..server_count :
    storage_servers[i].address = storage_servers[j].address /\ i # j
      => storage_servers[i].address \in seen.early \/ seen.clash

\* check_active_server never says yes for a server whose connections are all
\* over: someone is left who will mark it inactive (naming_server.c:1405-1416).
\* Two threads that set up their entries at once may break this.
ActiveIsWatched ==
  \A s \in Server :
    check_active_server(s) /\ ~seen.clash =>
      \E c \in Conn : owner[c] = s /\ step[c] \notin {"scan", "ended"}

\* A server that is up and listened to counts as active, unless it came back
\* early, was turned away or met another at the table.
ListenedToIsActive ==
  \A c \in Conn :
    step[c] = "listen" /\ ~seen.clash /\ ~seen.turned /\ owner[c] \notin seen.early
      => check_active_server(owner[c])

\* No server is its own backup, nor a backup twice over, as long as
\* registrations do not overlap, nobody is turned away and no server comes back
\* early (naming_server.c:1244-1375).
BackupsAreOthers ==
  ~seen.overlap /\ ~seen.turned /\ seen.early = {} =>
    \A i \in 1..server_count :
      LET e == storage_servers[i]
      IN  /\ e.address \notin {e.backup[1], e.backup[2]}
          /\ e.backup[1] = e.backup[2] => e.backup[1] = NoServer

\* A backup once chosen stays (the commands are queued and the data copied for
\* it), as long as registrations do not overlap and nobody is turned away.
BackupsStay ==
  [][\A i \in 1..MaxServers, n \in 1..2 :
       ~seen.overlap /\ ~seen.turned /\ storage_servers[i].backup[n] # NoServer
         => storage_servers'[i].backup[n] = storage_servers[i].backup[n]]_vars

\* A server that is down is at last taken for inactive, or is up again
\* (naming_server.c:1395-1416).
GoneIsNoticed ==
  \A s \in Server :
    running[s] = 0 ~> ~check_active_server(s) \/ running[s] # 0 \/ seen.clash
=============================================================================
