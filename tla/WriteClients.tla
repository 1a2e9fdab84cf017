---------------------------- MODULE WriteClients ----------------------------
(***************************************************************************)
(* How the naming server learns of the end of a WRITE without --sync       *)
(* (write_clients and write_client_count of naming_server/naming_server.c). *)
(* The handler of the WRITE makes an entry and polls; the thread of a      *)
(* storage server's report, or of the end of its heartbeats, sets the      *)
(* status of entries.  Nothing keeps the threads apart, and every handler  *)
(* polls the entry that was made last.                                     *)
(*                                                                         *)
(* Each file has a storage server of its own.                              *)
(***************************************************************************)
EXTENDS Integers, Sequences, FiniteSets

CONSTANTS
  Client,
  File,        \* the paths clients write to
  NoFile,      \* the path of an entry that was never made
  Recorded,    \* the path in the FILEINFO of each: after the COPY of a folder, the source's
  MaxEntries   \* MAX_CONNECTIONS

ASSUME EntriesAssumption ==
  /\ IsFiniteSet(Client)
  /\ NoFile \notin File
  /\ Recorded \in [File -> File]
  /\ MaxEntries \in Nat \ {0}

VARIABLES
  write_clients,
  write_client_count,
  handler,   \* what the thread of a client does next
  target,    \* the file of its WRITE
  pending,   \* writes a storage server works on or has yet to report
  held,      \* writes a storage server waits for the data of
  lost,      \* the servers that have gone (named by their file)
  noticed,   \* those whose connection the naming server has given up
  reported,  \* history: the clients whose WRITE has been reported
  crossed,   \* history: those whose WRITE another one got in the way of
  missed     \* history: those whose report found another entry, or none yet

entries == <<write_clients, write_client_count>>
crosses == <<reported, crossed, missed>>
writes  == <<entries, target, pending, held, lost, noticed, crosses>>

\* The array and what lies behind it in the build: the counter, under the address
\* of the first entry past the end, and then nothing.
Places == 1..(MaxEntries + Cardinality(Client))

WriteEntry ==
  [server : File \cup {NoFile}, file : File \cup {NoFile}, status : 0..2, active : BOOLEAN]

WritesInit ==
  /\ write_clients =
       [i \in Places |-> [server |-> NoFile, file |-> NoFile, status |-> 0, active |-> FALSE]]
  /\ write_client_count = 0
  /\ handler = [c \in Client |-> "read"]
  /\ target = [c \in Client |-> NoFile]
  /\ pending = {} /\ held = {}
  /\ lost = {} /\ noticed = {}
  /\ reported = {} /\ crossed = {} /\ missed = {}

Server == {Recorded[f] : f \in File}

Made == {i \in Places : i <= write_client_count}

Storing == {"address", "path", "enter"}
AtWrite == {"check", "poll"} \cup Storing

\* Others at their WRITE when c stores.
Beside(c) == {d \in Client \ {c} : handler[d] \in AtWrite}

-----------------------------------------------------------------------------
(* The handler of a WRITE.                                                 *)

\* The address has been sent.  A write of the same path may still be going on.
Begin(c, f) ==
  /\ handler' = [handler EXCEPT ![c] = "check"]
  /\ target' = [target EXCEPT ![c] = f]
  /\ reported' = reported \ {c}
  /\ missed' = missed \ {c}
  /\ crossed' = IF \E d \in Client : <<d, f>> \in pending \cup held
                THEN crossed \cup {c} ELSE crossed \ {c}
  /\ UNCHANGED <<entries, pending, held, lost, noticed>>

\* Mutation: the last place is not the last.
CheckPast(c) ==
  /\ handler[c] = "check"
  /\ write_client_count <= MaxEntries
  /\ handler' = [handler EXCEPT ![c] = "address"]
  /\ UNCHANGED writes

\* Is there room?
Check(c) ==
  /\ handler[c] = "check"
  /\ write_client_count < MaxEntries
  /\ handler' = [handler EXCEPT ![c] = "address"]
  /\ UNCHANGED writes

\* Without room the handler returns and says nothing.
CheckFull(c) ==
  /\ handler[c] = "check"
  /\ write_client_count >= MaxEntries
  /\ handler' = [handler EXCEPT ![c] = "read"]
  /\ UNCHANGED writes

\* Stores into the entry that is next at that moment.
Store(c, from, to, entry) ==
  /\ handler[c] = from
  /\ handler' = [handler EXCEPT ![c] = to]
  /\ write_clients' = [write_clients EXCEPT ![write_client_count + 1] = entry]
  /\ crossed' = crossed \cup Beside(c)
  /\ UNCHANGED <<write_client_count, target, pending, held, lost, noticed, reported, missed>>

Fresh == write_clients[write_client_count + 1]

Address(c) ==
  /\ write_client_count # MaxEntries
  /\ Store(c, "address", "path", [Fresh EXCEPT !.server = Recorded[target[c]]])

\* The address goes over the counter: the next entry is nowhere in memory.
Overrun(c) == handler[c] = "address" /\ write_client_count = MaxEntries

Path(c) ==
  Store(c, "path", "enter", [Fresh EXCEPT !.file = target[c], !.status = 0, !.active = TRUE])

\* The entry is counted.
Enter(c) ==
  /\ handler[c] = "enter"
  /\ handler' = [handler EXCEPT ![c] = "poll"]
  /\ write_client_count' = write_client_count + 1
  /\ crossed' = crossed \cup Beside(c)
  /\ UNCHANGED <<write_clients, target, pending, held, lost, noticed, reported, missed>>

\* Mutation: any entry will do.
PollCompletedAny(c) ==
  /\ handler[c] = "poll"
  /\ \E i \in Made : write_clients[i].status = 1
  /\ handler' = [handler EXCEPT ![c] = "read"]
  /\ UNCHANGED writes

Last == write_clients[write_client_count]

\* Status 1 of the last entry ends the polling, and that entry.
PollCompleted(c) ==
  /\ handler[c] = "poll"
  /\ Last.status = 1
  /\ handler' = [handler EXCEPT ![c] = "read"]
  /\ write_clients' = [write_clients EXCEPT ![write_client_count].active = FALSE]
  /\ UNCHANGED <<write_client_count, target, pending, held, lost, noticed, crosses>>

\* Status 2 of it does not.
PollFailed(c) ==
  /\ handler[c] = "poll"
  /\ Last.status = 2
  /\ UNCHANGED <<handler, writes>>

-----------------------------------------------------------------------------
(* The client and the storage servers.                                     *)

\* The client gives its data for f to the storage server, or gives it none.
Give(c, f, data) ==
  /\ IF data THEN pending' = pending \cup {<<c, f>>} /\ UNCHANGED held
             ELSE held' = held \cup {<<c, f>>} /\ UNCHANGED pending
  /\ crossed' = crossed \cup {d \in Client \ {c} : handler[d] \in AtWrite /\ target[d] = f}
  /\ UNCHANGED <<entries, target, lost, noticed, reported, missed>>

\* It hangs up: its storage server waits no more, and writes nothing.
Release(c) ==
  /\ pending' = pending \cup {w \in held : w[1] = c}
  /\ held' = {w \in held : w[1] # c}
  /\ UNCHANGED <<entries, target, lost, noticed, crosses>>

Open(f) == {i \in Made : write_clients[i].file = f /\ write_clients[i].active}

\* Mutation: the search stops short of the last entry.
CreditShort(f) ==
  LET open == Open(f) \ {write_client_count}
  IN  write_clients' = [i \in DOMAIN write_clients |->
        IF i \in open /\ \A j \in open : i <= j
        THEN [write_clients[i] EXCEPT !.status = 1] ELSE write_clients[i]]

\* The end of a write of f goes to the first active entry with that path.
Credit(f) ==
  write_clients' = [i \in DOMAIN write_clients |->
    IF i \in Open(f) /\ \A j \in Open(f) : i <= j
    THEN [write_clients[i] EXCEPT !.status = 1] ELSE write_clients[i]]

Report(c, f) ==
  /\ <<c, f>> \in pending
  /\ f \notin lost
  /\ pending' = pending \ {<<c, f>>}
  /\ Credit(f)
  /\ reported' = reported \cup {c}
  /\ missed' = IF handler[c] # "poll" \/ Open(f) \ {write_client_count} # {}
               THEN missed \cup {c} ELSE missed
  /\ UNCHANGED <<write_client_count, handler, target, held, lost, noticed, crossed>>

Lose(f) ==
  /\ f \notin lost
  /\ lost' = lost \cup {f}
  /\ pending' = {w \in pending : w[2] # f}
  /\ held' = {w \in held : w[2] # f}
  /\ UNCHANGED <<entries, handler, target, noticed, crosses>>

\* Every active entry of a server that has gone fails, reported or not.
Notice(f) ==
  /\ f \in lost \ noticed
  /\ noticed' = noticed \cup {f}
  /\ write_clients' = [i \in DOMAIN write_clients |->
       IF i \in Made /\ write_clients[i].server = f /\ write_clients[i].active
       THEN [write_clients[i] EXCEPT !.status = 2] ELSE write_clients[i]]
  /\ UNCHANGED <<write_client_count, handler, target, pending, held, lost, crosses>>

-----------------------------------------------------------------------------
WritesOK ==
  /\ write_clients \in [Places -> WriteEntry]
  /\ write_client_count \in 0..(MaxEntries + Cardinality(Client) - 1)
  /\ handler \in [Client -> AtWrite \cup {"read", "ended"}]
  /\ target \in [Client -> File \cup {NoFile}]
  /\ pending \subseteq Client \X File
  /\ held \subseteq Client \X File
  /\ lost \subseteq File
  /\ noticed \subseteq lost
  /\ reported \subseteq Client
  /\ crossed \subseteq Client
  /\ missed \subseteq Client
=============================================================================
