# A networked file system, modelled in TLA+

The program under `src/nfs_project/` is a small networked file system in C: one
*naming server* that knows which *storage server* has which path, storage
servers that keep the files, and a *client* program. This directory holds its
TLA+ models, the TLC configurations that check them and the proofs of what holds
for every instance. Paths below are relative to `src/nfs_project/`.

## 1. The system

| Part | Code | State it keeps | Operations |
|---|---|---|---|
| Storage server: file manager | `storage_server/file_manager.c` | `files_being_accessed` (mutex `lock`), `files_being_read` (mutex `lock2`), their counters, the disk | READ, WRITE with and without `--sync`, COPY_FILE, Backup, CREATE, DELETE, INFO, unpacking of folders |
| Storage server: requests | `storage_server/storage_server.c` | a thread per connection, the registration | `handle_client_request`, `handle_nm_request`, `handle_ss_request`, registration, heartbeat every 5 s |
| Naming server: path index | `naming_server/naming_utils.c` | the trie, the array `cache` of `CACHE_SIZE` entries, `cache_count`; no lock | find, add, remove, update, delete, copy a subtree, list |
| Naming server: commands | `naming_server/naming_server.c` 97-1125 | a thread per client, pointers into the index | READ, WRITE, INFO, STREAM, CREATE, DELETE, COPY, LIST |
| Naming server: registry | same, 85-96, 1128-1425 | `storage_servers[MAX_CONNECTIONS]`, `server_count`, `is_active`, backups, a queue of commands per server | register, reconnect and replay, heartbeat timeout after 10 s, choice of backups from the third server on |
| Naming server: write clients | same, 375-408, 1418-1441 | `write_clients[10]`, `write_client_count`; no lock | wait for the end of a write without `--sync` |
| Replication | same, 195-349, 846-965, 1442-1544 and the handler of `Backup` | the queues of commands | forward writes, CREATE and DELETE to backups, queue, replay |
| Folder copy | `storage_server.c` 412-574, `file_manager.c` 262-358 | the working directory of the whole process | pack, send, unpack |
| Client | `clients/client.c` | one connection to the naming server, one per request to a storage server | one command at a time |

**Who talks to whom.** A client sends a command to the naming server. For READ,
WRITE, INFO and STREAM it is told an address and goes on to that storage server;
CREATE, DELETE and COPY the naming server passes on itself. A storage server
registers with its list of paths, sends heartbeats, and reports the end of a
write. There is no shared state between processes except the disk, which `COPY`
looks at directly. Within each process every connection has a thread, and the
threads share everything.

**What is hard.** In the storage server: a READ and a WRITE consult two lists
under two mutexes, and nothing joins the check to the registration. In the
naming server: there are no locks at all, lookups hand out pointers to memory
that other threads move and free, and handlers keep such pointers while they
wait for a storage server. Between the two: what is recorded in the index before,
after, or in spite of what the storage server did. The list `hazards` of
`PROJECT.json` has each one at its line.

**What makes each part correct.**

* File manager: a file that a thread reads or writes is on the list, so that
  DELETE spares it; a refusal has a reason; the lists do not fill up with names
  of nobody; readers see a file grow and nothing else; every request ends.
* Path index: a lookup finds what was recorded for that path; the cache is an
  LRU cache without duplicates and agrees with the trie.
* Commands: the client is told of the file it asked for; the index follows what
  the storage server did; every command ends.
* Registry: one entry per server, active exactly while its connection lives.
* Write clients: each waiting client is told of the end of its own write, once.
* Replication: a backup has its primary's commands, all of them, in their order.

## 2. Modules

| Module | What it is |
|---|---|
| `FileManager` | the file manager of one storage server and the requests that use it |
| `FileManagerProofs`, `FileManagerListProofs` | its types, the contents of files and what readers are sent; its lists against the threads; proved |
| `FolderCopy` | COPY of folders between storage servers, and the working directory |
| `FolderCopyProofs` | its invariants, proved |
| `LruCache` | abstract: what an LRU cache promises |
| `NamingIndex` | the trie and the cache, one operator per function, and the refinement of `LruCache` |
| `NamingServer` | the client commands on the index (EXTENDS `NamingIndex`) |
| `NamingServerProofs` | its types, its invariants and the refinement of `LruCache`, for any number of clients, proved |
| `ServerTable` | the array of storage servers and how entries are found in it |
| `Registry` | registration, heartbeats and the choice of backups (EXTENDS `ServerTable`) |
| `RegistryProofs` | its invariants, proved |
| `Replication` | what comes from a primary to its two backups |
| `ReplicationProofs`, `ReplicationCopyProofs` | its invariants, proved, in layers |
| `WriteClients` | the array of clients that wait for the end of a write |
| `ClientSession` | clients, their threads in the naming server and the connections between them (EXTENDS `WriteClients`) |
| `ClientSessionProofs` | its safety invariants, proved |
| `MCFileManager`, `MCFolderCopy`, `MCNamingServer`, `MCRegistry`, `MCReplication`, `MCClientSession` | the instances for TLC |

Operators whose comment begins with "Mutation:" are faulty variants of the
definition after them. They are part of no specification; putting one in the
place of its definition makes a property fail, which shows what the property
guards against.

Several properties hold with exceptions, and the exceptions are *history*:
variables that record that something happened and that no action reads
(`disturbed`, `raced`, `copied`, `astray`, `seen`, `after`, `queued`, `met`,
`stuck`, `hampered`, `spoiled`, `silent`, `reported`, `crossed`, `missed`). An
exception names what went wrong for this very command, path, server or client
wherever the code lets the damage stay there.

### FileManager

One action per critical section, system call or wait for the peer, in the order
of the handler: READ is `ReadCheck`, `ReadRegister`, `ReadOpen`, `ReadBlock`
(once per block), `ReadUnregister`; WRITE is `WriteCheck`, `WriteRegister`,
`WriteRecv`, `WriteOpen`, `WriteReply`, `WriteClose`, `WriteUnregister`,
`WriteReplicate`, `WriteNotify`, with `WriteAbandon` for the early returns;
DELETE is `DeleteCheckWriters`, `DeleteCheckReaders`, `DeleteStat`, then
`DeleteFile` or `DeleteDirectory`; and so on for COPY_FILE, Backup, CREATE, INFO.
Every access to a list in the code is made under that list's mutex and no section
contains another, so a section is one step. `Crash` kills the process and all of
its connections at once; what was in a stream's buffer is lost.

State: `accessed`/`numAccessed` and `reading`/`numReading` are the two lists as
bags with their counters (order in the arrays is not observable), `dirs`, `disk`
and `content` the file system as paths to inodes to contents, and per connection
`pc`, `req`, `fd` (the open inode), `loaded` (data in the stream's buffer),
`got`, `reply`, `sent`. `dropped` and `leaked` are history: connections whose name
found the list full, and that returned without taking it off.

Names are pairs of a file and `"none"` or `"--sync"`: `write_file` lists the path
with ` --sync` and takes off the path without. Abstractions: the data of a write
is one token (a block of at most 4095 bytes that stays in the stream's buffer until
`fclose`); a reader sends one token per block; directories are not nested;
`mkdir -p` does not fail; a full disk and TCP's merging of messages are left out;
a connection carries one request, so a finished instance simply stops
(`CHECK_DEADLOCK FALSE`).

### NamingIndex and NamingServer

A path is a sequence of symbols; the trie branches on characters and knows no `/`,
so `copy_directory_trie` acts on everything that *begins* like the directory. `trie`
gives each path `NoNode`, `NoInfo` or a record of a server and a path; `slots` is
the array including what is left behind its end, `count` is `cache_count`.
`copy_directory_trie` copies entries as they are, so the copies keep the source's
server and path, as in the code. `Held` and `Later`, the paths cached and which of
two is nearer the front, are what `LruCache` means by `held` and `newer`.

A lookup returns a *pointer*: to the first slot, to the node of a path, or null.
`Read` says what a thread can read through it now: the first slot whatever path
that holds by then; the node's entry; if the entry was freed, a record whose
address is garbage, or whatever was allocated there since. A handler's steps are
the lookups (a miss in the cache and the search of the trie are two steps,
`Miss` and `Find`/`CreateFind`/`CopyFindDest`), the uses of the pointer
(`Present`, `Check`, `Send`, `CreateRecord`, `DeleteUncache`, `DeleteUntrie`,
`CopyIndex`) and the waits for the storage server (`StorageCreate`,
`StorageDelete`, `StorageCopy`, `Unreachable`). COPY of a file goes by way of the
handler (`CopyCheckDest`); of an empty one it sends nothing on, and the handler
waits in `copy_wait` until the destination goes (`CopyBroken`). Registration, loss
of a connection and reconnection are `Register`, `Disconnect`, `Reconnect`.

Nothing keeps two threads apart, and so the properties of the index hold up to what
one thread can do to another. `Histories`, a conjunct of every step, remembers where
it did:

| History | Its members | Until |
|---|---|---|
| `disturbed` | threads whose pointer leads to something else by a step of another's (the first slot has changed, the node was freed or replaced), whose file another has put back into the cache before DELETE's last step, or whose file to create is there already | the command is over |
| `raced` | paths that two threads search the trie for at once, having missed them in the cache | the cache has no entry of them |
| `copied` | paths a COPY has put another's entries under | for good |
| `astray` | these, and what a disturbed CREATE recorded, or one in a directory that is astray | for good |

Every exception of a property is one of these, for the thread or the path the
property speaks of, or a step it names.

Abstractions: a call of a cache function is one step, so what two threads do
inside the loops is not seen here; the paths of
a registration enter the trie in one step; WRITE is the one with `--sync`; there
are at most two servers, since the third brings in backups (assumed by
`ServerAssumption`); the storage server's part of a request is the set of paths
on its disk and the outcomes `FileManager` has for it: CREATE of a file that is
there fails, of a directory that is there succeeds (`mkdir -p`). LIST only reads.

### ServerTable and Registry

`storage_servers` and `server_count` are the array with what is behind its end.
An entry is its server's address, `is_active` and the addresses of its backups;
`First` is the entry a search from the beginning stops at, which is the one every
loop of the naming server means. Each connection of a storage server has a thread
(`handle_storage_server`), with a program counter:

| `step` | what the thread is about to do | actions |
|---|---|---|
| `scan` | look for an inactive entry with this address | `RegisterKnown`, `RegisterNew`, `RegisterFull` |
| `append` | write the entry behind the last and count it | `AppendEntry` |
| `init` | mark *the last* entry active and clear its backups | `InitEntry` |
| `backup`, `backup2`, `backup3` | choose backups, for the first two servers when the third comes, then for the last entry | `BackupFirst`, `BackupSecond`, `BackupLast` |
| `listen` | wait for heartbeats | `Hangup`, `Timeout` |

`Start`, `Crash` and `Sigpipe` are the storage servers'. A server may go down
between any two steps and come back at once, while the thread of its earlier
connection has not noticed; a thread may time out although its server runs, whose
next heartbeat then kills it. `Frail` are the servers that may go down, or not be
heard for too long.

Abstractions: the two backups of an entry are assigned in one step; the copying
of data that goes with the choice is an ordinary folder copy (`FolderCopy`); a
server does not die between `REGISTER` and its list of paths; the paths are in
`NamingServer`.

### Replication

Server 0 is a primary and 1 and 2 are its backups, chosen already (`Registry` has
the choice). A CREATE or DELETE is at the primary first (`CheckPrimary`,
`ConnectPrimary`, `Answer` or `AnswerFail`), a WRITE is carried out there and then
reported (`Write`, `Report`, `ReportFail`). Then the handler turns to each backup:
`CheckBackup` looks at `is_active`; an active one is sent the command
(`ConnectBackup`, `ConnectBackupFail`), for an inactive one a CREATE or DELETE is
queued by `addcommand`, which is three steps without a lock (`AddRead`,
`AddStore`, `AddCount`), and a WRITE is passed over. `Perform` is the storage
server's handler. A server goes down with its requests (`Crash`), is noticed
(`MarkInactive`), and comes back (`Reconnect`): it is active at once, and only then
is its queue sent (`ReplaySend`, `ReplayEnd`, `ReplayFail`, `ReplayReset`).

`Given` are the kinds of commands that are given together, `Frail` the servers that
may go down and `Declining` those that may decline a command: a CREATE of what is
there, a DELETE of what is in use, and at a backup a WRITE whose file it cannot open
(`storage_server.c:260`), which nobody hears of. `QueueSize` is the number of places
of a queue, 1000 in the code, which no one compares `command_count` with: one command
more is stored behind the end (`AddOverrun`), over `command_count` and the next
server's entry, and the model ends there (`Torn`). `queued` remembers what was counted
since a queue was emptied.

`applied` is what each server has carried out, in order. A report whose primary
goes down before the data have been fetched makes the naming server pass on what
was in its buffer (`Garbage`). A queue may hold what was never written
(`Nothing`), where two threads added at once.

Abstractions: a command is one token; a storage server carries out or declines;
each command is given once; a server comes back only after it was marked inactive
(`Registry` has the others); what a command stored behind the end of a queue does to
the naming server's memory is not followed.

### WriteClients and ClientSession

`WriteClients` is `write_clients` and its counter, which never goes down. The
handler of a WRITE without `--sync` looks whether there is room (`Check`,
`CheckFull`), stores the server's address into the entry that is next by then
(`Address`), then the path, the status and the mark (`Path`), counts the entry
(`Enter`) and polls the status of *the last* one (`PollCompleted`, `PollFailed`).
Other handlers may count between any two of these steps, so a handler that found
the last place free may store past the array. The build has the counter there: an
address stored over it sends the next access nowhere, and the naming server is
killed (`Overrun`). `Places` has as many entries past the end as handlers can reach.

`Report` credits the end of a write to the first active entry with its path,
`Notice` gives status 2 to the entries of a server that has gone. `Recorded[f]` is the
path in the FILEINFO of `f`, by which the storage server is addressed and reports: that
of `f` itself, but the source's for a file that the COPY of a folder made, while the
entry has the path the client typed. `held` are the writes a storage server waits for
the data of: the client may send none (an empty line, `client.c:183`).

`crossed` are the clients whose WRITE another one got in the way of: another handler
stored while this one was between its check and the end of its polling, or another
write of the same path went on. `missed` are those whose report found no entry of
theirs yet, or another one.

`ClientSession` puts clients in front of it. A connection holds pieces, each marked
with the number of the command it was sent for, as the client has no means to tell.
`Asks` are the commands each client may give. `Ask` is a typed command; `Serve` and
`ServeWrite` are the answers, of which there may be none; `TakeLookup`,
`TakeAddress`, `TakeText`, `TakeList` and `TakeCopy` are what the client does with
what comes. COPY passes `strlen` of an uninitialised buffer to `recv`, so it takes
nothing, a part or all (`TakeCopy`). Status 2 makes the handler send "Write failed"
for ever (`Failed`), and sending to a client that has gone ends the naming server
with SIGPIPE (`Killed`).

Abstractions: each file has a storage server of its own; the next command is
typed after the handler has read the one before; the conversation with the storage
server is the address, whether it is still there, and whether the client has data
for it; the counting of an entry (`write_client_count++`) is one step; what a lookup
finds is a choice (`NamingServer` has it).

### FolderCopy

Each copy has a thread at its source, with the steps of `copy_from_folder` (`Save`,
`Move`, `Pack`, `PackFail`, `Return`, `Open`, `Connect`, `SendArchive`,
`SendArchiveFail`, `Remove`, `Answer`) and one at its destination (`Receive`,
`ReceiveBroken`, `Store`, `ExtractPath`, `Unpack`, `UnpackFail`, `UnpackAsk`,
`Reply`). The destination reads while the source sends. A send may fail (`Frail`):
the destination then takes a part or nothing, or asks memory for a size that never
came and crashes (`gone`). unzip may fail, and where it finds files of the copy in
place (`Taken`, or those of an earlier copy) it asks at the server's terminal and
waits; nobody looks at how it went, and `hampered` remembers it. `cwd` is the
working directory of each server, `result` the static buffer of `extract_path`,
`archive` the archives that lie about, `landed` where a copy was unpacked. All
relative paths are looked for from `cwd`: where it is not `Home`, `Move` fails,
archives are not found and nothing is stored. A copy within one server is `cp`
(`CopyLocal`).

Abstractions: a copy is asked for once; a server does not go down in the middle but
in the way just said; archives of two folders with one name are not confused; the
sleeps between the sends are left out (a read may come at any time after the send).

## 3. Runs

| Run | Instance | Checks | Result |
|---|---|---|---|
| `fm_lists` | 3 connections, 1 file and its directory, lists of 2 names; READ, WRITE, WRITE `--sync`, DELETE | `TypeOK`, `ReadersListed`, `WritersListed`, `NoSpareName`, `DeletePassesWhenIdle`, `RefusalIsJustified` | holds, 236 426 states |
| `fm_disk` | 3 connections, 1 file, all that changes a file | `ReadIsAPrefix`, `AppendedDataStays` | holds, 393 649 |
| `fm_ends` | 2 connections, 2 files, 2 directories of which one's path begins the other's, every request, fairness | `RequestEnds` | holds, 82 847 |
| `fm_confirm` | 1 file, WRITE `--sync` | `ConfirmedDataIsInFile` | violated, see below |
| `ns_pair` | 2 clients with 2 commands each, 2 servers that may go, 4 paths, cache of 2; READ, DELETE, CREATE, COPY | `TypeOK`, `AnswerNamesTheFile`, `OwnerIsHome`, `NoDuplicateEntry`, `StaleOnlyAfter`, `LookupsRefresh` | holds, 1 073 109 |
| `ns_cache` | 1 client with 5 commands, 2 servers, 5 paths, cache of 2; every command, fairness | `CommandEnds`, `CacheIsLru` (refinement) | holds, 428 213 |
| `rg_all` | 3 servers of which one goes down and comes back, 4 starts, 2 registrations at once, table of 4 | `OneEntryUnlessEarly`, `ActiveIsWatched`, `ListenedToIsActive`, `BackupsAreOthers`, `BackupsStay` | holds, 425 267 |
| `rg_live` | 2 servers, 3 starts, table of 2, fairness | `TypeOK`, `GoneIsNoticed` | holds, 128 977 |
| `rp_all` | 2 commands of different kinds or both writes, the primary and its first backup go down, twice together, either may decline, queues of 2 places | `TypeOK`, `CopiesKeepUp`, `NothingElse`, `EachOnce`, `OrderKept`, `QueueIsSent` | holds, 1 594 948 |
| `rp_full` | the same with queues of 1 place and other kinds of commands, the backup may decline | `OverrunIsEarned` | holds, 1 160 629 |
| `cs_all` | 2 clients, one with 2 commands and one with 1, 2 files of which one was made by a COPY, 2 entries, fairness | `TypeOK`, `InStep`, `RoomIsKept`, `CompletedIsOwn`, `WaitEnds` | holds, 893 396 |
| `fc_all` | 2 servers, 4 copies (2 one way, 1 back, 1 within), one may be cut or fail, one finds files in place, fairness | `TypeOK`, `CwdComesHome`, `LandsInPlace`, `CompletedLands` | holds, 1 015 552 |

**What they show.** `fm_*`: the lists cover whoever uses a file although a write
with `--sync` takes the wrong name off, DELETE and refusals are right at the moment
they are decided, readers see a file grow and nothing else, every request ends, as
long as clients read what they are sent. `ns_*`: a client is told of the file it
asks for, a path belongs to the server that has its directory, the cache has no path
twice and agrees with the trie, each wherever no other thread got in the way of this
handler or this path; and the array is an LRU cache. `rg_*`: a server has one entry
and is active while, and only while, a connection of it is there, unless it comes
back too early or two registrations meet; its backups are two others and stay; a
server that is gone is noticed. `rp_all`: a backup has what its primary has, nothing
else, once, in order; each exception is a fault that befell that command. `rp_full`:
a queue is overrun by as many commands as it has places for, or by one that slept
over the backup's return. `cs_all`: a client gets the answers to its own commands,
is told of the end of its own write whatever other writes are under way, unless one
crossed it; a handler stores past the array only where another stored in between;
and a client waits for ever only in the cases `WaitEnds` lists. `fc_all`: when the
working directory comes home, and where copies land.

**Why the bounds are enough.**

* `FileManager`: three connections give a reader, a writer and a deleter, or two
  writers of one kind and one of the other, at once, and with lists of two names
  the third can be turned away; a further connection on the same file repeats one
  of these roles.
* `NamingServer`: more paths than the two slots compete for the cache, and the four
  paths are two directories with a file each, which is what CREATE and COPY need.
  Two clients are what a stale pointer, a race for a path and a disturbed CREATE or
  DELETE take, and two commands of each (`MaxCommands`) put a second one on what the
  first left behind. The commands of `ns_pair` are those that look a path up, make it,
  remove it and replace it; INFO, STREAM and WRITE read through their pointer as READ
  and CREATE do, and are in `ns_cache`. The theorems of section 4 are about any
  number of threads, paths and commands.
* `Registry`: `MaxStarts` 4 is three servers and one that comes back, which brings
  in the first choice of backups (at three) and, where the one that comes back
  gets a second entry, the next. With four starts for three servers no more than
  one can come back, and `Frail` is that one: the two others differ from each
  other only in their turn. `MaxBusy` 2 lets any two registrations
  overlap at every step; `rg_live` has all three overlap. `MaxServers` is 10 in
  the code; 4 leaves room for every start of `rg_all`, and 2 is what `rg_live`
  takes to turn a server away.
* `Replication`: two commands are what an order, a clash in a queue and an
  overtaking take. `Frail` is `{0, 1}`: backup 2 stays up, as the two backups differ
  only in their turn. `Given` has no two CREATEs and no two DELETEs: they differ
  only in that a CREATE waits for a backup's answer, and a CREATE with a DELETE has
  one of each. `Declining` is `{0, 1}`: what the primary declines its backups may
  carry out, and what a backup declines it lacks. `QueueSize` 2 is room for both
  commands, so that a queue is overrun in `rp_all` only by a stale count; 1 in
  `rp_full` is what two commands can fill. The theorems are about any number of
  places. Two crashes (`MaxCrashes`) are one of each, or one server that goes, comes
  back and goes again in the middle of its replay. The theorems of section 4 are
  about any number of both.
* `ClientSession`: two clients overlap their writes; two commands of one
  (`MaxCommands`) leave a piece behind, misread it, and go on; two entries
  (`MaxEntries`) are exceeded when two handlers find the second one free together;
  of the two files one was made by the COPY of a folder (`Recorded`); `Room` 1 is a
  connection that fills up. `Asks` gives the client with one command what matters to
  the other's: a lookup, or a WRITE.
* `FolderCopy`: two copies from one source, in two directions, one at the top of
  the tree and one deeper, and one that is local. `Large` and `Frail` are one copy
  and `Taken` another, so that archives which come whole and are unpacked meet one
  that is cut or fails and one that finds files in place.

Connections, threads, servers and commands are symmetric where no liveness
property is checked and the cfg says so.

**Where `CacheIsLru` is checked.** The refinement is a property of a whole
behaviour, and a duplicate that two threads made stays a while; `ns_cache` has one
client, and `CacheRefines` proves it for any number of threads as long as no two
search for one path at once. `NoDuplicateEntry` and `LookupsRefresh` say the same
step by step and are checked with two clients.

**Fairness.** Weak fairness of each thread: threads are scheduled by the operating
system and no handler waits for a lock another keeps.

* `FileManager`: not for a thread that waits for its client's data, as a client
  may never send. That a client goes on reading what it asked for is assumed:
  `send` (`file_manager.c:87`) blocks otherwise, and its thread is then not held to
  anything by the code.
* `NamingServer`: a storage server's answer, or the failure of its connection, is
  part of the thread's fair steps; `CommandEnds` leaves room for the naming
  server's going down, and for the COPY of an empty file while its destination
  stays. Not fair: that a server registers, goes or comes back, and so `CopyBroken`
  is owed only once the destination has gone.
* `Registry`: each thread of the naming server, for which the end of a
  connection comes at last (`recv` has a timeout of ten seconds), and a server
  that sends on a closed connection and is killed for it. Not fair: that a server
  starts or goes down, and the timeout of one that is well.
* `ClientSession`: each handler, each client as far as it takes what has come, and
  each storage server as far as it reports a write it has the data of, or its loss
  is noticed. Not fair: that a command is given, that a client sends its data
  (`TakeAddress` gives it or none), that a user ends the program, that a storage
  server goes.
* `FolderCopy`: some thread that has begun goes on. Every copy has a bounded number
  of steps, so this is as much as fairness of each and cheaper to check. Not fair:
  that a copy is asked for, and that someone answers unzip.

`Replication` states safety only.

**Stopping.** `CHECK_DEADLOCK FALSE` stands where an instance uses its bounds up
(connections with one request each, starts, commands, copies) and because the
naming server may end: by STREAM of a missing file, by a store past `write_clients`,
or with a queue that was overrun.

### What the code says and does not keep

* `fm_confirm`: a write with `--sync` is confirmed while its data is still in the
  stream's buffer; a crash loses confirmed data.

Seen in the same models, without a run of their own. In the storage server:

* after one write with `--sync` every DELETE of the file is refused "because a
  client is writing", since the name listed and the name taken off differ;
* a READ and a WRITE that check before the other registers have the file open
  together, and a writer that registers after DELETE's checks loses its file;
* after a failed `zip`, or two copies from one server at once, the process stays in
  the wrong directory, and every later request by a relative path fails;
* "completed copying" is answered before the other server has unpacked anything:
  unzip may fail, or ask at that server's terminal whether to replace what is there
  and wait, and nobody hears of it (`file_manager.c:345`); and where the source's
  `send` fails the destination asks memory of a size that never came.

In the index:

* a READ is answered with another file's name and server, since a second client's
  lookup moved the slot the first one's pointer leads to;
* DELETE of a path found in the cache takes the *next* entry's path out of the
  trie, and a DELETE the storage server refused removes the file from the index;
* CREATE records its file for another directory's server when a lookup moves the
  slot in the meantime (`naming_server.c:192`); two lookups that miss together put a
  path into the cache twice, and one entry survives DELETE; a path registered anew
  by another server is still answered from the cache (`naming_utils.c:149`);
* where a second thread moves the slot or frees the node that a CREATE or a COPY
  has a pointer to, what is recorded is another server's path, or memory given back;
* STREAM of a missing file goes through a null pointer (`naming_server.c:977`);
* COPY of an empty file sends the destination nothing (`naming_server.c:668`), which
  waits for it (`file_manager.c:210`) while the handler waits for the answer
  (`naming_server.c:677`): both wait until one of them goes.

Between servers:

* a server that comes back before its old connection has timed out gets a second
  entry; the old thread then marks the first inactive, and lookups, which stop at
  the first, take a live server for gone;
* a write is queued for no backup, so one that is away misses it for good; a replay
  that fails loses what was left; a new command overtakes those being replayed;
* two commands queued for one backup at once take one place and count as two;
* nothing compares `command_count` with the 1000 places (`naming_server.c:90`): the
  next command is stored over the count and the next server's entry;
* a backup that cannot open the file drops the WRITE and tells nobody
  (`storage_server.c:260`).

Between clients:

* a write that the storage server refused is reported like one that was done, and
  the client told "Write completed"; two writes of one file are credited to the
  first's entry, which may stay active for ever and take every later report;
* a report that comes before the entry it is for is lost, and the client waits;
* a file that the COPY of a folder made is reported under the source's path, by
  which the client was sent to it (`storage_server.c:671`), while its entry has the
  path the client typed (`naming_server.c:384`): they never match, and the client
  waits for ever;
* after an empty line the client sends no data (`client.c:183`): the storage server
  waits for them (`file_manager.c:114`), the handler for the report, the client for
  the handler;
* two handlers find the last place of `write_clients` free, and one stores past it
  (`naming_server.c:379`), which kills the naming server;
* a server lost during a write makes the handler send "Write failed" without end,
  and when that client goes SIGPIPE takes the naming server down;
* what COPY leaves in the connection is taken for the next answer: an address for
  the wrong file included.

## 4. Proofs

Checked by TLAPS, for every value of the constants the assumptions below admit.

* `FileManagerProofs`: `TypeCorrect`. The inductive invariant is
  `TypeInv == TypeOK /\ Located`. `TypeOK` alone is not inductive: that a list's
  counter stays in bounds and that a step finds a file where it needs one depends
  on where each thread is and which request it carries, which `Located` records.
  `ContentMoves` says what a step does to the contents of a file: nothing, one
  more write at the end, or a COPY_FILE, which is the exception both properties
  make. Hence the action property `AppendedStays`, and with
  `DiskInv == TypeInv /\ Unsent /\ Unopened` the invariant `ReaderSendsAPrefix`:
  a reader that has not opened its file has sent nothing (`Unsent`), and a
  COPY_FILE that has opened nothing holds no file (`Unopened`), so that a file it
  has copied over stays one.
* `FileManagerListProofs`: `ReadersCounted`, `WritersCounted`, `NoNameTooMany`,
  and from these the action properties `DeleteSparesTheBusy` and
  `RefusalsJustified`. The invariant is `ListInv == TypeInv /\ Accounts`. The
  argument counts: a list has a name as often as threads hold it. A write with
  `--sync` breaks the count of two names at once, by adding one and removing the
  other, and the writes that ended so (`Confirmed`) make up for it. That is why
  the three conjuncts of `Accounts` (`ReadersListed`, `WritersListed`,
  `NoSpareName`) are inductive only together.
* `FolderCopyProofs`: `TypeCorrect`; `CwdHome`, from `CwdInv`: while no zip failed
  and no two copies met at a source, a server is away only while one copy has it
  away, and the directory that copy will return to is home (without the latter
  `Return` could not be shown to come home); `CopiesLandInPlace`, from `PlaceInv`:
  two copies pasted at one server at once have met, so a copy that met none finds
  the buffer as it filled it.
* `RegistryProofs`: `TypeCorrect`, `OneEntryEach`, `ActiveWatched`,
  `ListenedActive`, for any number of servers, entries and starts. `TypeInv` adds
  that a thread about to append has room, that only a third server leads to
  `backup2`, and which connections are owned. `TableInv` adds `OneConnection` and,
  as long as no two threads set up entries at once, `Orderly`: one thread enters at
  a time, into the next entry, and the last entry is its own, a server's first
  entry is active only while it is watched, and each settled connection of a server
  that was not early has its first entry active. None of these is inductive
  alone: that the first entry is watched needs that an appended entry of a known
  server is early, which needs that connections that share a server are.
  `BackupsDiffer` and the action property `BackupsRemain` take `ChoiceInv` on top:
  where no registrations overlapped and no server was turned away, `Choice` says
  which entries have backups at each step of the choosing thread, so that a choice
  fills an entry that has none and finds two others.
* `NamingServerProofs`, for any number of threads. `TypeCorrect` rests on `TypeInv
  == StateOK /\ \A t \in Thread : CmdOK(t)`: that what a pointer leads to is an
  entry depends on the command its thread serves; the types of the histories come on
  top. `NoDuplicates`, `CacheRefines` and `Refreshes` come from `RaceInv`: a path
  two threads search for at once is in `raced`; every other is in the cache once at
  most; and what a thread is searching the trie for and is not in `raced` is not in
  the cache when it comes to be added. `CacheRefines` is `Spec /\ [](raced = {}) =>
  CacheIsLru`: as long as no two threads search for one path, every step is one of
  `LruCache`'s or a stutter. `Owner`, `Answers` and `Stale` come from `HomeInv`.
  `TrieSays` and `SlotsSay`: what trie and cache have of a path is its own name,
  unless it is in `copied`, and one of its homes, unless it is in `astray`.
  `Holding`, for each thread that is not in `disturbed`: where its pointer leads
  (`Leads`), the same for DELETE once the cache is rid of the path (`Led`), what it
  has read for its client (`FoundSays`) and that the file it is to create is not in
  the trie (`ToBeMade`). An undisturbed thread's pointer still leads to what it was
  given for, and that is what carries the proof from one thread to many.
* `ReplicationProofs`: `TypeCorrect`, `QueueSent` and `OverrunEarned`, for any number
  of commands, crashes and places. The invariant `Basis` is built in layers: the
  types, with where each handler may be and what each queue has still room for
  (`TypeInv`); which servers are awake, and which thread's view of that is `late`
  (`Awake`); what a queue's entries are (`QueueInv`); and what a thread about to store
  knows of the count (`Earned`).
* `ReplicationCopyProofs`: `OnceEach`, `NothingBesides`, `CopiesComplete` and
  `InOrderKept`, from `CopyInv`, which adds to `Basis`: a command is in one place on
  its way to a backup, the message, the queue or what was carried out (`Flow`); what
  is on its way the primary has (`Ground`, `AllBacked`); what a handler has passed is
  there or a fault befell it (`Keep`); and what comes to a backup later began before
  the other was over (`Order`).
* `ClientSessionProofs`: `TypeCorrect`, `RoomKept`, `CompletedOwn`, `StaysInStep`.
  `TypeInv` adds that a handler past its check has a place no further past the end
  than others could have counted (`RoomLeft`), that an answer due finds its room in
  the connection (`DueFits`), and what a handler at work is to write (`Targeted`).
  `OwnInv` speaks of each client nobody has crossed (`OwnOf`): its write is the only
  one of its path under way (`Alone`), there is still room for its entry (`Roomy`,
  which gives `RoomKept`), the one it is about to count is fresh and has its path
  (`Counts`), and the one it polls has its path and at most its own report
  (`Polls`). `TurnInv`: pieces carry numbers that have been asked (`Numbered`), and
  while a client is not spoiled, `Turn1` to `Turn4` say where it stands: with its
  command on the way nothing is in the connection; every piece is for the command it
  waits on; a handler at work is at that command, with one piece sent; and two
  pieces are those of one WRITE.

The assumptions are those the modules name: `ConnFinite`, `PathAssumption`,
`MaxPathsAssumption`, `RequestAssumption`, `NoneAssumption` (`FileManager`),
`CopyAssumption` (`FolderCopy`), `IndexAssumption` (`NamingIndex`),
`ServerAssumption` (`NamingServer`), `TableAssumption` (`ServerTable`),
`StartsAssumption` (`Registry`), `CommandAssumption`, `GivenAssumption`
(`Replication`), `EntriesAssumption` (`WriteClients`), `SessionAssumption`
(`ClientSession`). They say that the sets are what their names say, finite where
they are counted, and that special values are no members; `ServerAssumption` also
says that there are at most two servers. TLC evaluates them on every run of the
module.

Every safety invariant, action property and refinement that a passing run checks
is proved. Only model-checked is liveness, which the prover does not reach:
`RequestEnds`, `CommandEnds`, `GoneIsNoticed`, `WaitEnds`, `CompletedLands`.
`ConfirmedDataIsInFile` is refuted by `fm_confirm`.

## 5. Plan

Done: the file manager, the index and the commands, the registry, replication, the
write clients with the client's side, and folder copies, each with its proofs. A run
is added only where an old one makes room, so that all of them can be checked
together.

Left, in this order:

1. READ's way to a backup when the server is inactive, composed with
   `Replication`: what a reader finds there;
2. the loops of the cache functions, one assignment a step (`NameCache`): one
   thread implements `LruCache`, two do not.

## 6. Not modelled

* Logging (`insert_log`): a line appended to a file nobody reads.
* The walk of LIST through the trie: it changes nothing; its answer, and when the
  client stops reading, are in `ClientSession`.
* READ's failover: with three servers a READ of an inactive one goes to a backup;
  `NamingServer` has two servers, where there is none.
* `handle_copy` (`storage_server.c:577`): it answers a request `COPY` that no
  program here sends to a storage server. COPY of a file goes through the naming
  server, which reads from one and writes to the other: its part in the index is
  in `NamingServer`, the writing in `FileManager`.
* `strtok`: its position is one static variable of all threads, and it cuts
  `accessible_paths` in the entry itself (`naming_server.c:1246`); two registrations
  at once may tear each other's lists of paths.
* `copy_file`, `stream_audio_file_binary`, `handle_create`, `handle_delete`,
  `handle_sigint` and `handleCtrl` are never called or never installed; `a.c`,
  `play.c`, `testip.c` are scratch files; `docs/`, `tests/`, `protocol.*`,
  `client_utils.*` and `directory_structure.*` are empty.
* Memory layout: the byte written past a full buffer (`file_manager.c:119`), the
  memory behind a full array of commands (`naming_server.c:90`) or of write clients
  (`naming_server.c:379`), whose overrun the models end with, and uninitialised
  buffers passed to `strlen`, except where COPY's decides how much is read.
