---------------------------- MODULE FileManager ----------------------------
(***************************************************************************)
(* One storage server's file manager (storage_server/file_manager.c): the  *)
(* two lists of names in use, files_being_accessed under the mutex lock    *)
(* and files_being_read under lock2, and the requests that consult them.   *)
(* Every connection is served by a thread of its own, so the steps of the  *)
(* connections interleave.  A step is one critical section, one system     *)
(* call or one wait for the peer: every access to a list is made under its *)
(* mutex and no section nests another, so a section is one atomic step.    *)
(*                                                                         *)
(* A connection carries one request and its slot is never used again.      *)
(***************************************************************************)
EXTENDS Integers, Sequences, FiniteSets

CONSTANTS
  Conn,      \* connections accepted by the storage server
  File,      \* paths of regular files
  Dir,       \* paths of directories
  DirOf,     \* DirOf[f]: the directory that holds f
  PrefixOf,  \* PrefixOf[t]: the files whose path starts with the characters of t
  Existing,  \* files on the disk when the server starts
  Request,   \* the requests a connection may carry
  MaxPaths,  \* MAX_PATHS, the capacity of each list
  None       \* no inode

ASSUME ConnFinite == IsFiniteSet(Conn)

ASSUME PathAssumption ==
  /\ DirOf \in [File -> Dir]
  /\ PrefixOf \in [File \cup Dir -> SUBSET File]
  /\ Existing \subseteq File
  /\ File \cap Dir = {}
  /\ \A f \in File : f \in PrefixOf[f] /\ f \in PrefixOf[DirOf[f]]

ASSUME MaxPathsAssumption == MaxPaths \in Nat

\* Readers name a file as it is; a writer that wants a confirmation names it
\* "<file> --sync": the list of writers holds a path with or without the flag.
Flag == {"none", "--sync"}

AnyRequest ==
       [op : {"READ", "COPY_FILE", "Backup"}, path : File, flag : {"none"}]
  \cup [op : {"WRITE"}, path : File, flag : Flag]
  \cup [op : {"DELETE", "CREATE", "INFO"}, path : File \cup Dir, flag : {"none"}]

ASSUME RequestAssumption == Request \subseteq AnyRequest

\* A file created by connection c is inode c, one that was there at the start
\* is an inode named after its path.  Contents are the writes they consist of.
Inode == Conn \cup File

ASSUME NoneAssumption == None \notin Inode

VARIABLES
  pc,           \* what each connection's thread does next
  req,          \* the request it carries
  fd,           \* the inode it has open (kept once it is closed)
  loaded,       \* its write buffer holds data
  got,          \* what a reader has sent to its client so far
  reply,        \* the answer sent on the connection
  sent,         \* the messages its thread has sent to the naming server
  accessed,     \* files_being_accessed: how many times each name is listed
  numAccessed,  \* num_files_being_accessed
  reading,      \* files_being_read
  numReading,   \* num_files_being_read
  dropped,      \* connections whose name found the list full
  leaked,       \* connections that returned without taking their name off
  dirs,         \* directories on the disk
  disk,         \* the inode each path leads to
  content       \* the contents of each inode

conns == <<pc, req, fd, loaded, got, reply, sent>>
lists == <<accessed, numAccessed, reading, numReading, dropped, leaked>>
fs    == <<dirs, disk, content>>
vars  == <<conns, lists, fs>>

NoRequest == [op |-> "none", path |-> None, flag |-> "none"]

Init ==
  /\ pc = [c \in Conn |-> "idle"]
  /\ req = [c \in Conn |-> NoRequest]
  /\ fd = [c \in Conn |-> None]
  /\ loaded = [c \in Conn |-> FALSE]
  /\ got = [c \in Conn |-> <<>>]
  /\ reply = [c \in Conn |-> "none"]
  /\ sent = [c \in Conn |-> {}]
  /\ accessed = [n \in File \X Flag |-> 0]
  /\ numAccessed = 0
  /\ reading = [f \in File |-> 0]
  /\ numReading = 0
  /\ dropped = {}
  /\ leaked = {}
  /\ dirs = Dir
  /\ disk = [f \in File |-> IF f \in Existing THEN f ELSE None]
  /\ content = [i \in Inode |-> IF i \in Existing THEN <<i>> ELSE <<>>]

-----------------------------------------------------------------------------
\* The thread of connection c goes from one location to the next.
Step(c, from, to) ==
  /\ pc[c] = from
  /\ pc' = [pc EXCEPT ![c] = to]

Answer(c, text) == reply' = [reply EXCEPT ![c] = text]

\* Mutation: the " --sync" is cut off before the name is listed.
ListedNameBare(c) == <<req[c].path, "none">>

\* The name a writer lists, and the one it takes off again: write_file cuts
\* the " --sync" from file_path between the two.
ListedName(c)   == <<req[c].path, req[c].flag>>
StrippedName(c) == <<req[c].path, "none">>

\* Mutation: the capacity of the list is not looked at.
add_accessible_path_unchecked(c, name) ==
  /\ accessed' = [accessed EXCEPT ![name] = @ + 1]
  /\ numAccessed' = numAccessed + 1
  /\ UNCHANGED dropped

add_accessible_path(c, name) ==
  IF numAccessed < MaxPaths
  THEN /\ accessed' = [accessed EXCEPT ![name] = @ + 1]
       /\ numAccessed' = numAccessed + 1
       /\ UNCHANGED dropped
  ELSE /\ dropped' = dropped \cup {c}
       /\ UNCHANGED <<accessed, numAccessed>>

add_accessible_path2(c, name) ==
  IF numReading < MaxPaths
  THEN /\ reading' = [reading EXCEPT ![name] = @ + 1]
       /\ numReading' = numReading + 1
       /\ UNCHANGED dropped
  ELSE /\ dropped' = dropped \cup {c}
       /\ UNCHANGED <<reading, numReading>>

\* Mutation: the loop goes on after the first match.
delete_accessible_path_all(name) ==
  /\ accessed' = [accessed EXCEPT ![name] = 0]
  /\ numAccessed' = numAccessed - accessed[name]

\* Mutation: the remaining names are not shifted over the one taken off.
delete_accessible_path_unshifted(name) ==
  IF accessed[name] > 0
  THEN UNCHANGED accessed /\ numAccessed' = numAccessed - 1
  ELSE UNCHANGED <<accessed, numAccessed>>

delete_accessible_path(name) ==
  IF accessed[name] > 0
  THEN /\ accessed' = [accessed EXCEPT ![name] = @ - 1]
       /\ numAccessed' = numAccessed - 1
  ELSE UNCHANGED <<accessed, numAccessed>>

delete_accessible_path2(name) ==
  IF reading[name] > 0
  THEN /\ reading' = [reading EXCEPT ![name] = @ - 1]
       /\ numReading' = numReading - 1
  ELSE UNCHANGED <<reading, numReading>>

\* Opening f for writing creates it, as the inode of the connection, where
\* it does not exist and its directory does.
CanOpenForWriting(f) == disk[f] # None \/ DirOf[f] \in dirs

OpenForWriting(c, f) ==
  LET i == IF disk[f] = None THEN c ELSE disk[f]
  IN  /\ fd' = [fd EXCEPT ![c] = i]
      /\ disk' = [disk EXCEPT ![f] = i]

-----------------------------------------------------------------------------
(* A thread is started for a connection and reads the request from it.     *)
FirstStep ==
  [READ |-> "read_check", WRITE |-> "write_check", COPY_FILE |-> "copy_recv",
   Backup |-> "backup_recv", DELETE |-> "delete_check_writers",
   CREATE |-> "create_parent", INFO |-> "info"]

Accept(c, r) ==
  /\ Step(c, "idle", FirstStep[r.op])
  /\ req' = [req EXCEPT ![c] = r]
  /\ UNCHANGED <<fd, loaded, got, reply, sent, lists, fs>>

-----------------------------------------------------------------------------
(* read_file, which serves READ and STREAM.                                *)
ReadCheck(c) ==
  LET f == req[c].path
  IN  \/ /\ Step(c, "read_check", "closed")
         /\ accessed[<<f, "none">>] > 0
         /\ Answer(c, "a client is writing")
         /\ UNCHANGED <<req, fd, loaded, got, sent, lists, fs>>
      \/ /\ Step(c, "read_check", "read_register")
         /\ accessed[<<f, "none">>] = 0
         /\ UNCHANGED <<req, fd, loaded, got, reply, sent, lists, fs>>

ReadRegister(c) ==
  /\ Step(c, "read_register", "read_open")
  /\ add_accessible_path2(c, req[c].path)
  /\ UNCHANGED <<req, fd, loaded, got, reply, sent, accessed, numAccessed, leaked, fs>>

\* A file that cannot be opened leaves its name on the list.
ReadOpen(c) ==
  LET f == req[c].path
  IN  \/ /\ Step(c, "read_open", "closed")
         /\ disk[f] = None
         /\ leaked' = leaked \cup {c}
         /\ UNCHANGED <<req, fd, loaded, got, reply, sent, fs>>
         /\ UNCHANGED <<accessed, numAccessed, reading, numReading, dropped>>
      \/ /\ Step(c, "read_open", "read_block")
         /\ disk[f] # None
         /\ fd' = [fd EXCEPT ![c] = disk[f]]
         /\ UNCHANGED <<req, loaded, got, reply, sent, lists, fs>>

\* Mutation: the loop runs while read() returns at least 0.
ReadBlockForever(c) ==
  LET data == content[fd[c]]
      next == Len(got[c]) + 1
  IN  /\ Step(c, "read_block", "read_block")
      /\ got' = [got EXCEPT ![c] = IF next <= Len(data) THEN Append(@, data[next]) ELSE @]
      /\ UNCHANGED <<req, fd, loaded, reply, sent, lists, fs>>

\* One turn of the loop: a block is read and sent, or the end is reached.
ReadBlock(c) ==
  LET data == content[fd[c]]
      next == Len(got[c]) + 1
  IN  \/ /\ Step(c, "read_block", "read_block")
         /\ next <= Len(data)
         /\ got' = [got EXCEPT ![c] = Append(@, data[next])]
         /\ UNCHANGED <<req, fd, loaded, reply, sent, lists, fs>>
      \/ /\ Step(c, "read_block", "read_unregister")
         /\ next > Len(data)
         /\ UNCHANGED <<req, fd, loaded, got, reply, sent, lists, fs>>

\* Mutation: a reader that served its file leaves the name on the list.
ReadUnregisterForgotten(c) ==
  /\ Step(c, "read_unregister", "closed")
  /\ UNCHANGED <<req, fd, loaded, got, reply, sent, lists, fs>>

ReadUnregister(c) ==
  /\ Step(c, "read_unregister", "closed")
  /\ delete_accessible_path2(req[c].path)
  /\ UNCHANGED <<req, fd, loaded, got, reply, sent, fs>>
  /\ UNCHANGED <<accessed, numAccessed, dropped, leaked>>

Read(c) ==
  \/ ReadCheck(c)
  \/ ReadRegister(c)
  \/ ReadOpen(c)
  \/ ReadBlock(c)
  \/ ReadUnregister(c)

-----------------------------------------------------------------------------
(* write_file, and what handle_client_request does after it.               *)

\* Where the thread goes when write_file returns: a write without --sync is
\* reported to the naming server, whatever became of it.
AfterWrite(c) == IF req[c].flag = "--sync" THEN "closed" ELSE "write_notify"

\* A reader lists the bare name, so a write with --sync finds none.
WriteCheck(c) ==
  LET refused == req[c].flag = "none" /\ reading[req[c].path] > 0
  IN  \/ /\ Step(c, "write_check", AfterWrite(c))
         /\ refused
         /\ Answer(c, "a client is reading")
         /\ UNCHANGED <<req, fd, loaded, got, sent, lists, fs>>
      \/ /\ Step(c, "write_check", "write_register")
         /\ ~refused
         /\ UNCHANGED <<req, fd, loaded, got, reply, sent, lists, fs>>

WriteRegister(c) ==
  /\ Step(c, "write_register", "write_recv")
  /\ add_accessible_path(c, ListedName(c))
  /\ UNCHANGED <<req, fd, loaded, got, reply, sent, reading, numReading, leaked, fs>>

\* Return from write_file with the name still listed.
WriteAbandon(c, from) ==
  /\ Step(c, from, AfterWrite(c))
  /\ leaked' = leaked \cup {c}
  /\ UNCHANGED <<req, fd, loaded, got, reply, sent, fs>>
  /\ UNCHANGED <<accessed, numAccessed, reading, numReading, dropped>>

\* The client sends data, or closes without any, or the connection breaks.
WriteRecv(c) ==
  \/ \E data \in BOOLEAN :
       /\ Step(c, "write_recv", "write_open")
       /\ loaded' = [loaded EXCEPT ![c] = data]
       /\ UNCHANGED <<req, fd, got, reply, sent, lists, fs>>
  \/ WriteAbandon(c, "write_recv")

\* Mutation: the file is opened with "w".
WriteOpenTruncating(c) ==
  /\ Step(c, "write_open", "write_reply")
  /\ CanOpenForWriting(req[c].path)
  /\ OpenForWriting(c, req[c].path)
  /\ content' = [content EXCEPT ![fd'[c]] = <<>>]
  /\ UNCHANGED <<req, loaded, got, reply, sent, lists, dirs>>

WriteOpen(c) ==
  LET f == req[c].path
  IN  \/ /\ WriteAbandon(c, "write_open")
         /\ ~CanOpenForWriting(f)
      \/ /\ Step(c, "write_open", "write_reply")
         /\ CanOpenForWriting(f)
         /\ OpenForWriting(c, f)
         /\ UNCHANGED <<req, loaded, got, reply, sent, lists, dirs, content>>

\* The client is answered while the data is still in the stream's buffer.
WriteReply(c) ==
  /\ Step(c, "write_reply", "write_close")
  /\ Answer(c, IF req[c].flag = "--sync" THEN "synchronous writing done"
                              ELSE "data received")
  /\ UNCHANGED <<req, fd, loaded, got, sent, lists, fs>>

\* The buffer reaches the file, in one write at its end, when it is closed.
WriteClose(c) ==
  /\ Step(c, "write_close", "write_unregister")
  /\ content' = [content EXCEPT ![fd[c]] = IF loaded[c] THEN Append(@, c) ELSE @]
  /\ UNCHANGED <<req, fd, loaded, got, reply, sent, lists, dirs, disk>>

WriteUnregister(c) ==
  /\ Step(c, "write_unregister", "write_replicate")
  /\ delete_accessible_path(StrippedName(c))
  /\ UNCHANGED <<req, fd, loaded, got, reply, sent, fs>>
  /\ UNCHANGED <<reading, numReading, dropped, leaked>>

\* A message to the naming server, if it can be reached.
Send(c, from, to, message) ==
  /\ Step(c, from, to)
  /\ \E reached \in BOOLEAN :
       sent' = [sent EXCEPT ![c] = IF reached THEN @ \cup {message} ELSE @]
  /\ UNCHANGED <<req, fd, loaded, got, reply, lists, fs>>

WriteReplicate(c) == Send(c, "write_replicate", AfterWrite(c), "ip port path")

WriteNotify(c) == Send(c, "write_notify", "closed", "write path")

Write(c) ==
  \/ WriteCheck(c)
  \/ WriteRegister(c)
  \/ WriteRecv(c)
  \/ WriteOpen(c)
  \/ WriteReply(c)
  \/ WriteClose(c)
  \/ WriteUnregister(c)
  \/ WriteReplicate(c)
  \/ WriteNotify(c)

-----------------------------------------------------------------------------
(* copy_to_file, which serves COPY_FILE: neither list is looked at.        *)
CopyRecv(c) ==
  \/ \E data \in BOOLEAN :
       /\ Step(c, "copy_recv", "copy_open")
       /\ loaded' = [loaded EXCEPT ![c] = data]
       /\ UNCHANGED <<req, fd, got, reply, sent, lists, fs>>
  \/ /\ Step(c, "copy_recv", "copy_notify")
     /\ UNCHANGED <<req, fd, loaded, got, reply, sent, lists, fs>>

\* The file is opened with "w", which empties it, and the client is answered.
CopyOpen(c) ==
  LET f == req[c].path
  IN  \/ /\ Step(c, "copy_open", "copy_notify")
         /\ ~CanOpenForWriting(f)
         /\ UNCHANGED <<req, fd, loaded, got, reply, sent, lists, fs>>
      \/ /\ Step(c, "copy_open", "copy_close")
         /\ CanOpenForWriting(f)
         /\ OpenForWriting(c, f)
         /\ content' = [content EXCEPT ![fd'[c]] = <<>>]
         /\ Answer(c, "data received")
         /\ UNCHANGED <<req, loaded, got, sent, lists, dirs>>

\* The buffer goes to the start of the file, over what was put there since.
CopyClose(c) ==
  LET Overwritten(data) ==
        IF data = <<>> THEN <<c>> ELSE [data EXCEPT ![1] = c]
  IN  /\ Step(c, "copy_close", "copy_notify")
      /\ content' = [content EXCEPT ![fd[c]] =
                       IF loaded[c] THEN Overwritten(@) ELSE @]
      /\ UNCHANGED <<req, fd, loaded, got, reply, sent, lists, dirs, disk>>

\* The path is cut out of the request as if the command were WRITE.
CopyNotify(c) == Send(c, "copy_notify", "closed", "write garbled")

CopyFile(c) ==
  \/ CopyRecv(c)
  \/ CopyOpen(c)
  \/ CopyClose(c)
  \/ CopyNotify(c)

-----------------------------------------------------------------------------
(* The Backup branch of handle_nm_request: an append with no registration. *)
BackupRecv(c) ==
  \/ /\ Step(c, "backup_recv", "backup_open")
     /\ loaded' = [loaded EXCEPT ![c] = TRUE]
     /\ UNCHANGED <<req, fd, got, reply, sent, lists, fs>>
  \/ /\ Step(c, "backup_recv", "closed")
     /\ UNCHANGED <<req, fd, loaded, got, reply, sent, lists, fs>>

\* Mutation: the file is opened with "w".
BackupOpenTruncating(c) ==
  /\ Step(c, "backup_open", "backup_close")
  /\ CanOpenForWriting(req[c].path)
  /\ OpenForWriting(c, req[c].path)
  /\ content' = [content EXCEPT ![fd'[c]] = <<>>]
  /\ UNCHANGED <<req, loaded, got, reply, sent, lists, dirs>>

BackupOpen(c) ==
  LET f == req[c].path
  IN  \/ /\ Step(c, "backup_open", "closed")
         /\ ~CanOpenForWriting(f)
         /\ UNCHANGED <<req, fd, loaded, got, reply, sent, lists, fs>>
      \/ /\ Step(c, "backup_open", "backup_close")
         /\ CanOpenForWriting(f)
         /\ OpenForWriting(c, f)
         /\ UNCHANGED <<req, loaded, got, reply, sent, lists, dirs, content>>

BackupClose(c) ==
  /\ Step(c, "backup_close", "closed")
  /\ content' = [content EXCEPT ![fd[c]] = Append(@, c)]
  /\ UNCHANGED <<req, fd, loaded, got, reply, sent, lists, dirs, disk>>

Backup(c) ==
  \/ BackupRecv(c)
  \/ BackupOpen(c)
  \/ BackupClose(c)

-----------------------------------------------------------------------------
(* delete_file_or_directory: a listed name counts if the path to delete is *)
(* a prefix of it, character by character.                                 *)
DeleteCheckWriters(c) ==
  LET busy == \E f \in PrefixOf[req[c].path], s \in Flag :
                 accessed[<<f, s>>] > 0
  IN  \/ /\ Step(c, "delete_check_writers", "closed")
         /\ busy
         /\ Answer(c, "a client is writing")
         /\ UNCHANGED <<req, fd, loaded, got, sent, lists, fs>>
      \/ /\ Step(c, "delete_check_writers", "delete_check_readers")
         /\ ~busy
         /\ UNCHANGED <<req, fd, loaded, got, reply, sent, lists, fs>>

DeleteCheckReaders(c) ==
  LET busy == \E f \in PrefixOf[req[c].path] : reading[f] > 0
  IN  \/ /\ Step(c, "delete_check_readers", "closed")
         /\ busy
         /\ Answer(c, "a client is reading")
         /\ UNCHANGED <<req, fd, loaded, got, sent, lists, fs>>
      \/ /\ Step(c, "delete_check_readers", "delete_stat")
         /\ ~busy
         /\ UNCHANGED <<req, fd, loaded, got, reply, sent, lists, fs>>

Exists(p) == IF p \in Dir THEN p \in dirs ELSE disk[p] # None

\* What does not exist is not answered.
DeleteStat(c) ==
  /\ Step(c, "delete_stat",
          IF Exists(req[c].path) THEN "delete_remove" ELSE "closed")
  /\ UNCHANGED <<req, fd, loaded, got, reply, sent, lists, fs>>

\* remove() may find the file gone: the client is told it is deleted anyway.
DeleteFile(c) ==
  /\ Step(c, "delete_remove", "closed")
  /\ req[c].path \in File
  /\ disk' = [disk EXCEPT ![req[c].path] = None]
  /\ Answer(c, "deleted")
  /\ UNCHANGED <<req, fd, loaded, got, sent, lists, dirs, content>>

\* trash-put takes the directory with all it holds, or fails unanswered.
DeleteDirectory(c) ==
  LET d == req[c].path
  IN  /\ Step(c, "delete_remove", "closed")
      /\ d \in Dir
      /\ UNCHANGED <<req, fd, loaded, got, sent, lists, content>>
      /\ \/ /\ d \in dirs
            /\ dirs' = dirs \ {d}
            /\ disk' = [f \in File |-> IF DirOf[f] = d THEN None ELSE disk[f]]
            /\ Answer(c, "deleted")
         \/ UNCHANGED <<dirs, disk, reply>>

Delete(c) ==
  \/ DeleteCheckWriters(c)
  \/ DeleteCheckReaders(c)
  \/ DeleteStat(c)
  \/ DeleteFile(c)
  \/ DeleteDirectory(c)

-----------------------------------------------------------------------------
(* create_file, for a file (its directory is made if it is missing) and    *)
(* for a directory; get_file_info.                                         *)
CreateParent(c) ==
  LET p == req[c].path
  IN  \/ /\ Step(c, "create_parent", "create_open")
         /\ p \in File
         /\ dirs' = dirs \cup {DirOf[p]}
         /\ UNCHANGED <<req, fd, loaded, got, reply, sent, lists, disk, content>>
      \/ /\ Step(c, "create_parent", "closed")
         /\ p \in Dir
         /\ dirs' = dirs \cup {p}
         /\ Answer(c, "created")
         /\ UNCHANGED <<req, fd, loaded, got, sent, lists, disk, content>>

CreateOpen(c) ==
  LET f == req[c].path
      created == disk[f] = None /\ DirOf[f] \in dirs
  IN  /\ Step(c, "create_open", "closed")
      /\ disk' = [disk EXCEPT ![f] = IF created THEN c ELSE @]
      /\ Answer(c, IF created THEN "created" ELSE "not created")
      /\ UNCHANGED <<req, fd, loaded, got, sent, lists, dirs, content>>

Info(c) ==
  /\ Step(c, "info", "closed")
  /\ Answer(c, IF Exists(req[c].path) THEN "info" ELSE "none")
  /\ UNCHANGED <<req, fd, loaded, got, sent, lists, fs>>

Create(c) == CreateParent(c) \/ CreateOpen(c)

-----------------------------------------------------------------------------
\* The process is killed and started again: its threads, its lists and the
\* buffers of its streams are gone, the disk stays.
Crash ==
  /\ \E c \in Conn : pc[c] \notin {"idle", "gone"}
  /\ pc' = [c \in Conn |-> IF pc[c] = "idle" THEN "idle" ELSE "gone"]
  /\ accessed' = [n \in File \X Flag |-> 0]
  /\ numAccessed' = 0
  /\ reading' = [f \in File |-> 0]
  /\ numReading' = 0
  /\ dropped' = {}
  /\ leaked' = {}
  /\ UNCHANGED <<req, fd, loaded, got, reply, sent, fs>>

Thread(c) ==
  \/ Read(c)
  \/ Write(c)
  \/ CopyFile(c)
  \/ Backup(c)
  \/ Delete(c)
  \/ Create(c)
  \/ Info(c)

Next ==
  \/ \E c \in Conn, r \in Request : Accept(c, r)
  \/ \E c \in Conn : Thread(c)
  \/ Crash

Spec == Init /\ [][Next]_vars

\* A started thread is scheduled.  Nothing obliges a client to send its data; that
\* it goes on reading what it asked for is assumed, as send blocks otherwise.
Waiting == {"idle", "write_recv", "copy_recv", "backup_recv"}

Running(c) == pc[c] \notin Waiting /\ Thread(c)

FairSpec == Spec /\ \A c \in Conn : WF_vars(Running(c))

-----------------------------------------------------------------------------
(* Properties.                                                             *)

Label ==
  {"idle", "closed", "gone",
   "read_check", "read_register", "read_open", "read_block", "read_unregister",
   "write_check", "write_register", "write_recv", "write_open", "write_reply",
   "write_close", "write_unregister", "write_replicate", "write_notify",
   "copy_recv", "copy_open", "copy_close", "copy_notify",
   "backup_recv", "backup_open", "backup_close",
   "delete_check_writers", "delete_check_readers", "delete_stat", "delete_remove",
   "create_parent", "create_open", "info"}

Reply == {"none", "info", "created", "not created", "deleted",
          "a client is writing", "a client is reading",
          "data received", "synchronous writing done"}

Message == {"ip port path", "write path", "write garbled"}

ConnsOK ==
  /\ pc \in [Conn -> Label]
  /\ req \in [Conn -> AnyRequest \cup {NoRequest}]
  /\ fd \in [Conn -> Inode \cup {None}]
  /\ loaded \in [Conn -> BOOLEAN]
  /\ got \in [Conn -> Seq(Inode)]
  /\ reply \in [Conn -> Reply]
  /\ sent \in [Conn -> SUBSET Message]

ListsOK ==
  /\ accessed \in [File \X Flag -> Nat]
  /\ numAccessed \in Int /\ numAccessed <= MaxPaths
  /\ reading \in [File -> Nat]
  /\ numReading \in Int /\ numReading <= MaxPaths
  /\ dropped \subseteq Conn
  /\ leaked \subseteq Conn

FsOK ==
  /\ dirs \subseteq Dir
  /\ disk \in [File -> Inode \cup {None}]
  /\ content \in [Inode -> Seq(Inode)]

\* The shape of the state, and neither list longer than its array
\* (file_manager.c:16-20).
TypeOK == ConnsOK /\ ListsOK /\ FsOK

ReadHolding  == {"read_open", "read_block", "read_unregister"}
WriteHolding == {"write_recv", "write_open", "write_reply", "write_close",
                 "write_unregister"}

\* Threads between putting the name of file f on a list and taking it off,
\* those that returned in between included.
Readers(f) ==
  {c \in Conn : /\ req[c].op = "READ" /\ req[c].path = f
                /\ \/ pc[c] \in ReadHolding
                   \/ c \in leaked}

Writers(f, s) ==
  {c \in Conn : /\ req[c].op = "WRITE" /\ req[c].path = f /\ req[c].flag = s
                /\ \/ pc[c] \in WriteHolding
                   \/ c \in leaked}

\* Writes with --sync that got past the taking off: of the bare name.
Confirmed(f) ==
  {c \in Conn : /\ req[c].op = "WRITE" /\ req[c].path = f /\ req[c].flag = "--sync"
                /\ pc[c] \in {"write_replicate", "write_notify", "closed"}
                /\ c \notin leaked}

\* files_being_read holds a file's name once for every reader of it, as long
\* as no name was turned away (file_manager.c:75-77, 89-91).
ReadersListed ==
  dropped = {} => \A f \in File : reading[f] = Cardinality(Readers(f))

\* files_being_accessed: the longer name of a write with --sync is never
\* taken off, and the bare name such a write takes off instead is missing
\* for at most one other writer each (file_manager.c:106-108, 165-167).
WritersListed ==
  dropped = {} =>
    \A f \in File :
      /\ accessed[<<f, "--sync">>] =
           Cardinality(Writers(f, "--sync")) + Cardinality(Confirmed(f))
      /\ accessed[<<f, "none">>] + Cardinality(Confirmed(f)) >=
           Cardinality(Writers(f, "none"))

\* Neither list ever holds a name more often than threads put it there and
\* did not take it off, even after names were turned away at a full list
\* (file_manager.c:23-63).
NoSpareName ==
  \A f \in File :
    /\ reading[f] <= Cardinality(Readers(f))
    /\ accessed[<<f, "none">>] <= Cardinality(Writers(f, "none"))

Passes(c, from, to) == pc[c] = from /\ pc'[c] = to

\* A DELETE gets past its two checks only at moments when no thread is
\* writing, and then none reading, a file under the path: although a write
\* with --sync may have taken another writer's name off the list
\* (file_manager.c:467-487).
DeletePassesWhenIdle ==
  [][\A c \in Conn : dropped = {} =>
       /\ Passes(c, "delete_check_writers", "delete_check_readers") =>
            \A f \in PrefixOf[req[c].path], s \in Flag : Writers(f, s) = {}
       /\ Passes(c, "delete_check_readers", "delete_stat") =>
            \A f \in PrefixOf[req[c].path] : Readers(f) = {}]_vars

\* READ is refused only for a thread that writes the file without --sync, a
\* write only for one that reads it, or for one that left its name behind
\* (file_manager.c:66-73, 97-104).
RefusalIsJustified ==
  [][\A c \in Conn :
       /\ Passes(c, "read_check", "closed") =>
            Writers(req[c].path, "none") # {}
       /\ Passes(c, "write_check", "write_notify") =>
            Readers(req[c].path) # {}]_vars

CopiedOver(i) == \E c \in Conn : req[c].op = "COPY_FILE" /\ fd[c] = i

\* A reader that came to the end has sent a file as it was at some moment:
\* not even a writer beside it or a DELETE of the file changes what was read,
\* only a COPY_FILE onto it may (file_manager.c:84-88, 130, 226).
ReadIsAPrefix ==
  \A c \in Conn :
    fd[c] # None /\ req[c].op = "READ" /\ ~CopiedOver(fd[c]) =>
      /\ Len(got[c]) <= Len(content[fd[c]])
      /\ \A k \in 1..Len(got[c]) : got[c][k] = content[fd[c]][k]

\* What a finished write or backup put into a file stays in it, whatever
\* other threads append, create or delete, unless COPY_FILE opens the file:
\* every opening for writing appends (file_manager.c:130, 426;
\* storage_server.c:260).
AppendedDataStays ==
  [][\A i \in Inode : ~CopiedOver(i)' =>
       /\ Len(content[i]) <= Len(content'[i])
       /\ \A k \in 1..Len(content[i]) : content'[i][k] = content[i][k]]_vars

\* A request once accepted is served to its end, unless the process is
\* killed or the client owes the data: a reader is not held up for ever by
\* the writers that extend its file (file_manager.c:84-88).
RequestEnds ==
  \A c \in Conn :
    pc[c] # "idle" ~> pc[c] \in (Waiting \ {"idle"}) \cup {"closed", "gone"}

-----------------------------------------------------------------------------
(* What the program says of itself and does not keep.                      *)

\* README.md:53, "Write data to a file with synchronous confirmation": data
\* that has been confirmed is in the file.  The confirmation is sent before
\* the stream is flushed (file_manager.c:153-163).
ConfirmedDataIsInFile ==
  \A c \in Conn :
    reply[c] = "synchronous writing done" /\ loaded[c] =>
      \E k \in 1..Len(content[fd[c]]) : content[fd[c]][k] = c
=============================================================================
