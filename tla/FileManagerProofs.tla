------------------------- MODULE FileManagerProofs -------------------------
(***************************************************************************)
(* Theorems about FileManager for every set of connections, files and      *)
(* requests and every capacity of the lists.                               *)
(***************************************************************************)
EXTENDS FileManager, FiniteSetTheorems, TLAPS

\* A thread is only ever at the locations of the request it carries, has a
\* file open where it uses one, and has returned where its name was left.
LocatedAt(c) ==
  /\ pc[c] = "idle" => req[c] = NoRequest
  /\ pc[c] \in {"read_check", "read_register"} \cup ReadHolding =>
       req[c].op = "READ"
  /\ pc[c] \in {"write_check", "write_register", "write_replicate",
               "write_notify"} \cup WriteHolding => req[c].op = "WRITE"
  /\ pc[c] \in {"copy_recv", "copy_open", "copy_close", "copy_notify"} =>
       req[c].op = "COPY_FILE"
  /\ pc[c] \in {"backup_recv", "backup_open", "backup_close"} =>
       req[c].op = "Backup"
  /\ pc[c] \in {"delete_check_writers", "delete_check_readers",
               "delete_stat", "delete_remove"} => req[c].op = "DELETE"
  /\ pc[c] \in {"create_parent", "create_open"} => req[c].op = "CREATE"
  /\ pc[c] = "info" => req[c].op = "INFO"
  /\ pc[c] = "create_open" => req[c].path \in File
  /\ pc[c] \in {"read_block", "write_reply", "write_close", "copy_close",
               "backup_close"} => fd[c] \in Inode
  /\ c \in leaked => pc[c] \in {"closed", "write_notify"}

Located == \A c \in Conn : LocatedAt(c)

TypeInv == TypeOK /\ Located

-----------------------------------------------------------------------------
\* What the types say of the request of a thread at work.
PathsOK(c) ==
  /\ req[c].op \in {"READ", "WRITE", "COPY_FILE", "Backup"} => req[c].path \in File
  /\ req[c].op # "none" => req[c].path \in File \cup Dir
  /\ req[c].op = "WRITE" => req[c].flag \in Flag

LEMMA RequestPaths == \A c \in Conn : ConnsOK => PathsOK(c)
<1> SUFFICES ASSUME NEW c \in Conn, ConnsOK
             PROVE  PathsOK(c)
  OBVIOUS
<1>1. req[c] \in AnyRequest \cup {NoRequest}
  BY DEF ConnsOK
<1>2. CASE req[c] = NoRequest
  BY <1>2 DEF NoRequest, PathsOK
<1>3. CASE req[c] \in [op : {"READ", "COPY_FILE", "Backup"}, path : File, flag : {"none"}]
  BY <1>3 DEF PathsOK
<1>4. CASE req[c] \in [op : {"WRITE"}, path : File, flag : Flag]
  BY <1>4 DEF PathsOK, Flag
<1>5. CASE req[c] \in [op : {"DELETE", "CREATE", "INFO"}, path : File \cup Dir, flag : {"none"}]
  BY <1>5 DEF PathsOK
<1>6. QED
  BY <1>1, <1>2, <1>3, <1>4, <1>5 DEF AnyRequest

\* The two operations on each list keep its type and its capacity.
LEMMA AddType ==
  ASSUME ListsOK, NEW c \in Conn, NEW name \in File \X Flag,
         add_accessible_path(c, name), UNCHANGED <<reading, numReading, leaked>>
  PROVE  ListsOK'
  BY MaxPathsAssumption DEF ListsOK, add_accessible_path

LEMMA AddType2 ==
  ASSUME ListsOK, NEW c \in Conn, NEW name \in File,
         add_accessible_path2(c, name), UNCHANGED <<accessed, numAccessed, leaked>>
  PROVE  ListsOK'
  BY MaxPathsAssumption DEF ListsOK, add_accessible_path2

LEMMA DeleteType ==
  ASSUME ListsOK, NEW name \in File \X Flag, delete_accessible_path(name),
         UNCHANGED <<reading, numReading, dropped, leaked>>
  PROVE  ListsOK'
  BY MaxPathsAssumption DEF ListsOK, delete_accessible_path

LEMMA DeleteType2 ==
  ASSUME ListsOK, NEW name \in File, delete_accessible_path2(name),
         UNCHANGED <<accessed, numAccessed, dropped, leaked>>
  PROVE  ListsOK'
  BY MaxPathsAssumption DEF ListsOK, delete_accessible_path2

\* A step of one thread leaves the others where they are.
LEMMA OthersLocated ==
  ASSUME TypeInv, NEW c \in Conn, NEW from, NEW to, Step(c, from, to),
         LocatedAt(c)',
         \A x \in Conn \ {c} : req'[x] = req[x] /\ fd'[x] = fd[x],
         leaked' \subseteq leaked \cup {c}
  PROVE  Located'
<1> SUFFICES ASSUME NEW x \in Conn, x # c
             PROVE  LocatedAt(x)'
  BY DEF Located
<1>1. pc'[x] = pc[x] /\ (x \in leaked' => x \in leaked)
  BY DEF Step, TypeInv, TypeOK, ConnsOK, ListsOK
<1>2. LocatedAt(x)
  BY DEF TypeInv, Located
<1>3. QED
  BY <1>1, <1>2 DEF LocatedAt

LEMMA Labels ==
  {"closed", "gone", "idle", "read_check", "read_register", "read_open",
   "read_block", "read_unregister", "write_check", "write_register",
   "write_recv", "write_open", "write_reply", "write_close",
   "write_unregister", "write_replicate", "write_notify", "copy_recv",
   "copy_open", "copy_close", "copy_notify", "backup_recv", "backup_open",
   "backup_close", "delete_check_writers", "delete_check_readers",
   "delete_stat", "delete_remove", "create_parent", "create_open", "info"} \subseteq Label
  BY DEF Label

LEMMA Moves ==
  ASSUME ConnsOK, NEW c \in Conn, NEW from, NEW to \in Label, Step(c, from, to)
  PROVE  pc' \in [Conn -> Label] /\ pc[c] = from /\ pc'[c] = to
  BY DEF ConnsOK, Step

LEMMA Answers ==
  ASSUME ConnsOK, NEW c \in Conn,
         NEW text \in {"info", "none", "created", "not created", "deleted",
                       "a client is writing", "a client is reading",
                       "data received", "synchronous writing done"},
         Answer(c, text)
  PROVE  reply' \in [Conn -> Reply]
<1>1. text \in Reply
  BY DEF Reply
<1>2. QED
  BY <1>1 DEF ConnsOK, Answer

LEMMA Opens ==
  ASSUME FsOK, ConnsOK, NEW c \in Conn, NEW f \in File, OpenForWriting(c, f)
  PROVE  /\ fd' \in [Conn -> Inode \cup {None}]
         /\ fd'[c] \in Inode
         /\ \A x \in Conn \ {c} : fd'[x] = fd[x]
         /\ disk' \in [File -> Inode \cup {None}]
<1>1. c \in Inode
  BY DEF Inode
<1>2. disk[f] \in Inode \cup {None}
  BY DEF FsOK
<1>3. QED
  BY <1>1, <1>2 DEF FsOK, ConnsOK, OpenForWriting

LEMMA SendType ==
  ASSUME ConnsOK, NEW c \in Conn, NEW from, NEW to \in Label, NEW message \in Message,
         Send(c, from, to, message)
  PROVE  ConnsOK' /\ UNCHANGED <<req, fd, lists, fs>> /\ Step(c, from, to)
<1>1. pc' \in [Conn -> Label]
  BY Moves DEF Send
<1>2. sent' \in [Conn -> SUBSET Message]
  BY DEF Send, ConnsOK
<1>3. QED
  BY <1>1, <1>2 DEF Send, ConnsOK

LEMMA TypeInit == Init => TypeInv
<1> SUFFICES ASSUME Init
             PROVE  TypeInv
  OBVIOUS
<1>1. ConnsOK
  BY Labels DEF Init, ConnsOK, Reply
<1>2. ListsOK
  BY MaxPathsAssumption DEF Init, ListsOK
<1>3. FsOK
  <2>1. disk \in [File -> Inode \cup {None}] /\ dirs \subseteq Dir
    BY PathAssumption DEF Init, Inode
  <2>2. \A i \in Inode : <<i>> \in Seq(Inode) /\ <<>> \in Seq(Inode)
    OBVIOUS
  <2>3. content \in [Inode -> Seq(Inode)]
    BY <2>2 DEF Init
  <2>4. QED
    BY <2>1, <2>3 DEF FsOK
<1>4. Located
  BY DEF Init, Located, LocatedAt, ReadHolding, WriteHolding
<1>5. QED
  BY <1>1, <1>2, <1>3, <1>4 DEF TypeInv, TypeOK

\* Every step keeps the types and the threads at their locations.
LEMMA TypeStep == TypeInv /\ [Next]_vars => TypeInv'
<1> SUFFICES ASSUME TypeInv, [Next]_vars
             PROVE  TypeInv'
  OBVIOUS
<1>1. ASSUME NEW c \in Conn, NEW r \in Request, Accept(c, r)
      PROVE  TypeInv'
  <2>1. LocatedAt(c) /\ ConnsOK /\ ListsOK /\ FsOK
    BY DEF TypeInv, TypeOK, Located
  <2>2. r \in AnyRequest
    BY RequestAssumption
  <2>3. /\ r.op \in {"READ", "WRITE", "COPY_FILE", "Backup", "DELETE", "CREATE", "INFO"}
        /\ Step(c, "idle", FirstStep[r.op])
    BY <1>1, <2>2 DEF AnyRequest, Accept
  <2>4. FirstStep[r.op] \in Label
    BY <2>3, Labels DEF FirstStep
  <2>5. pc' \in [Conn -> Label] /\ pc[c] = "idle" /\ pc'[c] = FirstStep[r.op]
    BY <2>1, <2>3, <2>4, Moves
  <2>6. ConnsOK' /\ ListsOK' /\ FsOK'
    BY <1>1, <2>1, <2>2, <2>5 DEF ConnsOK, ListsOK, FsOK, Accept, lists, fs
  <2>7. req'[c] = r /\ leaked' = leaked /\ fd' = fd /\ \A x \in Conn \ {c} : req'[x] = req[x]
    BY <1>1, <2>1 DEF ConnsOK, Accept, lists
  <2>8. LocatedAt(c)'
    BY <2>1, <2>3, <2>5, <2>7 DEF LocatedAt, ReadHolding, WriteHolding, FirstStep
  <2>9. QED
    BY <2>3, <2>6, <2>7, <2>8, OthersLocated DEF TypeInv, TypeOK
<1>2. ASSUME NEW c \in Conn, ReadCheck(c)
      PROVE  TypeInv'
  <2>1. LocatedAt(c) /\ PathsOK(c) /\ ConnsOK /\ ListsOK /\ FsOK
    BY RequestPaths DEF TypeInv, TypeOK, Located
  <2>2. \E to \in {"read_register", "closed"} : Step(c, "read_check", to)
    BY <1>2 DEF ReadCheck
  <2>3. pc' \in [Conn -> Label] /\ pc[c] = "read_check" /\ pc'[c] \in {"read_register", "closed"}
    BY <2>1, <2>2, Moves, Labels
  <2>4. ConnsOK'
    BY <1>2, <2>1, <2>3, Answers DEF ConnsOK, ReadCheck
  <2>5. ListsOK'
    BY <1>2, <2>1 DEF ListsOK, ReadCheck, lists
  <2>6. FsOK'
    BY <1>2, <2>1 DEF FsOK, ReadCheck, fs
  <2>7. LocatedAt(c)'
    BY <1>2, <2>1, <2>3 DEF LocatedAt, PathsOK, ReadHolding, WriteHolding, ReadCheck, lists
  <2>8. QED
    BY <1>2, <2>1, <2>2, <2>4, <2>5, <2>6, <2>7, OthersLocated DEF TypeInv, TypeOK, ConnsOK, lists, ReadCheck
<1>3. ASSUME NEW c \in Conn, ReadRegister(c)
      PROVE  TypeInv'
  <2>1. LocatedAt(c) /\ PathsOK(c) /\ ConnsOK /\ ListsOK /\ FsOK
    BY RequestPaths DEF TypeInv, TypeOK, Located
  <2>2. \E to \in {"read_open"} : Step(c, "read_register", to)
    BY <1>3 DEF ReadRegister, add_accessible_path2
  <2>3. pc' \in [Conn -> Label] /\ pc[c] = "read_register" /\ pc'[c] \in {"read_open"}
    BY <2>1, <2>2, Moves, Labels
  <2>4. ConnsOK'
    BY <1>3, <2>1, <2>3 DEF ConnsOK, ReadRegister, add_accessible_path2
  <2>5. ListsOK'
    BY <1>3, <2>1, <2>3, AddType2 DEF LocatedAt, PathsOK, ReadHolding, WriteHolding, ReadRegister, add_accessible_path2
  <2>6. FsOK'
    BY <1>3, <2>1 DEF FsOK, ReadRegister, add_accessible_path2, fs
  <2>7. LocatedAt(c)'
    BY <1>3, <2>1, <2>3 DEF LocatedAt, PathsOK, ReadHolding, WriteHolding, ReadRegister, add_accessible_path2, lists
  <2>8. QED
    BY <1>3, <2>1, <2>2, <2>4, <2>5, <2>6, <2>7, OthersLocated DEF TypeInv, TypeOK, ConnsOK, lists, ReadRegister, add_accessible_path2
<1>4. ASSUME NEW c \in Conn, ReadOpen(c)
      PROVE  TypeInv'
  <2>1. LocatedAt(c) /\ PathsOK(c) /\ ConnsOK /\ ListsOK /\ FsOK
    BY RequestPaths DEF TypeInv, TypeOK, Located
  <2>2. \/ /\ Step(c, "read_open", "closed") /\ fd' = fd
           /\ leaked' = leaked \cup {c}
        \/ /\ Step(c, "read_open", "read_block") /\ disk[req[c].path] # None
           /\ fd' = [fd EXCEPT ![c] = disk[req[c].path]] /\ leaked' = leaked
    BY <1>4 DEF ReadOpen, lists
  <2>3. pc' \in [Conn -> Label] /\ pc[c] = "read_open"
    BY <2>1, <2>2, Moves, Labels
  <2>4. \/ pc'[c] = "closed" /\ fd' = fd /\ leaked' = leaked \cup {c}
        \/ /\ pc'[c] = "read_block" /\ disk[req[c].path] # None
           /\ fd' = [fd EXCEPT ![c] = disk[req[c].path]] /\ leaked' = leaked
    BY <2>1, <2>2, Moves, Labels
  <2>5. disk[req[c].path] \in Inode \cup {None} /\ req[c].op = "READ"
    BY <2>1, <2>3 DEF LocatedAt, PathsOK, ReadHolding, FsOK
  <2>6. /\ fd' \in [Conn -> Inode \cup {None}]
        /\ \A x \in Conn \ {c} : fd'[x] = fd[x]
        /\ pc'[c] = "read_block" => fd'[c] \in Inode
    BY <2>1, <2>4, <2>5 DEF ConnsOK
  <2>7. ConnsOK' /\ req' = req
    BY <1>4, <2>1, <2>3, <2>6 DEF ConnsOK, ReadOpen
  <2>8. ListsOK' /\ FsOK'
    BY <1>4, <2>1 DEF ListsOK, FsOK, ReadOpen, lists, fs
  <2>9. LocatedAt(c)'
    BY <2>1, <2>3, <2>4, <2>5, <2>6, <2>7 DEF LocatedAt, ReadHolding, WriteHolding
  <2>10. QED
    BY <2>2, <2>4, <2>6, <2>7, <2>8, <2>9, OthersLocated DEF TypeInv, TypeOK
<1>5. ASSUME NEW c \in Conn, ReadBlock(c)
      PROVE  TypeInv'
  <2>1. LocatedAt(c) /\ PathsOK(c) /\ ConnsOK /\ ListsOK /\ FsOK
    BY RequestPaths DEF TypeInv, TypeOK, Located
  <2>2. \E to \in {"read_block", "read_unregister"} : Step(c, "read_block", to)
    BY <1>5 DEF ReadBlock
  <2>3. pc' \in [Conn -> Label] /\ pc[c] = "read_block" /\ pc'[c] \in {"read_block", "read_unregister"}
    BY <2>1, <2>2, Moves, Labels
  <2>4. content[fd[c]] \in Seq(Inode) /\ got[c] \in Seq(Inode)
    BY <2>1, <2>3 DEF LocatedAt, FsOK, ConnsOK
  <2>5. ASSUME Len(got[c]) + 1 <= Len(content[fd[c]])
        PROVE  Append(got[c], content[fd[c]][Len(got[c]) + 1]) \in Seq(Inode)
    BY <2>4, <2>5
  <2>6. got' \in [Conn -> Seq(Inode)]
    BY <1>5, <2>1, <2>5 DEF ConnsOK, ReadBlock
  <2>7. ConnsOK' /\ ListsOK' /\ FsOK' /\ UNCHANGED <<req, fd, leaked>>
    BY <1>5, <2>1, <2>3, <2>6 DEF ConnsOK, ListsOK, FsOK, ReadBlock, lists, fs
  <2>8. LocatedAt(c)'
    BY <2>1, <2>3, <2>7 DEF LocatedAt, ReadHolding, WriteHolding
  <2>9. QED
    BY <2>2, <2>7, <2>8, OthersLocated DEF TypeInv, TypeOK
<1>6. ASSUME NEW c \in Conn, ReadUnregister(c)
      PROVE  TypeInv'
  <2>1. LocatedAt(c) /\ PathsOK(c) /\ ConnsOK /\ ListsOK /\ FsOK
    BY RequestPaths DEF TypeInv, TypeOK, Located
  <2>2. \E to \in {"closed"} : Step(c, "read_unregister", to)
    BY <1>6 DEF ReadUnregister, delete_accessible_path2
  <2>3. pc' \in [Conn -> Label] /\ pc[c] = "read_unregister" /\ pc'[c] \in {"closed"}
    BY <2>1, <2>2, Moves, Labels
  <2>4. ConnsOK'
    BY <1>6, <2>1, <2>3 DEF ConnsOK, ReadUnregister, delete_accessible_path2
  <2>5. ListsOK'
    BY <1>6, <2>1, <2>3, DeleteType2 DEF LocatedAt, PathsOK, ReadHolding, WriteHolding, ReadUnregister, delete_accessible_path2
  <2>6. FsOK'
    BY <1>6, <2>1 DEF FsOK, ReadUnregister, delete_accessible_path2, fs
  <2>7. LocatedAt(c)'
    BY <1>6, <2>1, <2>3 DEF LocatedAt, PathsOK, ReadHolding, WriteHolding, ReadUnregister, delete_accessible_path2, lists
  <2>8. QED
    BY <1>6, <2>1, <2>2, <2>4, <2>5, <2>6, <2>7, OthersLocated DEF TypeInv, TypeOK, ConnsOK, lists, ReadUnregister, delete_accessible_path2
<1>7. ASSUME NEW c \in Conn, WriteCheck(c)
      PROVE  TypeInv'
  <2>1. LocatedAt(c) /\ PathsOK(c) /\ ConnsOK /\ ListsOK /\ FsOK
    BY RequestPaths DEF TypeInv, TypeOK, Located
  <2>2. \E to \in {"write_register", "closed", "write_notify"} : Step(c, "write_check", to)
    BY <1>7 DEF WriteCheck, AfterWrite
  <2>3. pc' \in [Conn -> Label] /\ pc[c] = "write_check" /\ pc'[c] \in {"write_register", "closed", "write_notify"}
    BY <2>1, <2>2, Moves, Labels
  <2>4. ConnsOK'
    BY <1>7, <2>1, <2>3, Answers DEF ConnsOK, WriteCheck, AfterWrite
  <2>5. ListsOK'
    BY <1>7, <2>1 DEF ListsOK, WriteCheck, AfterWrite, lists
  <2>6. FsOK'
    BY <1>7, <2>1 DEF FsOK, WriteCheck, AfterWrite, fs
  <2>7. LocatedAt(c)'
    BY <1>7, <2>1, <2>3 DEF LocatedAt, PathsOK, ReadHolding, WriteHolding, WriteCheck, AfterWrite, lists
  <2>8. QED
    BY <1>7, <2>1, <2>2, <2>4, <2>5, <2>6, <2>7, OthersLocated DEF TypeInv, TypeOK, ConnsOK, lists, WriteCheck, AfterWrite
<1>8. ASSUME NEW c \in Conn, WriteRegister(c)
      PROVE  TypeInv'
  <2>1. LocatedAt(c) /\ PathsOK(c) /\ ConnsOK /\ ListsOK /\ FsOK
    BY RequestPaths DEF TypeInv, TypeOK, Located
  <2>2. \E to \in {"write_recv"} : Step(c, "write_register", to)
    BY <1>8 DEF WriteRegister, add_accessible_path, ListedName
  <2>3. pc' \in [Conn -> Label] /\ pc[c] = "write_register" /\ pc'[c] \in {"write_recv"}
    BY <2>1, <2>2, Moves, Labels
  <2>4. ConnsOK'
    BY <1>8, <2>1, <2>3 DEF ConnsOK, WriteRegister, add_accessible_path, ListedName
  <2>5. ListsOK'
    BY <1>8, <2>1, <2>3, AddType DEF LocatedAt, PathsOK, ReadHolding, WriteHolding, WriteRegister, add_accessible_path, ListedName
  <2>6. FsOK'
    BY <1>8, <2>1 DEF FsOK, WriteRegister, add_accessible_path, ListedName, fs
  <2>7. LocatedAt(c)'
    BY <1>8, <2>1, <2>3 DEF LocatedAt, PathsOK, ReadHolding, WriteHolding, WriteRegister, add_accessible_path, ListedName, lists
  <2>8. QED
    BY <1>8, <2>1, <2>2, <2>4, <2>5, <2>6, <2>7, OthersLocated DEF TypeInv, TypeOK, ConnsOK, lists, WriteRegister, add_accessible_path, ListedName
<1>9. ASSUME NEW c \in Conn, WriteRecv(c)
      PROVE  TypeInv'
  <2>1. LocatedAt(c) /\ PathsOK(c) /\ ConnsOK /\ ListsOK /\ FsOK
    BY RequestPaths DEF TypeInv, TypeOK, Located
  <2>2. \/ Step(c, "write_recv", "write_open") /\ leaked' = leaked
        \/ /\ \E to \in {"closed", "write_notify"} : Step(c, "write_recv", to)
           /\ leaked' = leaked \cup {c}
    BY <1>9 DEF WriteRecv, WriteAbandon, AfterWrite, lists
  <2>3. pc' \in [Conn -> Label] /\ pc[c] = "write_recv"
    BY <2>1, <2>2, Moves, Labels
  <2>4. \/ pc'[c] = "write_open" /\ leaked' = leaked
        \/ pc'[c] \in {"closed", "write_notify"} /\ leaked' = leaked \cup {c}
    BY <2>1, <2>2, Moves, Labels
  <2>5. ConnsOK' /\ UNCHANGED <<req, fd>>
    BY <1>9, <2>1, <2>3 DEF ConnsOK, WriteRecv, WriteAbandon
  <2>6. ListsOK' /\ FsOK'
    BY <1>9, <2>1 DEF ListsOK, FsOK, WriteRecv, WriteAbandon, lists, fs
  <2>7. LocatedAt(c)'
    BY <2>1, <2>3, <2>4, <2>5 DEF LocatedAt, ReadHolding, WriteHolding
  <2>8. QED
    BY <2>2, <2>5, <2>6, <2>7, OthersLocated DEF TypeInv, TypeOK
<1>10. ASSUME NEW c \in Conn, WriteOpen(c)
      PROVE  TypeInv'
  <2>1. LocatedAt(c) /\ PathsOK(c) /\ ConnsOK /\ ListsOK /\ FsOK
    BY RequestPaths DEF TypeInv, TypeOK, Located
  <2>2. CASE /\ Step(c, "write_open", "write_reply")
             /\ OpenForWriting(c, req[c].path)
             /\ UNCHANGED <<req, loaded, got, reply, sent, lists, dirs, content>>
    <3>1. pc' \in [Conn -> Label] /\ pc[c] = "write_open" /\ pc'[c] = "write_reply"
      BY <2>1, <2>2, Moves, Labels
    <3>2. req[c].path \in File /\ req[c].op = "WRITE"
      BY <2>1, <3>1 DEF LocatedAt, PathsOK, WriteHolding
    <3>3. /\ fd' \in [Conn -> Inode \cup {None}] /\ fd'[c] \in Inode
          /\ \A x \in Conn \ {c} : fd'[x] = fd[x]
          /\ disk' \in [File -> Inode \cup {None}]
      BY <2>1, <2>2, <3>2, Opens
    <3>4. ConnsOK' /\ ListsOK' /\ FsOK' /\ UNCHANGED <<req, leaked>>
      BY <2>1, <2>2, <3>1, <3>3 DEF ConnsOK, ListsOK, FsOK, lists
    <3>5. LocatedAt(c)'
      BY <2>1, <3>1, <3>2, <3>3, <3>4 DEF LocatedAt, ReadHolding, WriteHolding
    <3>6. QED
      BY <2>2, <3>3, <3>4, <3>5, OthersLocated DEF TypeInv, TypeOK
  <2>3. CASE WriteAbandon(c, "write_open")
    <3>1. \E to \in {"closed", "write_notify"} : Step(c, "write_open", to)
      BY <2>3 DEF WriteAbandon, AfterWrite
    <3>2. pc' \in [Conn -> Label] /\ pc[c] = "write_open" /\ pc'[c] \in {"closed", "write_notify"}
      BY <2>1, <3>1, Moves, Labels
    <3>3. ConnsOK' /\ ListsOK' /\ FsOK' /\ UNCHANGED <<req, fd>> /\ leaked' = leaked \cup {c}
      BY <2>1, <2>3, <3>2 DEF ConnsOK, ListsOK, FsOK, WriteAbandon, fs
    <3>4. LocatedAt(c)'
      BY <2>1, <3>2, <3>3 DEF LocatedAt, ReadHolding, WriteHolding
    <3>5. QED
      BY <3>1, <3>3, <3>4, OthersLocated DEF TypeInv, TypeOK
  <2>4. QED
    BY <1>10, <2>2, <2>3 DEF WriteOpen
<1>11. ASSUME NEW c \in Conn, WriteReply(c)
      PROVE  TypeInv'
  <2>1. LocatedAt(c) /\ PathsOK(c) /\ ConnsOK /\ ListsOK /\ FsOK
    BY RequestPaths DEF TypeInv, TypeOK, Located
  <2>2. \E to \in {"write_close"} : Step(c, "write_reply", to)
    BY <1>11 DEF WriteReply
  <2>3. pc' \in [Conn -> Label] /\ pc[c] = "write_reply" /\ pc'[c] \in {"write_close"}
    BY <2>1, <2>2, Moves, Labels
  <2>4. ConnsOK'
    BY <1>11, <2>1, <2>3, Answers DEF ConnsOK, WriteReply
  <2>5. ListsOK'
    BY <1>11, <2>1 DEF ListsOK, WriteReply, lists
  <2>6. FsOK'
    BY <1>11, <2>1 DEF FsOK, WriteReply, fs
  <2>7. LocatedAt(c)'
    BY <1>11, <2>1, <2>3 DEF LocatedAt, PathsOK, ReadHolding, WriteHolding, WriteReply, lists
  <2>8. QED
    BY <1>11, <2>1, <2>2, <2>4, <2>5, <2>6, <2>7, OthersLocated DEF TypeInv, TypeOK, ConnsOK, lists, WriteReply
<1>12. ASSUME NEW c \in Conn, WriteClose(c)
      PROVE  TypeInv'
  <2>1. LocatedAt(c) /\ PathsOK(c) /\ ConnsOK /\ ListsOK /\ FsOK
    BY RequestPaths DEF TypeInv, TypeOK, Located
  <2>2. \E to \in {"write_unregister"} : Step(c, "write_close", to)
    BY <1>12 DEF WriteClose
  <2>3. pc' \in [Conn -> Label] /\ pc[c] = "write_close" /\ pc'[c] \in {"write_unregister"}
    BY <2>1, <2>2, Moves, Labels
  <2>4. ConnsOK'
    BY <1>12, <2>1, <2>3 DEF ConnsOK, WriteClose
  <2>5. ListsOK'
    BY <1>12, <2>1 DEF ListsOK, WriteClose, lists
  <2>6. FsOK'
    BY <1>12, <2>1, <2>3, PathAssumption DEF FsOK, LocatedAt, PathsOK, WriteHolding, Inode, WriteClose
  <2>7. LocatedAt(c)'
    BY <1>12, <2>1, <2>3 DEF LocatedAt, PathsOK, ReadHolding, WriteHolding, WriteClose, lists
  <2>8. QED
    BY <1>12, <2>1, <2>2, <2>4, <2>5, <2>6, <2>7, OthersLocated DEF TypeInv, TypeOK, ConnsOK, lists, WriteClose
<1>13. ASSUME NEW c \in Conn, WriteUnregister(c)
      PROVE  TypeInv'
  <2>1. LocatedAt(c) /\ PathsOK(c) /\ ConnsOK /\ ListsOK /\ FsOK
    BY RequestPaths DEF TypeInv, TypeOK, Located
  <2>2. \E to \in {"write_replicate"} : Step(c, "write_unregister", to)
    BY <1>13 DEF WriteUnregister, delete_accessible_path, StrippedName
  <2>3. pc' \in [Conn -> Label] /\ pc[c] = "write_unregister" /\ pc'[c] \in {"write_replicate"}
    BY <2>1, <2>2, Moves, Labels
  <2>4. ConnsOK'
    BY <1>13, <2>1, <2>3 DEF ConnsOK, WriteUnregister, delete_accessible_path, StrippedName
  <2>5. ListsOK'
    <3>1. StrippedName(c) \in File \X Flag
      BY <2>1, <2>3 DEF LocatedAt, PathsOK, WriteHolding, StrippedName, Flag
    <3>2. QED
      BY <1>13, <2>1, <3>1, DeleteType DEF WriteUnregister
  <2>6. FsOK'
    BY <1>13, <2>1 DEF FsOK, WriteUnregister, delete_accessible_path, StrippedName, fs
  <2>7. LocatedAt(c)'
    BY <1>13, <2>1, <2>3 DEF LocatedAt, PathsOK, ReadHolding, WriteHolding, WriteUnregister, delete_accessible_path, StrippedName, lists
  <2>8. QED
    BY <1>13, <2>1, <2>2, <2>4, <2>5, <2>6, <2>7, OthersLocated DEF TypeInv, TypeOK, ConnsOK, lists, WriteUnregister, delete_accessible_path, StrippedName
<1>14. ASSUME NEW c \in Conn, WriteReplicate(c)
      PROVE  TypeInv'
  <2>1. LocatedAt(c) /\ PathsOK(c) /\ ConnsOK /\ ListsOK /\ FsOK
    BY RequestPaths DEF TypeInv, TypeOK, Located
  <2>2. ConnsOK' /\ UNCHANGED <<req, fd, lists, fs>> /\ \E to \in {"closed", "write_notify"} : Step(c, "write_replicate", to)
    BY <1>14, <2>1, SendType, Labels DEF WriteReplicate, AfterWrite, Message
  <2>3. pc[c] = "write_replicate" /\ pc'[c] \in {"closed", "write_notify"}
    BY <2>1, <2>2, Moves, Labels
  <2>4. ListsOK' /\ FsOK'
    BY <2>1, <2>2 DEF ListsOK, FsOK, lists, fs
  <2>5. LocatedAt(c)'
    BY <2>1, <2>2, <2>3 DEF LocatedAt, ReadHolding, WriteHolding, lists
  <2>6. QED
    BY <2>2, <2>4, <2>5, OthersLocated DEF TypeInv, TypeOK, lists
<1>15. ASSUME NEW c \in Conn, WriteNotify(c)
      PROVE  TypeInv'
  <2>1. LocatedAt(c) /\ PathsOK(c) /\ ConnsOK /\ ListsOK /\ FsOK
    BY RequestPaths DEF TypeInv, TypeOK, Located
  <2>2. ConnsOK' /\ UNCHANGED <<req, fd, lists, fs>> /\ \E to \in {"closed"} : Step(c, "write_notify", to)
    BY <1>15, <2>1, SendType, Labels DEF WriteNotify, Message
  <2>3. pc[c] = "write_notify" /\ pc'[c] \in {"closed"}
    BY <2>1, <2>2, Moves, Labels
  <2>4. ListsOK' /\ FsOK'
    BY <2>1, <2>2 DEF ListsOK, FsOK, lists, fs
  <2>5. LocatedAt(c)'
    BY <2>1, <2>2, <2>3 DEF LocatedAt, ReadHolding, WriteHolding, lists
  <2>6. QED
    BY <2>2, <2>4, <2>5, OthersLocated DEF TypeInv, TypeOK, lists
<1>16. ASSUME NEW c \in Conn, CopyRecv(c)
      PROVE  TypeInv'
  <2>1. LocatedAt(c) /\ PathsOK(c) /\ ConnsOK /\ ListsOK /\ FsOK
    BY RequestPaths DEF TypeInv, TypeOK, Located
  <2>2. \E to \in {"copy_open", "copy_notify"} : Step(c, "copy_recv", to)
    BY <1>16 DEF CopyRecv
  <2>3. pc' \in [Conn -> Label] /\ pc[c] = "copy_recv" /\ pc'[c] \in {"copy_open", "copy_notify"}
    BY <2>1, <2>2, Moves, Labels
  <2>4. ConnsOK'
    BY <1>16, <2>1, <2>3 DEF ConnsOK, CopyRecv
  <2>5. ListsOK'
    BY <1>16, <2>1 DEF ListsOK, CopyRecv, lists
  <2>6. FsOK'
    BY <1>16, <2>1 DEF FsOK, CopyRecv, fs
  <2>7. LocatedAt(c)'
    BY <1>16, <2>1, <2>3 DEF LocatedAt, PathsOK, ReadHolding, WriteHolding, CopyRecv, lists
  <2>8. QED
    BY <1>16, <2>1, <2>2, <2>4, <2>5, <2>6, <2>7, OthersLocated DEF TypeInv, TypeOK, ConnsOK, lists, CopyRecv
<1>17. ASSUME NEW c \in Conn, CopyOpen(c)
      PROVE  TypeInv'
  <2>1. LocatedAt(c) /\ PathsOK(c) /\ ConnsOK /\ ListsOK /\ FsOK
    BY RequestPaths DEF TypeInv, TypeOK, Located
  <2>2. CASE /\ Step(c, "copy_open", "copy_close")
             /\ OpenForWriting(c, req[c].path)
             /\ content' = [content EXCEPT ![fd'[c]] = <<>>] /\ Answer(c, "data received")
             /\ UNCHANGED <<req, loaded, got, sent, lists, dirs>>
    <3>1. pc' \in [Conn -> Label] /\ pc[c] = "copy_open" /\ pc'[c] = "copy_close"
      BY <2>1, <2>2, Moves, Labels
    <3>2. req[c].path \in File /\ req[c].op = "COPY_FILE"
      BY <2>1, <3>1 DEF LocatedAt, PathsOK
    <3>3. /\ fd' \in [Conn -> Inode \cup {None}] /\ fd'[c] \in Inode
          /\ \A x \in Conn \ {c} : fd'[x] = fd[x]
          /\ disk' \in [File -> Inode \cup {None}]
      BY <2>1, <2>2, <3>2, Opens
    <3>4. content' \in [Inode -> Seq(Inode)] /\ reply' \in [Conn -> Reply]
      <4>1. <<>> \in Seq(Inode)
        OBVIOUS
      <4>2. content' \in [Inode -> Seq(Inode)]
        BY <2>1, <2>2, <3>3, <4>1 DEF FsOK
      <4>3. QED
        BY <2>1, <2>2, <4>2, Answers
    <3>5. ConnsOK' /\ ListsOK' /\ FsOK' /\ UNCHANGED <<req, leaked>>
      BY <2>1, <2>2, <3>1, <3>3, <3>4 DEF ConnsOK, ListsOK, FsOK, lists
    <3>6. LocatedAt(c)'
      BY <2>1, <3>1, <3>2, <3>3, <3>5 DEF LocatedAt, ReadHolding, WriteHolding
    <3>7. QED
      BY <2>2, <3>3, <3>5, <3>6, OthersLocated DEF TypeInv, TypeOK
  <2>3. CASE /\ Step(c, "copy_open", "copy_notify")
             /\ UNCHANGED <<req, fd, loaded, got, reply, sent, lists, fs>>
    <3>1. pc' \in [Conn -> Label] /\ pc[c] = "copy_open" /\ pc'[c] = "copy_notify"
      BY <2>1, <2>3, Moves, Labels
    <3>2. ConnsOK' /\ ListsOK' /\ FsOK' /\ UNCHANGED <<req, fd, leaked>>
      BY <2>1, <2>3, <3>1 DEF ConnsOK, ListsOK, FsOK, lists, fs
    <3>3. LocatedAt(c)'
      BY <2>1, <3>1, <3>2 DEF LocatedAt, ReadHolding, WriteHolding
    <3>4. QED
      BY <2>3, <3>2, <3>3, OthersLocated DEF TypeInv, TypeOK
  <2>4. QED
    BY <1>17, <2>2, <2>3 DEF CopyOpen
<1>18. ASSUME NEW c \in Conn, CopyClose(c)
      PROVE  TypeInv'
  <2>1. LocatedAt(c) /\ PathsOK(c) /\ ConnsOK /\ ListsOK /\ FsOK
    BY RequestPaths DEF TypeInv, TypeOK, Located
  <2>2. \E to \in {"copy_notify"} : Step(c, "copy_close", to)
    BY <1>18 DEF CopyClose
  <2>3. pc' \in [Conn -> Label] /\ pc[c] = "copy_close" /\ pc'[c] \in {"copy_notify"}
    BY <2>1, <2>2, Moves, Labels
  <2>4. ConnsOK'
    BY <1>18, <2>1, <2>3 DEF ConnsOK, CopyClose
  <2>5. ListsOK'
    BY <1>18, <2>1 DEF ListsOK, CopyClose, lists
  <2>6. FsOK'
    <3>1. fd[c] \in Inode /\ c \in Inode
      BY <2>1, <2>3 DEF LocatedAt, Inode
    <3>2. \A data \in Seq(Inode) :
            data # <<>> => [data EXCEPT ![1] = c] \in Seq(Inode)
      BY <3>1
    <3>3. <<c>> \in Seq(Inode)
      BY <3>1
    <3>4. content' \in [Inode -> Seq(Inode)]
      BY <1>18, <2>1, <3>2, <3>3 DEF FsOK, CopyClose
    <3>5. QED
      BY <1>18, <2>1, <3>4 DEF FsOK, CopyClose
  <2>7. LocatedAt(c)'
    BY <1>18, <2>1, <2>3 DEF LocatedAt, PathsOK, ReadHolding, WriteHolding, CopyClose, lists
  <2>8. QED
    BY <1>18, <2>1, <2>2, <2>4, <2>5, <2>6, <2>7, OthersLocated DEF TypeInv, TypeOK, ConnsOK, lists, CopyClose
<1>19. ASSUME NEW c \in Conn, CopyNotify(c)
      PROVE  TypeInv'
  <2>1. LocatedAt(c) /\ PathsOK(c) /\ ConnsOK /\ ListsOK /\ FsOK
    BY RequestPaths DEF TypeInv, TypeOK, Located
  <2>2. ConnsOK' /\ UNCHANGED <<req, fd, lists, fs>> /\ \E to \in {"closed"} : Step(c, "copy_notify", to)
    BY <1>19, <2>1, SendType, Labels DEF CopyNotify, Message
  <2>3. pc[c] = "copy_notify" /\ pc'[c] \in {"closed"}
    BY <2>1, <2>2, Moves, Labels
  <2>4. ListsOK' /\ FsOK'
    BY <2>1, <2>2 DEF ListsOK, FsOK, lists, fs
  <2>5. LocatedAt(c)'
    BY <2>1, <2>2, <2>3 DEF LocatedAt, ReadHolding, WriteHolding, lists
  <2>6. QED
    BY <2>2, <2>4, <2>5, OthersLocated DEF TypeInv, TypeOK, lists
<1>20. ASSUME NEW c \in Conn, BackupRecv(c)
      PROVE  TypeInv'
  <2>1. LocatedAt(c) /\ PathsOK(c) /\ ConnsOK /\ ListsOK /\ FsOK
    BY RequestPaths DEF TypeInv, TypeOK, Located
  <2>2. \E to \in {"backup_open", "closed"} : Step(c, "backup_recv", to)
    BY <1>20 DEF BackupRecv
  <2>3. pc' \in [Conn -> Label] /\ pc[c] = "backup_recv" /\ pc'[c] \in {"backup_open", "closed"}
    BY <2>1, <2>2, Moves, Labels
  <2>4. ConnsOK'
    BY <1>20, <2>1, <2>3 DEF ConnsOK, BackupRecv
  <2>5. ListsOK'
    BY <1>20, <2>1 DEF ListsOK, BackupRecv, lists
  <2>6. FsOK'
    BY <1>20, <2>1 DEF FsOK, BackupRecv, fs
  <2>7. LocatedAt(c)'
    BY <1>20, <2>1, <2>3 DEF LocatedAt, PathsOK, ReadHolding, WriteHolding, BackupRecv, lists
  <2>8. QED
    BY <1>20, <2>1, <2>2, <2>4, <2>5, <2>6, <2>7, OthersLocated DEF TypeInv, TypeOK, ConnsOK, lists, BackupRecv
<1>21. ASSUME NEW c \in Conn, BackupOpen(c)
      PROVE  TypeInv'
  <2>1. LocatedAt(c) /\ PathsOK(c) /\ ConnsOK /\ ListsOK /\ FsOK
    BY RequestPaths DEF TypeInv, TypeOK, Located
  <2>2. CASE /\ Step(c, "backup_open", "backup_close")
             /\ OpenForWriting(c, req[c].path)
             /\ UNCHANGED <<content, reply>>
             /\ UNCHANGED <<req, loaded, got, sent, lists, dirs>>
    <3>1. pc' \in [Conn -> Label] /\ pc[c] = "backup_open" /\ pc'[c] = "backup_close"
      BY <2>1, <2>2, Moves, Labels
    <3>2. req[c].path \in File /\ req[c].op = "Backup"
      BY <2>1, <3>1 DEF LocatedAt, PathsOK
    <3>3. /\ fd' \in [Conn -> Inode \cup {None}] /\ fd'[c] \in Inode
          /\ \A x \in Conn \ {c} : fd'[x] = fd[x]
          /\ disk' \in [File -> Inode \cup {None}]
      BY <2>1, <2>2, <3>2, Opens
    <3>4. content' \in [Inode -> Seq(Inode)] /\ reply' \in [Conn -> Reply]
      BY <2>1, <2>2, <3>3 DEF FsOK, ConnsOK
    <3>5. ConnsOK' /\ ListsOK' /\ FsOK' /\ UNCHANGED <<req, leaked>>
      BY <2>1, <2>2, <3>1, <3>3, <3>4 DEF ConnsOK, ListsOK, FsOK, lists
    <3>6. LocatedAt(c)'
      BY <2>1, <3>1, <3>2, <3>3, <3>5 DEF LocatedAt, ReadHolding, WriteHolding
    <3>7. QED
      BY <2>2, <3>3, <3>5, <3>6, OthersLocated DEF TypeInv, TypeOK
  <2>3. CASE /\ Step(c, "backup_open", "closed")
             /\ UNCHANGED <<req, fd, loaded, got, reply, sent, lists, fs>>
    <3>1. pc' \in [Conn -> Label] /\ pc[c] = "backup_open" /\ pc'[c] = "closed"
      BY <2>1, <2>3, Moves, Labels
    <3>2. ConnsOK' /\ ListsOK' /\ FsOK' /\ UNCHANGED <<req, fd, leaked>>
      BY <2>1, <2>3, <3>1 DEF ConnsOK, ListsOK, FsOK, lists, fs
    <3>3. LocatedAt(c)'
      BY <2>1, <3>1, <3>2 DEF LocatedAt, ReadHolding, WriteHolding
    <3>4. QED
      BY <2>3, <3>2, <3>3, OthersLocated DEF TypeInv, TypeOK
  <2>4. QED
    BY <1>21, <2>2, <2>3 DEF BackupOpen
<1>22. ASSUME NEW c \in Conn, BackupClose(c)
      PROVE  TypeInv'
  <2>1. LocatedAt(c) /\ PathsOK(c) /\ ConnsOK /\ ListsOK /\ FsOK
    BY RequestPaths DEF TypeInv, TypeOK, Located
  <2>2. \E to \in {"closed"} : Step(c, "backup_close", to)
    BY <1>22 DEF BackupClose
  <2>3. pc' \in [Conn -> Label] /\ pc[c] = "backup_close" /\ pc'[c] \in {"closed"}
    BY <2>1, <2>2, Moves, Labels
  <2>4. ConnsOK'
    BY <1>22, <2>1, <2>3 DEF ConnsOK, BackupClose
  <2>5. ListsOK'
    BY <1>22, <2>1 DEF ListsOK, BackupClose, lists
  <2>6. FsOK'
    BY <1>22, <2>1, <2>3, PathAssumption DEF FsOK, LocatedAt, PathsOK, WriteHolding, Inode, BackupClose
  <2>7. LocatedAt(c)'
    BY <1>22, <2>1, <2>3 DEF LocatedAt, PathsOK, ReadHolding, WriteHolding, BackupClose, lists
  <2>8. QED
    BY <1>22, <2>1, <2>2, <2>4, <2>5, <2>6, <2>7, OthersLocated DEF TypeInv, TypeOK, ConnsOK, lists, BackupClose
<1>23. ASSUME NEW c \in Conn, DeleteCheckWriters(c)
      PROVE  TypeInv'
  <2>1. LocatedAt(c) /\ PathsOK(c) /\ ConnsOK /\ ListsOK /\ FsOK
    BY RequestPaths DEF TypeInv, TypeOK, Located
  <2>2. \E to \in {"delete_check_readers", "closed"} : Step(c, "delete_check_writers", to)
    BY <1>23 DEF DeleteCheckWriters
  <2>3. pc' \in [Conn -> Label] /\ pc[c] = "delete_check_writers" /\ pc'[c] \in {"delete_check_readers", "closed"}
    BY <2>1, <2>2, Moves, Labels
  <2>4. ConnsOK'
    BY <1>23, <2>1, <2>3, Answers DEF ConnsOK, DeleteCheckWriters
  <2>5. ListsOK'
    BY <1>23, <2>1 DEF ListsOK, DeleteCheckWriters, lists
  <2>6. FsOK'
    BY <1>23, <2>1 DEF FsOK, DeleteCheckWriters, fs
  <2>7. LocatedAt(c)'
    BY <1>23, <2>1, <2>3 DEF LocatedAt, PathsOK, ReadHolding, WriteHolding, DeleteCheckWriters, lists
  <2>8. QED
    BY <1>23, <2>1, <2>2, <2>4, <2>5, <2>6, <2>7, OthersLocated DEF TypeInv, TypeOK, ConnsOK, lists, DeleteCheckWriters
<1>24. ASSUME NEW c \in Conn, DeleteCheckReaders(c)
      PROVE  TypeInv'
  <2>1. LocatedAt(c) /\ PathsOK(c) /\ ConnsOK /\ ListsOK /\ FsOK
    BY RequestPaths DEF TypeInv, TypeOK, Located
  <2>2. \E to \in {"delete_stat", "closed"} : Step(c, "delete_check_readers", to)
    BY <1>24 DEF DeleteCheckReaders
  <2>3. pc' \in [Conn -> Label] /\ pc[c] = "delete_check_readers" /\ pc'[c] \in {"delete_stat", "closed"}
    BY <2>1, <2>2, Moves, Labels
  <2>4. ConnsOK'
    BY <1>24, <2>1, <2>3, Answers DEF ConnsOK, DeleteCheckReaders
  <2>5. ListsOK'
    BY <1>24, <2>1 DEF ListsOK, DeleteCheckReaders, lists
  <2>6. FsOK'
    BY <1>24, <2>1 DEF FsOK, DeleteCheckReaders, fs
  <2>7. LocatedAt(c)'
    BY <1>24, <2>1, <2>3 DEF LocatedAt, PathsOK, ReadHolding, WriteHolding, DeleteCheckReaders, lists
  <2>8. QED
    BY <1>24, <2>1, <2>2, <2>4, <2>5, <2>6, <2>7, OthersLocated DEF TypeInv, TypeOK, ConnsOK, lists, DeleteCheckReaders
<1>25. ASSUME NEW c \in Conn, DeleteStat(c)
      PROVE  TypeInv'
  <2>1. LocatedAt(c) /\ PathsOK(c) /\ ConnsOK /\ ListsOK /\ FsOK
    BY RequestPaths DEF TypeInv, TypeOK, Located
  <2>2. \E to \in {"delete_remove", "closed"} : Step(c, "delete_stat", to)
    BY <1>25 DEF DeleteStat
  <2>3. pc' \in [Conn -> Label] /\ pc[c] = "delete_stat" /\ pc'[c] \in {"delete_remove", "closed"}
    BY <2>1, <2>2, Moves, Labels
  <2>4. ConnsOK'
    BY <1>25, <2>1, <2>3 DEF ConnsOK, DeleteStat
  <2>5. ListsOK'
    BY <1>25, <2>1 DEF ListsOK, DeleteStat, lists
  <2>6. FsOK'
    BY <1>25, <2>1 DEF FsOK, DeleteStat, fs
  <2>7. LocatedAt(c)'
    BY <1>25, <2>1, <2>3 DEF LocatedAt, PathsOK, ReadHolding, WriteHolding, DeleteStat, lists
  <2>8. QED
    BY <1>25, <2>1, <2>2, <2>4, <2>5, <2>6, <2>7, OthersLocated DEF TypeInv, TypeOK, ConnsOK, lists, DeleteStat
<1>26. ASSUME NEW c \in Conn, DeleteFile(c)
      PROVE  TypeInv'
  <2>1. LocatedAt(c) /\ PathsOK(c) /\ ConnsOK /\ ListsOK /\ FsOK
    BY RequestPaths DEF TypeInv, TypeOK, Located
  <2>2. \E to \in {"closed"} : Step(c, "delete_remove", to)
    BY <1>26 DEF DeleteFile
  <2>3. pc' \in [Conn -> Label] /\ pc[c] = "delete_remove" /\ pc'[c] \in {"closed"}
    BY <2>1, <2>2, Moves, Labels
  <2>4. ConnsOK'
    BY <1>26, <2>1, <2>3, Answers DEF ConnsOK, DeleteFile
  <2>5. ListsOK'
    BY <1>26, <2>1 DEF ListsOK, DeleteFile, lists
  <2>6. FsOK'
    BY <1>26, <2>1, <2>3, PathAssumption DEF FsOK, LocatedAt, PathsOK, WriteHolding, Inode, DeleteFile
  <2>7. LocatedAt(c)'
    BY <1>26, <2>1, <2>3 DEF LocatedAt, PathsOK, ReadHolding, WriteHolding, DeleteFile, lists
  <2>8. QED
    BY <1>26, <2>1, <2>2, <2>4, <2>5, <2>6, <2>7, OthersLocated DEF TypeInv, TypeOK, ConnsOK, lists, DeleteFile
<1>27. ASSUME NEW c \in Conn, DeleteDirectory(c)
      PROVE  TypeInv'
  <2>1. LocatedAt(c) /\ PathsOK(c) /\ ConnsOK /\ ListsOK /\ FsOK
    BY RequestPaths DEF TypeInv, TypeOK, Located
  <2>2. \E to \in {"closed"} : Step(c, "delete_remove", to)
    BY <1>27 DEF DeleteDirectory
  <2>3. pc' \in [Conn -> Label] /\ pc[c] = "delete_remove" /\ pc'[c] \in {"closed"}
    BY <2>1, <2>2, Moves, Labels
  <2>4. ConnsOK'
    BY <1>27, <2>1, <2>3, Answers DEF ConnsOK, DeleteDirectory
  <2>5. ListsOK'
    BY <1>27, <2>1 DEF ListsOK, DeleteDirectory, lists
  <2>6. FsOK'
    BY <1>27, <2>1, <2>3, PathAssumption DEF FsOK, LocatedAt, PathsOK, WriteHolding, Inode, DeleteDirectory
  <2>7. LocatedAt(c)'
    BY <1>27, <2>1, <2>3 DEF LocatedAt, PathsOK, ReadHolding, WriteHolding, DeleteDirectory, lists
  <2>8. QED
    BY <1>27, <2>1, <2>2, <2>4, <2>5, <2>6, <2>7, OthersLocated DEF TypeInv, TypeOK, ConnsOK, lists, DeleteDirectory
<1>28. ASSUME NEW c \in Conn, CreateParent(c)
      PROVE  TypeInv'
  <2>1. LocatedAt(c) /\ PathsOK(c) /\ ConnsOK /\ ListsOK /\ FsOK
    BY RequestPaths DEF TypeInv, TypeOK, Located
  <2>2. \E to \in {"create_open", "closed"} : Step(c, "create_parent", to)
    BY <1>28 DEF CreateParent
  <2>3. pc' \in [Conn -> Label] /\ pc[c] = "create_parent" /\ pc'[c] \in {"create_open", "closed"}
    BY <2>1, <2>2, Moves, Labels
  <2>4. ConnsOK'
    BY <1>28, <2>1, <2>3, Answers DEF ConnsOK, CreateParent
  <2>5. ListsOK'
    BY <1>28, <2>1 DEF ListsOK, CreateParent, lists
  <2>6. FsOK'
    BY <1>28, <2>1, <2>3, PathAssumption DEF FsOK, LocatedAt, PathsOK, WriteHolding, Inode, CreateParent
  <2>7. LocatedAt(c)'
    <3>1. \/ Step(c, "create_parent", "create_open") /\ req[c].path \in File
          \/ Step(c, "create_parent", "closed")
      BY <1>28 DEF CreateParent
    <3>2. pc'[c] = "create_open" => req[c].path \in File
      BY <2>1, <3>1, Moves, Labels
    <3>3. UNCHANGED <<req, fd, leaked>>
      BY <1>28 DEF CreateParent, lists
    <3>4. QED
      BY <2>1, <2>3, <3>2, <3>3 DEF LocatedAt, ReadHolding, WriteHolding
  <2>8. QED
    BY <1>28, <2>1, <2>2, <2>4, <2>5, <2>6, <2>7, OthersLocated DEF TypeInv, TypeOK, ConnsOK, lists, CreateParent
<1>29. ASSUME NEW c \in Conn, CreateOpen(c)
      PROVE  TypeInv'
  <2>1. LocatedAt(c) /\ PathsOK(c) /\ ConnsOK /\ ListsOK /\ FsOK
    BY RequestPaths DEF TypeInv, TypeOK, Located
  <2>2. \E to \in {"closed"} : Step(c, "create_open", to)
    BY <1>29 DEF CreateOpen
  <2>3. pc' \in [Conn -> Label] /\ pc[c] = "create_open" /\ pc'[c] \in {"closed"}
    BY <2>1, <2>2, Moves, Labels
  <2>4. ConnsOK'
    BY <1>29, <2>1, <2>3, Answers, Opens DEF ConnsOK, CreateOpen
  <2>5. ListsOK'
    BY <1>29, <2>1 DEF ListsOK, CreateOpen, lists
  <2>6. FsOK'
    BY <1>29, <2>1, <2>3, Opens, PathAssumption DEF FsOK, LocatedAt, PathsOK, WriteHolding, Inode, CreateOpen
  <2>7. LocatedAt(c)'
    BY <1>29, <2>1, <2>3 DEF LocatedAt, PathsOK, ReadHolding, WriteHolding, CreateOpen, lists
  <2>8. QED
    BY <1>29, <2>1, <2>2, <2>4, <2>5, <2>6, <2>7, OthersLocated DEF TypeInv, TypeOK, ConnsOK, lists, CreateOpen
<1>30. ASSUME NEW c \in Conn, Info(c)
      PROVE  TypeInv'
  <2>1. LocatedAt(c) /\ PathsOK(c) /\ ConnsOK /\ ListsOK /\ FsOK
    BY RequestPaths DEF TypeInv, TypeOK, Located
  <2>2. \E to \in {"closed"} : Step(c, "info", to)
    BY <1>30 DEF Info
  <2>3. pc' \in [Conn -> Label] /\ pc[c] = "info" /\ pc'[c] \in {"closed"}
    BY <2>1, <2>2, Moves, Labels
  <2>4. ConnsOK'
    BY <1>30, <2>1, <2>3, Answers DEF ConnsOK, Info
  <2>5. ListsOK'
    BY <1>30, <2>1 DEF ListsOK, Info, lists
  <2>6. FsOK'
    BY <1>30, <2>1 DEF FsOK, Info, fs
  <2>7. LocatedAt(c)'
    BY <1>30, <2>1, <2>3 DEF LocatedAt, PathsOK, ReadHolding, WriteHolding, Info, lists
  <2>8. QED
    BY <1>30, <2>1, <2>2, <2>4, <2>5, <2>6, <2>7, OthersLocated DEF TypeInv, TypeOK, ConnsOK, lists, Info
<1>31. CASE Crash
  <2>1. Located /\ ConnsOK /\ ListsOK /\ FsOK
    BY DEF TypeInv, TypeOK
  <2>2. \A c \in Conn : pc'[c] \in {"idle", "gone"} /\ (pc'[c] = "idle" => pc[c] = "idle")
    BY <1>31 DEF Crash
  <2>3. pc' \in [Conn -> Label]
    BY <1>31, Labels DEF Crash
  <2>4. ConnsOK' /\ ListsOK' /\ FsOK'
    BY <1>31, <2>1, <2>3, MaxPathsAssumption DEF Crash, ConnsOK, ListsOK, FsOK, fs
  <2>5. ASSUME NEW c \in Conn
        PROVE  LocatedAt(c)'
    BY <1>31, <2>1, <2>2 DEF Crash, Located, LocatedAt, ReadHolding, WriteHolding
  <2>6. QED
    BY <2>4, <2>5 DEF TypeInv, TypeOK, Located
<1>32. CASE UNCHANGED vars
  BY <1>32 DEF vars, conns, lists, fs, TypeInv, TypeOK, ConnsOK, ListsOK, FsOK, Located, LocatedAt
<1>33. QED
  BY <1>1, <1>2, <1>3, <1>4, <1>5, <1>6, <1>7, <1>8, <1>9, <1>10, <1>11, <1>12, <1>13, <1>14, <1>15, <1>16, <1>17, <1>18, <1>19, <1>20, <1>21, <1>22, <1>23, <1>24, <1>25, <1>26, <1>27, <1>28, <1>29, <1>30, <1>31, <1>32 DEF Next, Thread, Read, Write, CopyFile, Backup, Delete, Create

\* The state keeps its shape, and neither list outgrows its array
\* (file_manager.c:16-38).
THEOREM TypeCorrect == Spec => []TypeOK
<1>1. TypeInv => TypeOK
  BY DEF TypeInv
<1>2. QED
  BY <1>1, TypeInit, TypeStep, PTL DEF Spec

-----------------------------------------------------------------------------
(* How a thread moves.                                                     *)

\* A thread that moves leaves the others, and their requests, alone.
LEMMA ThreadMoves ==
  ASSUME TypeInv, NEW c \in Conn, Thread(c)
  PROVE  /\ \A x \in Conn \ {c} : pc'[x] = pc[x]
         /\ req' = req
         /\ leaked' = leaked \/ leaked' = leaked \cup {c}
<1> USE DEF Step, lists
<1>1. CASE Read(c)
  BY <1>1 DEF TypeInv, TypeOK, ConnsOK, Read, ReadCheck, ReadRegister, ReadOpen, ReadBlock, ReadUnregister
<1>2. CASE Write(c)
  BY <1>2 DEF TypeInv, TypeOK, ConnsOK, Write, WriteCheck, WriteRegister, WriteRecv,
     WriteAbandon, WriteOpen, WriteReply, WriteClose, WriteUnregister, WriteReplicate, WriteNotify, Send
<1>3. CASE CopyFile(c)
  BY <1>3 DEF TypeInv, TypeOK, ConnsOK, CopyFile, CopyRecv, CopyOpen, CopyClose, CopyNotify, Send
<1>4. CASE Backup(c)
  BY <1>4 DEF TypeInv, TypeOK, ConnsOK, Backup, BackupRecv, BackupOpen, BackupClose
<1>5. CASE Delete(c)
  BY <1>5 DEF TypeInv, TypeOK, ConnsOK, Delete, DeleteCheckWriters, DeleteCheckReaders,
     DeleteStat, DeleteFile, DeleteDirectory
<1>6. CASE Create(c) \/ Info(c)
  BY <1>6 DEF TypeInv, TypeOK, ConnsOK, Create, CreateParent, CreateOpen, Info
<1>7. QED
  BY <1>1, <1>2, <1>3, <1>4, <1>5, <1>6 DEF Thread

\* Requests other than READ and WRITE touch no list and are on none.
LEMMA OtherRequests ==
  ASSUME TypeInv, NEW c \in Conn,
         CopyFile(c) \/ Backup(c) \/ Delete(c) \/ Create(c) \/ Info(c)
  PROVE  UNCHANGED <<req, lists>> /\ req[c].op \notin {"READ", "WRITE"}
<1>1. LocatedAt(c)
  BY DEF TypeInv, Located
<1> USE DEF Step
<1>2. CASE CopyFile(c)
  BY <1>1, <1>2 DEF LocatedAt, CopyFile, CopyRecv, CopyOpen, CopyClose, CopyNotify, Send
<1>3. CASE Backup(c)
  BY <1>1, <1>3 DEF LocatedAt, Backup, BackupRecv, BackupOpen, BackupClose
<1>4. CASE Delete(c)
  BY <1>1, <1>4 DEF LocatedAt, Delete, DeleteCheckWriters, DeleteCheckReaders,
     DeleteStat, DeleteFile, DeleteDirectory
<1>5. CASE Create(c) \/ Info(c)
  BY <1>1, <1>5 DEF LocatedAt, Create, CreateParent, CreateOpen, Info
<1>6. QED
  BY <1>2, <1>3, <1>4, <1>5

\* A thread serves the request it carries.
LEMMA OwnRequest ==
  ASSUME NEW c \in Conn, LocatedAt(c)
  PROVE  /\ Read(c) => req[c].op = "READ"
         /\ Write(c) => req[c].op = "WRITE"
         /\ CopyFile(c) => req[c].op = "COPY_FILE"
         /\ Backup(c) => req[c].op = "Backup"
         /\ Delete(c) => req[c].op = "DELETE"
         /\ Create(c) => req[c].op = "CREATE"
         /\ Info(c) => req[c].op = "INFO"
<1> USE DEF Step, LocatedAt
<1>1. Read(c) => req[c].op = "READ"
  BY DEF Read, ReadCheck, ReadRegister, ReadOpen, ReadBlock, ReadUnregister, ReadHolding
<1>2. Write(c) => req[c].op = "WRITE"
  BY DEF Write, WriteCheck, WriteRegister, WriteRecv, WriteAbandon, WriteOpen, WriteReply,
     WriteClose, WriteUnregister, WriteReplicate, WriteNotify, Send, WriteHolding
<1>3. CopyFile(c) => req[c].op = "COPY_FILE"
  BY DEF CopyFile, CopyRecv, CopyOpen, CopyClose, CopyNotify, Send
<1>4. Backup(c) => req[c].op = "Backup"
  BY DEF Backup, BackupRecv, BackupOpen, BackupClose
<1>5. Delete(c) => req[c].op = "DELETE"
  BY DEF Delete, DeleteCheckWriters, DeleteCheckReaders, DeleteStat, DeleteFile, DeleteDirectory
<1>6. (Create(c) => req[c].op = "CREATE") /\ (Info(c) => req[c].op = "INFO")
  BY DEF Create, CreateParent, CreateOpen, Info
<1>7. QED
  BY <1>1, <1>2, <1>3, <1>4, <1>5, <1>6

-----------------------------------------------------------------------------
(* The contents of the files.                                              *)

\* What a reader sends comes from the file it opens, and it opens one only
\* once; a COPY_FILE has none open before it opens one.
Unsent ==
  \A c \in Conn : pc[c] \in {"idle", "read_check", "read_register", "read_open"} => got[c] = <<>>
Unopened ==
  \A c \in Conn : pc[c] \in {"idle", "copy_recv", "copy_open"} => fd[c] = None

DiskInv == TypeInv /\ Unsent /\ Unopened

\* A step of one thread leaves what the others have open and have sent.
LEMMA OwnFile ==
  ASSUME TypeInv, NEW c \in Conn, Thread(c)
  PROVE  \A x \in Conn \ {c} : fd'[x] = fd[x] /\ got'[x] = got[x]
<1> USE DEF TypeInv, TypeOK, ConnsOK
<1>1. CASE Read(c)
  BY <1>1 DEF Read, ReadCheck, ReadRegister, ReadOpen, ReadBlock, ReadUnregister
<1>2. CASE Write(c)
  BY <1>2 DEF Write, WriteCheck, WriteRegister, WriteRecv, WriteAbandon, WriteOpen, WriteReply,
     WriteClose, WriteUnregister, WriteReplicate, WriteNotify, Send, OpenForWriting
<1>3. CASE CopyFile(c)
  BY <1>3 DEF CopyFile, CopyRecv, CopyOpen, CopyClose, CopyNotify, Send, OpenForWriting
<1>4. CASE Backup(c)
  BY <1>4 DEF Backup, BackupRecv, BackupOpen, BackupClose, OpenForWriting
<1>5. CASE Delete(c)
  BY <1>5 DEF Delete, DeleteCheckWriters, DeleteCheckReaders, DeleteStat, DeleteFile, DeleteDirectory
<1>6. CASE Create(c) \/ Info(c)
  BY <1>6 DEF Create, CreateParent, CreateOpen, Info
<1>7. QED
  BY <1>1, <1>2, <1>3, <1>4, <1>5, <1>6 DEF Thread

\* Only a read sends a file, and only the opening of one opens it: where the
\* thread is afterwards it has sent nothing, or opened nothing, yet.
LEMMA OwnStart ==
  ASSUME DiskInv, NEW c \in Conn, Thread(c)
  PROVE  /\ pc'[c] \in {"idle", "read_check", "read_register", "read_open"} => got'[c] = <<>>
         /\ pc'[c] \in {"idle", "copy_recv", "copy_open"} => fd'[c] = None
<1>1. pc \in [Conn -> Label] /\ LocatedAt(c)
  BY DEF DiskInv, TypeInv, TypeOK, ConnsOK, Located
<1> USE DEF Step
<1>2. CASE Read(c)
  BY <1>1, <1>2 DEF DiskInv, Unsent, Read, ReadCheck, ReadRegister, ReadOpen, ReadBlock, ReadUnregister
<1>3. CASE Write(c)
  BY <1>1, <1>3 DEF Write, WriteCheck, WriteRegister, WriteRecv, WriteAbandon, WriteOpen, WriteReply,
     WriteClose, WriteUnregister, WriteReplicate, WriteNotify, AfterWrite, Send
<1>4. CASE CopyFile(c)
  BY <1>1, <1>4 DEF DiskInv, Unopened, CopyFile, CopyRecv, CopyOpen, CopyClose, CopyNotify, Send
<1>5. CASE Backup(c)
  BY <1>1, <1>5 DEF Backup, BackupRecv, BackupOpen, BackupClose
<1>6. CASE Delete(c)
  BY <1>1, <1>6 DEF Delete, DeleteCheckWriters, DeleteCheckReaders, DeleteStat, DeleteFile, DeleteDirectory
<1>7. CASE Create(c) \/ Info(c)
  BY <1>1, <1>7 DEF Create, CreateParent, CreateOpen, Info
<1>8. QED
  BY <1>2, <1>3, <1>4, <1>5, <1>6, <1>7 DEF Thread

LEMMA DiskStep == DiskInv /\ [Next]_vars => DiskInv'
<1> SUFFICES ASSUME DiskInv, [Next]_vars
             PROVE  Unsent' /\ Unopened'
  BY TypeStep DEF DiskInv
<1>1. TypeInv /\ ConnsOK
  BY DEF DiskInv, TypeInv, TypeOK
<1>2. ASSUME NEW c \in Conn, Thread(c)
      PROVE  Unsent' /\ Unopened'
  BY <1>1, <1>2, OwnFile, OwnStart, ThreadMoves DEF DiskInv, Unsent, Unopened
<1>3. ASSUME NEW c \in Conn, NEW r \in Request, Accept(c, r)
      PROVE  Unsent' /\ Unopened'
  <2>1. fd' = fd /\ got' = got /\ pc[c] = "idle" /\ \A x \in Conn \ {c} : pc'[x] = pc[x]
    BY <1>1, <1>3 DEF Accept, Step, ConnsOK
  <2>2. QED
    BY <2>1 DEF DiskInv, Unsent, Unopened
<1>4. CASE Crash
  <2>1. fd' = fd /\ got' = got /\ \A x \in Conn : pc'[x] \in {"idle", "gone"} /\ (pc'[x] = "idle" => pc[x] = "idle")
    BY <1>4 DEF Crash
  <2>2. QED
    BY <2>1 DEF DiskInv, Unsent, Unopened
<1>5. CASE UNCHANGED vars
  BY <1>5 DEF vars, conns, DiskInv, Unsent, Unopened
<1>6. QED
  BY <1>2, <1>3, <1>4, <1>5 DEF Next

LEMMA DiskInvariant == Spec => []DiskInv
<1>1. Init => DiskInv
  BY TypeInit DEF Init, DiskInv, Unsent, Unopened
<1>2. QED
  BY <1>1, DiskStep, PTL DEF Spec

\* A step changes the contents of one inode at most: at its end, or those of
\* the file that a COPY_FILE has open.
Grows(i) == \E x \in Inode : content'[i] = Append(content[i], x)

LEMMA ContentMoves ==
  ASSUME TypeInv, [Next]_vars, NEW i \in Inode
  PROVE  content'[i] = content[i] \/ Grows(i) \/ CopiedOver(i)'
<1>1. content \in [Inode -> Seq(Inode)] /\ Conn \subseteq Inode
  BY DEF TypeInv, TypeOK, FsOK, Inode
<1>2. CASE UNCHANGED content
  BY <1>2
<1>3. ASSUME NEW c \in Conn, WriteClose(c) \/ BackupClose(c)
      PROVE  content'[i] = content[i] \/ Grows(i)
  <2>1. CASE i = fd[c]
    BY <1>1, <1>3, <2>1 DEF WriteClose, BackupClose, Grows
  <2>2. CASE i # fd[c]
    BY <1>1, <1>3, <2>2 DEF WriteClose, BackupClose
  <2>3. QED
    BY <2>1, <2>2
<1>4. ASSUME NEW c \in Conn, CopyOpen(c) \/ CopyClose(c)
      PROVE  content'[i] = content[i] \/ CopiedOver(i)'
  <2>1. req'[c].op = "COPY_FILE"
    BY <1>4 DEF TypeInv, Located, LocatedAt, CopyOpen, CopyClose, Step
  <2>2. content' = content \/ \E v : content' = [content EXCEPT ![fd'[c]] = v]
    BY <1>4 DEF CopyOpen, CopyClose, fs
  <2>3. CASE i = fd'[c]
    BY <2>1, <2>3 DEF CopiedOver
  <2>4. CASE i # fd'[c]
    BY <1>1, <2>2, <2>4
  <2>5. QED
    BY <2>3, <2>4
<1>5. ASSUME NEW c \in Conn, Thread(c)
      PROVE  \/ UNCHANGED content \/ WriteClose(c) \/ BackupClose(c)
             \/ CopyOpen(c) \/ CopyClose(c)
  <2> USE DEF fs
  <2>1. CASE Read(c)
    BY <2>1 DEF Read, ReadCheck, ReadRegister, ReadOpen, ReadBlock, ReadUnregister
  <2>2. CASE Write(c)
    BY <2>2 DEF Write, WriteCheck, WriteRegister, WriteRecv, WriteAbandon, WriteOpen, WriteReply,
       WriteUnregister, WriteReplicate, WriteNotify, Send
  <2>3. CASE CopyFile(c)
    BY <2>3 DEF CopyFile, CopyRecv, CopyNotify, Send
  <2>4. CASE Backup(c)
    BY <2>4 DEF Backup, BackupRecv, BackupOpen
  <2>5. CASE Delete(c)
    BY <2>5 DEF Delete, DeleteCheckWriters, DeleteCheckReaders, DeleteStat, DeleteFile, DeleteDirectory
  <2>6. CASE Create(c) \/ Info(c)
    BY <2>6 DEF Create, CreateParent, CreateOpen, Info
  <2>7. QED
    BY <1>5, <2>1, <2>2, <2>3, <2>4, <2>5, <2>6 DEF Thread
<1>6. CASE Crash \/ UNCHANGED vars \/ \E c \in Conn, r \in Request : Accept(c, r)
  BY <1>2, <1>6 DEF Crash, vars, fs, Accept
<1>7. QED
  BY <1>2, <1>3, <1>4, <1>5, <1>6 DEF Next

\* An inode that is not copied over keeps what it holds, at its place.
Kept(i) ==
  /\ Len(content[i]) <= Len(content'[i])
  /\ \A k \in 1..Len(content[i]) : content'[i][k] = content[i][k]

LEMMA ContentKept ==
  ASSUME TypeInv, [Next]_vars, NEW i \in Inode, ~CopiedOver(i)'
  PROVE  Kept(i)
<1>1. content[i] \in Seq(Inode)
  BY DEF TypeInv, TypeOK, FsOK
<1>2. content'[i] = content[i] \/ \E x \in Inode : content'[i] = Append(content[i], x)
  BY ContentMoves DEF Grows
<1>3. QED
  BY <1>1, <1>2 DEF Kept

\* What was written to the end of a file stays there as it is until a
\* COPY_FILE opens it, for any number of threads that write it, back it up,
\* delete it or create it anew (file_manager.c:130, 426;
\* storage_server.c:260).
THEOREM AppendedStays == Spec => AppendedDataStays
<1> DEFINE A == \A i \in Inode : ~CopiedOver(i)' =>
       /\ Len(content[i]) <= Len(content'[i])
       /\ \A k \in 1..Len(content[i]) : content'[i][k] = content[i][k]
<1>1. TypeInv /\ [Next]_vars => [A]_vars
  BY ContentKept DEF Kept
<1>2. QED
  BY <1>1, TypeInit, TypeStep, PTL DEF Spec, AppendedDataStays

\* An inode once copied over remains so.
LEMMA CopiedStays ==
  ASSUME DiskInv, [Next]_vars, NEW i \in Inode, CopiedOver(i)
  PROVE  CopiedOver(i)'
<1>1. PICK d \in Conn : req[d].op = "COPY_FILE" /\ fd[d] = i
  BY DEF CopiedOver
<1>2. TypeInv /\ ConnsOK /\ LocatedAt(d) /\ fd[d] # None
  BY <1>1, NoneAssumption DEF DiskInv, TypeInv, TypeOK, Located
<1>3. pc[d] \notin {"idle", "copy_recv", "copy_open"}
  BY <1>2 DEF DiskInv, Unopened
<1>4. req'[d] = req[d] /\ fd'[d] = fd[d]
  <2>1. ASSUME NEW c \in Conn, Thread(c), c # d
        PROVE  req'[d] = req[d] /\ fd'[d] = fd[d]
    BY <1>2, <2>1, ThreadMoves, OwnFile
  <2>2. ASSUME Thread(d)
        PROVE  req' = req /\ fd' = fd
    <3>1. req' = req
      BY <1>2, <2>2, ThreadMoves
    <3>2. CASE CopyFile(d)
      BY <1>3, <3>2 DEF CopyFile, CopyRecv, CopyOpen, CopyClose, CopyNotify, Send, Step
    <3>3. ~Read(d) /\ ~Write(d) /\ ~Backup(d) /\ ~Delete(d) /\ ~Create(d) /\ ~Info(d)
      BY <1>1, <1>2, OwnRequest
    <3>4. QED
      BY <2>2, <3>1, <3>2, <3>3 DEF Thread
  <2>3. ASSUME NEW c \in Conn, NEW r \in Request, Accept(c, r)
        PROVE  req'[d] = req[d] /\ fd'[d] = fd[d]
    BY <1>2, <1>3, <2>3 DEF Accept, Step, ConnsOK
  <2>4. CASE Crash \/ UNCHANGED vars
    BY <2>4 DEF Crash, vars, conns
  <2>5. QED
    BY <2>1, <2>2, <2>3, <2>4 DEF Next
<1>5. QED
  BY <1>1, <1>4 DEF CopiedOver

\* How what a reader has sent goes on: not at all, from nothing, or by the
\* next of the file it has open.
LEMMA ReaderMoves ==
  ASSUME DiskInv, [Next]_vars, NEW c \in Conn, req'[c].op = "READ"
  PROVE  \/ req'[c] = req[c] /\ fd'[c] = fd[c] /\ got'[c] = got[c]
         \/ got'[c] = <<>>
         \/ /\ req'[c] = req[c] /\ fd'[c] = fd[c] /\ content' = content
            /\ fd[c] \in Inode
            /\ Len(got[c]) + 1 <= Len(content[fd[c]])
            /\ got'[c] = Append(got[c], content[fd[c]][Len(got[c]) + 1])
<1>1. TypeInv /\ ConnsOK /\ LocatedAt(c)
  BY DEF DiskInv, TypeInv, TypeOK, Located
<1>2. ASSUME NEW x \in Conn, Thread(x), x # c
      PROVE  req'[c] = req[c] /\ fd'[c] = fd[c] /\ got'[c] = got[c]
  BY <1>1, <1>2, ThreadMoves, OwnFile
<1>3. ASSUME Thread(c)
      PROVE  \/ req'[c] = req[c] /\ fd'[c] = fd[c] /\ got'[c] = got[c]
             \/ got'[c] = <<>>
             \/ ReadBlock(c) /\ got' # got
  <2>1. req' = req
    BY <1>1, <1>3, ThreadMoves
  <2>2. Read(c)
    BY <1>1, <1>3, <2>1, OwnRequest DEF Thread
  <2>3. CASE ReadOpen(c)
    BY <2>3 DEF DiskInv, Unsent, ReadOpen, Step
  <2>4. CASE ReadCheck(c) \/ ReadRegister(c) \/ ReadBlock(c) \/ ReadUnregister(c)
    BY <2>1, <2>4 DEF ReadCheck, ReadRegister, ReadBlock, ReadUnregister
  <2>5. QED
    BY <2>2, <2>3, <2>4 DEF Read
<1>4. ASSUME ReadBlock(c), got' # got
      PROVE  /\ req'[c] = req[c] /\ fd'[c] = fd[c] /\ content' = content
             /\ fd[c] \in Inode
             /\ Len(got[c]) + 1 <= Len(content[fd[c]])
             /\ got'[c] = Append(got[c], content[fd[c]][Len(got[c]) + 1])
  BY <1>1, <1>4 DEF ReadBlock, fs, LocatedAt, Step, ConnsOK
<1>5. ASSUME NEW x \in Conn, NEW r \in Request, Accept(x, r)
      PROVE  \/ req'[c] = req[c] /\ fd'[c] = fd[c] /\ got'[c] = got[c]
             \/ got'[c] = <<>>
  <2>1. fd' = fd /\ got' = got /\ pc[x] = "idle" /\ (x # c => req'[c] = req[c])
    BY <1>1, <1>5 DEF Accept, Step, ConnsOK
  <2>2. QED
    BY <2>1 DEF DiskInv, Unsent
<1>6. CASE Crash \/ UNCHANGED vars
  BY <1>6 DEF Crash, vars, conns
<1>7. QED
  BY <1>2, <1>3, <1>4, <1>5, <1>6 DEF Next

LEMMA PrefixStep ==
  ASSUME DiskInv, ReadIsAPrefix, [Next]_vars
  PROVE  ReadIsAPrefix'
<1> SUFFICES ASSUME NEW c \in Conn, fd'[c] # None, req'[c].op = "READ", ~CopiedOver(fd[c])'
             PROVE  /\ Len(got'[c]) <= Len(content'[fd'[c]])
                    /\ \A k \in 1..Len(got'[c]) : got'[c][k] = content'[fd'[c]][k]
  BY DEF ReadIsAPrefix
<1>1. ConnsOK /\ FsOK /\ ConnsOK' /\ FsOK' /\ TypeInv
  BY TypeStep DEF DiskInv, TypeInv, TypeOK
<1>2. PICK i \in Inode : i = fd'[c]
  BY <1>1 DEF ConnsOK
<1>3. content[i] \in Seq(Inode) /\ content'[i] \in Seq(Inode) /\ got[c] \in Seq(Inode)
  BY <1>1 DEF ConnsOK, FsOK
<1>4. ~CopiedOver(i)' /\ ~CopiedOver(i)
  <2>1. ~CopiedOver(i)'
    BY <1>2 DEF CopiedOver
  <2>2. QED
    BY <2>1, CopiedStays
<1>5. Kept(i)
  BY <1>1, <1>4, ContentKept
<1>6. ASSUME req'[c] = req[c], fd'[c] = fd[c]
      PROVE  /\ Len(got[c]) <= Len(content[i])
             /\ \A k \in 1..Len(got[c]) : got[c][k] = content[i][k]
  BY <1>2, <1>4, <1>6 DEF ReadIsAPrefix
<1>7. CASE req'[c] = req[c] /\ fd'[c] = fd[c] /\ got'[c] = got[c]
  BY <1>2, <1>3, <1>5, <1>6, <1>7 DEF Kept
<1>8. CASE got'[c] = <<>>
  BY <1>2, <1>3, <1>8
<1>9. CASE /\ req'[c] = req[c] /\ fd'[c] = fd[c] /\ content' = content
           /\ Len(got[c]) + 1 <= Len(content[fd[c]])
           /\ got'[c] = Append(got[c], content[fd[c]][Len(got[c]) + 1])
  BY <1>2, <1>3, <1>6, <1>9
<1>10. QED
  BY <1>7, <1>8, <1>9, ReaderMoves

\* What a reader has sent is the beginning of the file it opened, whatever
\* is appended or deleted meanwhile, as long as no COPY_FILE opens it
\* (file_manager.c:84-88, 130, 226).
THEOREM ReaderSendsAPrefix == Spec => []ReadIsAPrefix
<1>1. Init => ReadIsAPrefix
  BY DEF Init, ReadIsAPrefix, NoRequest
<1>2. QED
  BY <1>1, DiskInvariant, PrefixStep, PTL DEF Spec
=============================================================================
