----------------------- MODULE FileManagerListProofs -----------------------
(***************************************************************************)
(* The two lists of FileManager against the threads that are on them.      *)
(***************************************************************************)
EXTENDS FileManagerProofs

USE DEF Flag

\* What is inductive, together with TypeInv.
Accounts == ReadersListed /\ WritersListed /\ NoSpareName

ListInv == TypeInv /\ Accounts

\* Sets of connections are finite, and count one more or less with one more
\* or less in them.
LEMMA Counts ==
  ASSUME NEW S \in SUBSET Conn, NEW c \in Conn
  PROVE  /\ Cardinality(S) \in Nat
         /\ S = {} <=> Cardinality(S) = 0
         /\ c \notin S => Cardinality(S \cup {c}) = Cardinality(S) + 1
         /\ c \in S => Cardinality(S \ {c}) = Cardinality(S) - 1
<1>1. IsFiniteSet(S)
  BY ConnFinite, FS_Subset
<1>2. QED
  BY <1>1, FS_CardinalityType, FS_EmptySet, FS_AddElement, FS_RemoveElement

\* No thread is on a list but those that are connections.
LEMMA Holders ==
  \A f \in File, s \in Flag :
    Readers(f) \in SUBSET Conn /\ Writers(f, s) \in SUBSET Conn /\ Confirmed(f) \in SUBSET Conn
  BY DEF Readers, Writers, Confirmed

\* Where the membership of the thread that moves is what it was, that of all
\* threads is.
SameMember(c, f) ==
  /\ c \in Readers(f)' <=> c \in Readers(f)
  /\ \A s \in Flag : c \in Writers(f, s)' <=> c \in Writers(f, s)
  /\ c \in Confirmed(f)' <=> c \in Confirmed(f)

SameHolders(f) ==
  /\ Readers(f)' = Readers(f)
  /\ \A s \in Flag : Writers(f, s)' = Writers(f, s)
  /\ Confirmed(f)' = Confirmed(f)

OthersStay(c) ==
  \A x \in Conn \ {c} :
    pc'[x] = pc[x] /\ req'[x] = req[x] /\ (x \in leaked' <=> x \in leaked)

LEMMA SameHoldersIf ==
  ASSUME NEW c \in Conn, NEW f \in File, OthersStay(c), SameMember(c, f)
  PROVE  SameHolders(f)
<1>1. Readers(f)' = Readers(f)
  BY DEF OthersStay, SameMember, Readers
<1>2. ASSUME NEW s \in Flag
      PROVE  Writers(f, s)' = Writers(f, s)
  BY DEF OthersStay, SameMember, Writers
<1>3. Confirmed(f)' = Confirmed(f)
  BY DEF OthersStay, SameMember, Confirmed
<1>4. QED
  BY <1>1, <1>2, <1>3 DEF SameHolders

LEMMA SameAccounts ==
  ASSUME Accounts, UNCHANGED <<accessed, reading, dropped>>, \A f \in File : SameHolders(f)
  PROVE  Accounts'
  BY DEF Accounts, ReadersListed, WritersListed, NoSpareName, SameHolders

-----------------------------------------------------------------------------
LEMMA ListInit == Init => ListInv
<1> SUFFICES ASSUME Init
             PROVE  ListInv
  OBVIOUS
<1>1. \A f \in File, s \in Flag : Readers(f) = {} /\ Writers(f, s) = {} /\ Confirmed(f) = {}
  BY DEF Init, NoRequest, Readers, Writers, Confirmed
<1>2. Cardinality({}) = 0
  BY FS_EmptySet
<1>3. \A f \in File, s \in Flag : accessed[<<f, s>>] = 0 /\ reading[f] = 0
  BY DEF Init
<1>4. ReadersListed
  BY <1>1, <1>2, <1>3 DEF ReadersListed
<1>5. WritersListed
  <2> SUFFICES ASSUME NEW f \in File
               PROVE  /\ accessed[<<f, "--sync">>] =
                           Cardinality(Writers(f, "--sync")) + Cardinality(Confirmed(f))
                      /\ accessed[<<f, "none">>] + Cardinality(Confirmed(f)) >=
                           Cardinality(Writers(f, "none"))
    BY DEF WritersListed
  <2>1. Writers(f, "--sync") = {} /\ Writers(f, "none") = {} /\ Confirmed(f) = {}
    BY <1>1
  <2>2. accessed[<<f, "--sync">>] = 0 /\ accessed[<<f, "none">>] = 0
    BY <1>3
  <2>3. /\ Cardinality(Writers(f, "--sync")) = 0 /\ Cardinality(Writers(f, "none")) = 0
        /\ Cardinality(Confirmed(f)) = 0
    BY <1>2, <2>1, Zenon
  <2>4. QED
    BY <2>2, <2>3
<1>6. NoSpareName
  <2> SUFFICES ASSUME NEW f \in File
               PROVE  /\ reading[f] <= Cardinality(Readers(f))
                      /\ accessed[<<f, "none">>] <= Cardinality(Writers(f, "none"))
    BY DEF NoSpareName
  <2>1. Readers(f) = {} /\ Writers(f, "none") = {}
    BY <1>1
  <2>2. accessed[<<f, "none">>] = 0 /\ reading[f] = 0
    BY <1>3
  <2>3. Cardinality(Readers(f)) = 0 /\ Cardinality(Writers(f, "none")) = 0
    BY <1>2, <2>1, Zenon
  <2>4. QED
    BY <2>2, <2>3
<1>7. QED
  BY <1>4, <1>5, <1>6, TypeInit DEF ListInv, Accounts

-----------------------------------------------------------------------------
\* A step that leaves the lists alone, and the moving thread where it is on
\* them, keeps the accounts.
LEMMA Quiet ==
  ASSUME ListInv, NEW c \in Conn, OthersStay(c),
         UNCHANGED <<accessed, reading, dropped>>, \A f \in File : SameMember(c, f)
  PROVE  Accounts'
  BY SameHoldersIf, SameAccounts DEF ListInv

LEMMA AcceptAccounts ==
  ASSUME ListInv, NEW c \in Conn, NEW r \in Request, Accept(c, r)
  PROVE  Accounts'
<1>1. LocatedAt(c) /\ r \in AnyRequest /\ ConnsOK
  BY RequestAssumption DEF ListInv, TypeInv, TypeOK, Located
<1>2. r.op \in {"READ", "WRITE", "COPY_FILE", "Backup", "DELETE", "CREATE", "INFO"}
  BY <1>1 DEF AnyRequest
<1>3. pc[c] = "idle" /\ c \notin leaked /\ UNCHANGED lists
  BY <1>1 DEF Accept, Step, LocatedAt
<1>4. pc'[c] \in {"read_check", "write_check", "copy_recv", "backup_recv",
                 "delete_check_writers", "create_parent", "info"}
  BY <1>1, <1>2 DEF Accept, Step, FirstStep, ConnsOK
<1>5. OthersStay(c)
  BY <1>1, <1>3 DEF Accept, Step, OthersStay, ConnsOK, lists
<1>6. ASSUME NEW f \in File
      PROVE  SameMember(c, f)
  BY <1>3, <1>4 DEF SameMember, Readers, Writers, Confirmed, ReadHolding, WriteHolding, lists
<1>7. QED
  BY <1>3, <1>5, <1>6, Quiet DEF lists

LEMMA OtherAccounts ==
  ASSUME ListInv, NEW c \in Conn,
         CopyFile(c) \/ Backup(c) \/ Delete(c) \/ Create(c) \/ Info(c)
  PROVE  Accounts'
<1>1. TypeInv /\ Thread(c)
  BY DEF ListInv, Thread
<1>2. UNCHANGED <<req, lists>> /\ req[c].op \notin {"READ", "WRITE"}
  BY <1>1, OtherRequests
<1>3. OthersStay(c)
  BY <1>1, <1>2, ThreadMoves DEF OthersStay, lists
<1>4. ASSUME NEW f \in File
      PROVE  SameMember(c, f)
  BY <1>2 DEF SameMember, Readers, Writers, Confirmed
<1>5. QED
  BY <1>2, <1>3, <1>4, Quiet DEF lists

\* What is common to the steps of a thread that serves READ or WRITE.
LEMMA ReadOrWrite ==
  ASSUME ListInv, NEW c \in Conn, Read(c) \/ Write(c)
  PROVE  /\ LocatedAt(c) /\ PathsOK(c) /\ ConnsOK /\ ListsOK
         /\ OthersStay(c)
         /\ req' = req
<1>1. TypeInv /\ Thread(c)
  BY DEF ListInv, Thread
<1>2. QED
  BY <1>1, ThreadMoves, RequestPaths DEF TypeInv, TypeOK, Located, OthersStay

LEMMA ReadAccounts ==
  ASSUME ListInv, NEW c \in Conn, Read(c)
  PROVE  Accounts'
<1>1. /\ LocatedAt(c) /\ PathsOK(c) /\ ConnsOK /\ ListsOK
      /\ OthersStay(c)
      /\ req' = req
  BY ReadOrWrite
<1>2. CASE ReadCheck(c) \/ ReadBlock(c)
  <2>1. UNCHANGED lists /\ req[c].op = "READ" /\ pc[c] \in {"read_check", "read_block"}
    BY <1>1, <1>2 DEF ReadCheck, ReadBlock, Step, LocatedAt, ReadHolding
  <2>2. pc'[c] \in ReadHolding <=> pc[c] \in ReadHolding
    BY <1>1, <1>2 DEF ReadCheck, ReadBlock, Step, ReadHolding, ConnsOK
  <2>3. ASSUME NEW f \in File
        PROVE  SameMember(c, f)
    BY <1>1, <2>1, <2>2 DEF SameMember, Readers, Writers, Confirmed, lists
  <2>4. QED
    BY <1>1, <2>1, <2>3, Quiet DEF lists
<1>3. CASE ReadOpen(c)
  <2>1. /\ UNCHANGED <<accessed, reading, dropped>>
        /\ req[c].op = "READ" /\ pc[c] \in ReadHolding
    BY <1>1, <1>3 DEF ReadOpen, Step, LocatedAt, ReadHolding, lists
  <2>2. pc'[c] \in ReadHolding \/ c \in leaked'
    BY <1>1, <1>3 DEF ReadOpen, Step, ReadHolding, ConnsOK
  <2>3. ASSUME NEW f \in File
        PROVE  SameMember(c, f)
    BY <1>1, <2>1, <2>2 DEF SameMember, Readers, Writers, Confirmed
  <2>4. QED
    BY <1>1, <2>1, <2>3, Quiet
<1>4. CASE ReadRegister(c)
  <2>0. PICK p \in File : p = req[c].path
    BY <1>1, <1>4 DEF ReadRegister, Step, LocatedAt, PathsOK
  <2>1. /\ UNCHANGED <<accessed, leaked>> /\ add_accessible_path2(c, p)
        /\ req[c].op = "READ" /\ req[c].path = p
        /\ pc[c] = "read_register" /\ pc'[c] = "read_open" /\ c \notin leaked
    BY <1>1, <1>4, <2>0 DEF ReadRegister, Step, LocatedAt, ConnsOK, add_accessible_path2
  <2>2. c \notin Readers(p) /\ Readers(p)' = Readers(p) \cup {c}
    BY <1>1, <2>1 DEF Readers, ReadHolding, OthersStay
  <2>3. \A f \in File : f # p => Readers(f)' = Readers(f)
    BY <1>1, <2>1 DEF Readers, OthersStay
  <2>4. \A f \in File, s \in Flag : Writers(f, s)' = Writers(f, s) /\ Confirmed(f)' = Confirmed(f)
    BY <1>1, <2>1 DEF Writers, Confirmed, OthersStay
  <2>5. Cardinality(Readers(p)') = Cardinality(Readers(p)) + 1 /\ Cardinality(Readers(p)) \in Nat
    <3>1. Readers(p) \in SUBSET Conn
      BY Holders
    <3> QED BY <2>2, <3>1, Counts
  <2>6. \/ /\ reading' = [reading EXCEPT ![p] = @ + 1] /\ dropped' = dropped
        \/ /\ reading' = reading /\ dropped' # {}
    BY <2>1 DEF add_accessible_path2
  <2>7. reading \in [File -> Nat]
    BY <1>1 DEF ListsOK
  <2>8. ReadersListed'
    <3> SUFFICES ASSUME dropped' = {}, NEW f \in File
                 PROVE  reading'[f] = Cardinality(Readers(f)')
      BY DEF ReadersListed
    <3>1. dropped = {} /\ reading[f] = Cardinality(Readers(f)) /\ reading[p] = Cardinality(Readers(p))
      BY <2>1, <2>6 DEF ListInv, Accounts, ReadersListed, add_accessible_path2
    <3>2. CASE f = p
      BY <2>1, <2>5, <2>6, <2>7, <3>1, <3>2
    <3>3. CASE f # p
      BY <2>1, <2>3, <2>6, <2>7, <3>1, <3>3
    <3>4. QED
      BY <3>2, <3>3
  <2>9. WritersListed'
    BY <2>1, <2>4, <2>6 DEF ListInv, Accounts, WritersListed
  <2>10. NoSpareName'
    <3> SUFFICES ASSUME NEW f \in File
                 PROVE  /\ reading'[f] <= Cardinality(Readers(f)')
                        /\ accessed'[<<f, "none">>] <= Cardinality(Writers(f, "none")')
      BY DEF NoSpareName
    <3>1. /\ reading[f] <= Cardinality(Readers(f)) /\ reading[p] <= Cardinality(Readers(p))
          /\ accessed[<<f, "none">>] <= Cardinality(Writers(f, "none"))
      BY <2>1 DEF ListInv, Accounts, NoSpareName
    <3>2. CASE f = p
      BY <2>1, <2>4, <2>5, <2>6, <2>7, <3>1, <3>2
    <3>3. CASE f # p
      BY <2>1, <2>3, <2>4, <2>6, <2>7, <3>1, <3>3
    <3>4. QED
      BY <3>2, <3>3
  <2>11. QED
    BY <2>8, <2>9, <2>10 DEF Accounts
<1>5. CASE ReadUnregister(c)
  <2>0. PICK p \in File : p = req[c].path
    BY <1>1, <1>5 DEF ReadUnregister, Step, LocatedAt, PathsOK, ReadHolding
  <2>1. /\ UNCHANGED <<accessed, leaked, dropped>> /\ delete_accessible_path2(p)
        /\ req[c].op = "READ" /\ req[c].path = p
        /\ pc[c] = "read_unregister" /\ pc'[c] = "closed" /\ c \notin leaked
    BY <1>1, <1>5, <2>0 DEF ReadUnregister, Step, LocatedAt, ConnsOK, ReadHolding, delete_accessible_path2
  <2>2. c \in Readers(p) /\ Readers(p)' = Readers(p) \ {c}
    BY <1>1, <2>1 DEF Readers, ReadHolding, OthersStay
  <2>3. \A f \in File : f # p => Readers(f)' = Readers(f)
    BY <1>1, <2>1 DEF Readers, OthersStay
  <2>4. \A f \in File, s \in Flag : Writers(f, s)' = Writers(f, s) /\ Confirmed(f)' = Confirmed(f)
    BY <1>1, <2>1 DEF Writers, Confirmed, OthersStay
  <2>5. /\ Cardinality(Readers(p)') = Cardinality(Readers(p)) - 1
        /\ Cardinality(Readers(p)) \in Nat /\ Cardinality(Readers(p)) # 0
    <3>1. Readers(p) \in SUBSET Conn /\ Readers(p) # {}
      BY <2>2, Holders
    <3> QED BY <2>2, <3>1, Counts
  <2>6. reading \in [File -> Nat]
    BY <1>1 DEF ListsOK
  <2>7. \/ reading[p] > 0 /\ reading' = [reading EXCEPT ![p] = @ - 1]
        \/ reading[p] = 0 /\ reading' = reading
    BY <2>1, <2>6 DEF delete_accessible_path2
  <2>8. ReadersListed'
    <3> SUFFICES ASSUME dropped' = {}, NEW f \in File
                 PROVE  reading'[f] = Cardinality(Readers(f)')
      BY DEF ReadersListed
    <3>1. dropped = {} /\ reading[f] = Cardinality(Readers(f)) /\ reading[p] = Cardinality(Readers(p))
      BY <2>1, <2>6 DEF ListInv, Accounts, ReadersListed, add_accessible_path2
    <3>2. CASE f = p
      BY <2>1, <2>5, <2>6, <2>7, <3>1, <3>2
    <3>3. CASE f # p
      BY <2>1, <2>3, <2>6, <2>7, <3>1, <3>3
    <3>4. QED
      BY <3>2, <3>3
  <2>9. WritersListed'
    BY <2>1, <2>4 DEF ListInv, Accounts, WritersListed
  <2>10. NoSpareName'
    <3> SUFFICES ASSUME NEW f \in File
                 PROVE  /\ reading'[f] <= Cardinality(Readers(f)')
                        /\ accessed'[<<f, "none">>] <= Cardinality(Writers(f, "none")')
      BY DEF NoSpareName
    <3>1. /\ reading[f] <= Cardinality(Readers(f)) /\ reading[p] <= Cardinality(Readers(p))
          /\ accessed[<<f, "none">>] <= Cardinality(Writers(f, "none"))
      BY <2>1 DEF ListInv, Accounts, NoSpareName
    <3>2. CASE f = p
      BY <2>1, <2>4, <2>5, <2>6, <2>7, <3>1, <3>2
    <3>3. CASE f # p
      BY <2>1, <2>3, <2>4, <2>6, <2>7, <3>1, <3>3
    <3>4. QED
      BY <3>2, <3>3
  <2>11. QED
    BY <2>8, <2>9, <2>10 DEF Accounts
<1>6. QED
  BY <1>2, <1>3, <1>4, <1>5 DEF Read

\* The steps of a write that leave its name on the list, or off it.
LEMMA WriteQuiet ==
  ASSUME ListInv, NEW c \in Conn,
         \/ WriteCheck(c) \/ WriteRecv(c) \/ WriteOpen(c) \/ WriteReply(c)
         \/ WriteClose(c) \/ WriteReplicate(c) \/ WriteNotify(c)
  PROVE  Accounts'
<1> DEFINE ended == {"write_replicate", "write_notify", "closed"}
<1>1. /\ LocatedAt(c) /\ PathsOK(c) /\ ConnsOK /\ ListsOK
      /\ OthersStay(c)
      /\ req' = req
  BY ReadOrWrite DEF Write
<1>2. /\ UNCHANGED <<accessed, reading, dropped>>
      /\ req[c].op = "WRITE"
  BY <1>1 DEF WriteCheck, WriteRecv, WriteAbandon, WriteOpen, WriteReply, WriteClose,
     WriteReplicate, WriteNotify, Send, Step, LocatedAt, WriteHolding, lists
<1>3. CASE WriteCheck(c)
  <2>1. /\ pc[c] = "write_check" /\ c \notin leaked /\ c \notin leaked'
        /\ pc'[c] = "write_register" \/ (pc'[c] = "write_notify" /\ req[c].flag = "none")
    BY <1>1, <1>3 DEF WriteCheck, AfterWrite, Step, LocatedAt, ConnsOK, lists
  <2>2. ASSUME NEW f \in File
        PROVE  SameMember(c, f)
    BY <1>1, <1>2, <2>1 DEF SameMember, Readers, Writers, Confirmed, WriteHolding
  <2>3. QED
    BY <1>1, <1>2, <2>2, Quiet
<1>4. CASE WriteRecv(c) \/ WriteOpen(c) \/ WriteReply(c) \/ WriteClose(c)
  <2>1. pc[c] \in WriteHolding /\ pc[c] \notin ended /\ c \notin leaked
    BY <1>1, <1>4 DEF WriteRecv, WriteAbandon, WriteOpen, WriteReply, WriteClose, Step,
       LocatedAt, WriteHolding
  <2>2. (pc'[c] \in WriteHolding /\ pc'[c] \notin ended) \/ c \in leaked'
    BY <1>1, <1>4 DEF WriteRecv, WriteAbandon, WriteOpen, WriteReply, WriteClose, Step,
       ConnsOK, WriteHolding
  <2>3. ASSUME NEW f \in File
        PROVE  SameMember(c, f)
    BY <1>1, <1>2, <2>1, <2>2 DEF SameMember, Readers, Writers, Confirmed
  <2>4. QED
    BY <1>1, <1>2, <2>3, Quiet
<1>5. CASE WriteReplicate(c) \/ WriteNotify(c)
  <2>1. /\ leaked' = leaked
        /\ pc[c] \in ended /\ pc[c] \notin WriteHolding
        /\ pc'[c] \in ended /\ pc'[c] \notin WriteHolding
    BY <1>1, <1>5 DEF WriteReplicate, WriteNotify, Send, AfterWrite, Step, ConnsOK, WriteHolding, lists
  <2>2. ASSUME NEW f \in File
        PROVE  SameMember(c, f)
    BY <1>1, <1>2, <2>1 DEF SameMember, Readers, Writers, Confirmed
  <2>3. QED
    BY <1>1, <1>2, <2>2, Quiet
<1>6. QED
  BY <1>3, <1>4, <1>5

\* A writer lists its name: with or without the flag.
LEMMA WriteRegisterAccounts ==
  ASSUME ListInv, NEW c \in Conn, WriteRegister(c)
  PROVE  Accounts'
<1>1. /\ LocatedAt(c) /\ PathsOK(c) /\ ConnsOK /\ ListsOK
      /\ OthersStay(c)
      /\ req' = req
  BY ReadOrWrite DEF Write
<1>2. PICK p \in File, g \in Flag : p = req[c].path /\ g = req[c].flag
  BY <1>1 DEF WriteRegister, Step, LocatedAt, PathsOK
<1>3. /\ UNCHANGED <<reading, leaked>> /\ c \notin leaked
      /\ req[c].op = "WRITE" /\ req[c].path = p /\ req[c].flag = g
      /\ pc[c] = "write_register" /\ pc'[c] = "write_recv"
  BY <1>1, <1>2 DEF WriteRegister, Step, LocatedAt, ConnsOK
<1>4. \/ /\ accessed' = [accessed EXCEPT ![<<p, g>>] = @ + 1] /\ dropped' = dropped
      \/ /\ accessed' = accessed /\ dropped' # {}
  BY <1>2 DEF WriteRegister, add_accessible_path, ListedName
<1>5. c \notin Writers(p, g) /\ Writers(p, g)' = Writers(p, g) \cup {c}
  BY <1>1, <1>3 DEF Writers, WriteHolding, OthersStay
<1>6. \A f \in File, s \in Flag : <<f, s>> # <<p, g>> => Writers(f, s)' = Writers(f, s)
  BY <1>1, <1>3 DEF Writers, OthersStay
<1>7. \A f \in File : Readers(f)' = Readers(f) /\ Confirmed(f)' = Confirmed(f)
  BY <1>1, <1>3 DEF Readers, Confirmed, OthersStay
<1>8. /\ Cardinality(Writers(p, g)') = Cardinality(Writers(p, g)) + 1
      /\ \A f \in File, s \in Flag : Cardinality(Writers(f, s)) \in Nat /\ Cardinality(Confirmed(f)) \in Nat
  <2>1. Writers(p, g) \in SUBSET Conn
    BY Holders
  <2>2. Cardinality(Writers(p, g)') = Cardinality(Writers(p, g)) + 1
    BY <1>5, <2>1, Counts
  <2>3. ASSUME NEW f \in File, NEW s \in Flag
        PROVE  Cardinality(Writers(f, s)) \in Nat /\ Cardinality(Confirmed(f)) \in Nat
    BY Holders, Counts
  <2>4. QED
    BY <2>2, <2>3
<1>9. accessed \in [File \X Flag -> Nat]
  BY <1>1 DEF ListsOK
<1>10. ReadersListed'
  BY <1>3, <1>4, <1>7 DEF ListInv, Accounts, ReadersListed
<1>11. ASSUME NEW f \in File, NEW s \in Flag
       PROVE  \/ /\ accessed'[<<f, s>>] = accessed[<<f, s>>]
                 /\ Cardinality(Writers(f, s)') = Cardinality(Writers(f, s))
              \/ /\ accessed'[<<f, s>>] = accessed[<<f, s>>] + 1
                 /\ Cardinality(Writers(f, s)') = Cardinality(Writers(f, s)) + 1
              \/ /\ accessed'[<<f, s>>] = accessed[<<f, s>>]
                 /\ Cardinality(Writers(f, s)') = Cardinality(Writers(f, s)) + 1
                 /\ dropped' # {}
  <2>1. CASE <<f, s>> = <<p, g>>
    BY <1>4, <1>8, <1>9, <2>1
  <2>2. CASE <<f, s>> # <<p, g>>
    BY <1>4, <1>6, <1>9, <2>2
  <2>3. QED
    BY <2>1, <2>2
<1>12. WritersListed'
  <2> SUFFICES ASSUME dropped' = {}, NEW f \in File
               PROVE  /\ accessed'[<<f, "--sync">>] =
                           Cardinality(Writers(f, "--sync")') + Cardinality(Confirmed(f)')
                      /\ accessed'[<<f, "none">>] + Cardinality(Confirmed(f)') >=
                           Cardinality(Writers(f, "none")')
    BY DEF WritersListed
  <2>1. dropped = {}
    BY <1>4
  <2>2. /\ accessed[<<f, "--sync">>] =
             Cardinality(Writers(f, "--sync")) + Cardinality(Confirmed(f))
        /\ accessed[<<f, "none">>] + Cardinality(Confirmed(f)) >=
             Cardinality(Writers(f, "none"))
    BY <2>1 DEF ListInv, Accounts, WritersListed
  <2>3. Cardinality(Confirmed(f)') = Cardinality(Confirmed(f))
    BY <1>7
  <2>4. accessed[<<f, "none">>] \in Nat /\ accessed[<<f, "--sync">>] \in Nat
    BY <1>9
  <2>5. QED
    BY <1>8, <1>11, <2>2, <2>3, <2>4
<1>13. NoSpareName'
  <2> SUFFICES ASSUME NEW f \in File
               PROVE  /\ reading'[f] <= Cardinality(Readers(f)')
                      /\ accessed'[<<f, "none">>] <= Cardinality(Writers(f, "none")')
    BY DEF NoSpareName
  <2>1. /\ reading[f] <= Cardinality(Readers(f))
        /\ accessed[<<f, "none">>] <= Cardinality(Writers(f, "none"))
        /\ accessed[<<f, "none">>] \in Nat
    BY <1>9 DEF ListInv, Accounts, NoSpareName
  <2>2. reading'[f] = reading[f] /\ Cardinality(Readers(f)') = Cardinality(Readers(f))
    BY <1>3, <1>7
  <2>3. accessed'[<<f, "none">>] <= Cardinality(Writers(f, "none")')
    <3>1. \/ /\ accessed'[<<f, "none">>] = accessed[<<f, "none">>]
             /\ Cardinality(Writers(f, "none")') = Cardinality(Writers(f, "none"))
          \/ /\ accessed'[<<f, "none">>] \in {accessed[<<f, "none">>], accessed[<<f, "none">>] + 1}
             /\ Cardinality(Writers(f, "none")') = Cardinality(Writers(f, "none")) + 1
      BY <1>11
    <3>2. Cardinality(Writers(f, "none")) \in Nat
      BY <1>8
    <3>3. QED
      BY <2>1, <3>1, <3>2
  <2>4. QED
    BY <2>1, <2>2, <2>3
<1>14. QED
  BY <1>10, <1>12, <1>13 DEF Accounts

\* A writer takes off the bare name.  One with --sync leaves its own name and
\* may take another's: it counts as Confirmed from here on.
LEMMA WriteUnregisterAccounts ==
  ASSUME ListInv, NEW c \in Conn, WriteUnregister(c)
  PROVE  Accounts'
<1>1. /\ LocatedAt(c) /\ PathsOK(c) /\ ConnsOK /\ ListsOK
      /\ OthersStay(c)
      /\ req' = req
  BY ReadOrWrite DEF Write
<1>2. PICK p \in File, g \in Flag : p = req[c].path /\ g = req[c].flag
  BY <1>1 DEF WriteUnregister, Step, LocatedAt, PathsOK, WriteHolding
<1>3. /\ UNCHANGED <<reading, leaked, dropped>> /\ c \notin leaked
      /\ req[c].op = "WRITE" /\ req[c].path = p /\ req[c].flag = g
      /\ pc[c] = "write_unregister" /\ pc'[c] = "write_replicate"
  BY <1>1, <1>2 DEF WriteUnregister, Step, LocatedAt, ConnsOK, WriteHolding
<1>4. accessed \in [File \X Flag -> Nat]
  BY <1>1 DEF ListsOK
<1>5. \/ /\ accessed[<<p, "none">>] > 0
         /\ accessed' = [accessed EXCEPT ![<<p, "none">>] = @ - 1]
      \/ accessed[<<p, "none">>] = 0 /\ accessed' = accessed
  BY <1>2, <1>4 DEF WriteUnregister, delete_accessible_path, StrippedName
<1>6. c \in Writers(p, g) /\ Writers(p, g)' = Writers(p, g) \ {c}
  BY <1>1, <1>3 DEF Writers, WriteHolding, OthersStay
<1>7. \A f \in File, s \in Flag : <<f, s>> # <<p, g>> => Writers(f, s)' = Writers(f, s)
  BY <1>1, <1>3 DEF Writers, OthersStay
<1>8. \A f \in File : Readers(f)' = Readers(f)
  BY <1>1, <1>3 DEF Readers, OthersStay
<1>9. \/ /\ g = "--sync" /\ c \notin Confirmed(p)
         /\ Confirmed(p)' = Confirmed(p) \cup {c}
      \/ g = "none" /\ Confirmed(p)' = Confirmed(p)
  BY <1>1, <1>3 DEF Confirmed, OthersStay
<1>10. \A f \in File : f # p => Confirmed(f)' = Confirmed(f)
  BY <1>1, <1>3 DEF Confirmed, OthersStay
<1>11. \A f \in File, s \in Flag :
         /\ Cardinality(Writers(f, s)) \in Nat
         /\ Cardinality(Confirmed(f)) \in Nat
  BY Holders, Counts
<1>12. /\ Cardinality(Writers(p, g)') = Cardinality(Writers(p, g)) - 1
       /\ Cardinality(Writers(p, g)) # 0
  <2>1. Writers(p, g) \in SUBSET Conn /\ Writers(p, g) # {}
    BY <1>6, Holders
  <2>2. QED
    BY <1>6, <2>1, Counts
<1>13. \/ /\ g = "--sync"
          /\ Cardinality(Confirmed(p)') = Cardinality(Confirmed(p)) + 1
       \/ g = "none" /\ Cardinality(Confirmed(p)') = Cardinality(Confirmed(p))
  BY <1>9, Holders, Counts
<1>14. ReadersListed'
  BY <1>3, <1>8 DEF ListInv, Accounts, ReadersListed
<1>15. WritersListed'
  <2> SUFFICES ASSUME dropped' = {}, NEW f \in File
               PROVE  /\ accessed'[<<f, "--sync">>] =
                           Cardinality(Writers(f, "--sync")') + Cardinality(Confirmed(f)')
                      /\ accessed'[<<f, "none">>] + Cardinality(Confirmed(f)') >=
                           Cardinality(Writers(f, "none")')
    BY DEF WritersListed
  <2>1. /\ accessed[<<f, "--sync">>] =
             Cardinality(Writers(f, "--sync")) + Cardinality(Confirmed(f))
        /\ accessed[<<f, "none">>] + Cardinality(Confirmed(f)) >=
             Cardinality(Writers(f, "none"))
        /\ accessed[<<f, "none">>] \in Nat /\ accessed[<<f, "--sync">>] \in Nat
    BY <1>3, <1>4 DEF ListInv, Accounts, WritersListed
  <2>2. accessed'[<<f, "--sync">>] = accessed[<<f, "--sync">>]
    BY <1>4, <1>5
  <2>3. CASE f # p
    <3>1. accessed'[<<f, "none">>] = accessed[<<f, "none">>]
      BY <1>4, <1>5, <2>3
    <3>2. /\ Cardinality(Writers(f, "--sync")') = Cardinality(Writers(f, "--sync"))
          /\ Cardinality(Writers(f, "none")') = Cardinality(Writers(f, "none"))
          /\ Cardinality(Confirmed(f)') = Cardinality(Confirmed(f))
      BY <1>7, <1>10, <2>3
    <3>3. QED
      BY <2>1, <2>2, <3>1, <3>2
  <2>4. CASE f = p /\ g = "none"
    <3>1. /\ accessed'[<<f, "none">>] >= accessed[<<f, "none">>] - 1
          /\ accessed'[<<f, "none">>] \in Nat
      BY <1>4, <1>5, <2>4
    <3>2. /\ Cardinality(Writers(f, "--sync")') = Cardinality(Writers(f, "--sync"))
          /\ Cardinality(Writers(f, "none")') = Cardinality(Writers(f, "none")) - 1
          /\ Cardinality(Confirmed(f)') = Cardinality(Confirmed(f))
      BY <1>7, <1>12, <1>13, <2>4
    <3>3. QED
      BY <1>11, <2>1, <2>2, <3>1, <3>2
  <2>5. CASE f = p /\ g = "--sync"
    <3>1. /\ accessed'[<<f, "none">>] >= accessed[<<f, "none">>] - 1
          /\ accessed'[<<f, "none">>] \in Nat
      BY <1>4, <1>5, <2>5
    <3>2. /\ Cardinality(Writers(f, "--sync")') = Cardinality(Writers(f, "--sync")) - 1
          /\ Cardinality(Writers(f, "none")') = Cardinality(Writers(f, "none"))
          /\ Cardinality(Confirmed(f)') = Cardinality(Confirmed(f)) + 1
      BY <1>7, <1>12, <1>13, <2>5
    <3>3. QED
      BY <1>11, <2>1, <2>2, <3>1, <3>2
  <2>6. QED
    BY <2>3, <2>4, <2>5
<1>16. NoSpareName'
  <2> SUFFICES ASSUME NEW f \in File
               PROVE  /\ reading'[f] <= Cardinality(Readers(f)')
                      /\ accessed'[<<f, "none">>] <= Cardinality(Writers(f, "none")')
    BY DEF NoSpareName
  <2>1. /\ reading[f] <= Cardinality(Readers(f))
        /\ accessed[<<f, "none">>] <= Cardinality(Writers(f, "none"))
        /\ accessed[<<f, "none">>] \in Nat
    BY <1>4 DEF ListInv, Accounts, NoSpareName
  <2>2. reading'[f] = reading[f] /\ Cardinality(Readers(f)') = Cardinality(Readers(f))
    BY <1>3, <1>8
  <2>3. CASE <<f, "none">> = <<p, g>>
    <3>1. Cardinality(Writers(f, "none")') = Cardinality(Writers(f, "none")) - 1
      BY <1>12, <2>3
    <3>2. Cardinality(Writers(f, "none")) # 0 /\ Cardinality(Writers(f, "none")) \in Nat
      BY <1>11, <1>12, <2>3
    <3>3. \/ accessed'[<<f, "none">>] = accessed[<<f, "none">>] - 1
          \/ accessed'[<<f, "none">>] = 0
      BY <1>4, <1>5, <2>3
    <3>4. QED
      BY <2>1, <2>2, <3>1, <3>2, <3>3
  <2>4. CASE <<f, "none">> # <<p, g>>
    <3>1. Cardinality(Writers(f, "none")') = Cardinality(Writers(f, "none"))
      BY <1>7, <2>4
    <3>2. accessed'[<<f, "none">>] <= accessed[<<f, "none">>]
          /\ accessed'[<<f, "none">>] \in Nat
      BY <1>4, <1>5
    <3>3. QED
      BY <1>11, <2>1, <2>2, <3>1, <3>2
  <2>5. QED
    BY <2>3, <2>4
<1>17. QED
  BY <1>14, <1>15, <1>16 DEF Accounts

-----------------------------------------------------------------------------
\* After a crash the lists are empty and no thread is left.
LEMMA CrashAccounts ==
  ASSUME ListInv, Crash
  PROVE  Accounts'
<1>1. /\ leaked' = {}
      /\ \A c \in Conn : pc'[c] \in {"idle", "gone"}
  BY DEF Crash
<1>2. \A f \in File, s \in Flag : Readers(f)' = {} /\ Writers(f, s)' = {} /\ Confirmed(f)' = {}
  BY <1>1 DEF Readers, Writers, Confirmed, ReadHolding, WriteHolding
<1>3. \A f \in File, s \in Flag :
        /\ Cardinality(Readers(f)') = 0
        /\ Cardinality(Writers(f, s)') = 0
        /\ Cardinality(Confirmed(f)') = 0
  BY <1>2, FS_EmptySet, Zenon
<1>4. \A f \in File, s \in Flag : accessed'[<<f, s>>] = 0 /\ reading'[f] = 0
  BY DEF Crash
<1>5. ASSUME NEW f \in File
      PROVE  /\ Cardinality(Writers(f, "none")') = 0 /\ Cardinality(Writers(f, "--sync")') = 0
             /\ accessed'[<<f, "none">>] = 0 /\ accessed'[<<f, "--sync">>] = 0
             /\ Cardinality(Readers(f)') = 0 /\ Cardinality(Confirmed(f)') = 0
             /\ reading'[f] = 0
  BY <1>3, <1>4
<1>6. ReadersListed'
  BY <1>5 DEF ReadersListed
<1>7. WritersListed'
  <2> SUFFICES ASSUME NEW f \in File
               PROVE  /\ accessed'[<<f, "--sync">>] =
                           Cardinality(Writers(f, "--sync")') + Cardinality(Confirmed(f)')
                      /\ accessed'[<<f, "none">>] + Cardinality(Confirmed(f)') >=
                           Cardinality(Writers(f, "none")')
    BY DEF WritersListed
  <2>1. QED
    BY <1>5
<1>8. NoSpareName'
  <2> SUFFICES ASSUME NEW f \in File
               PROVE  /\ reading'[f] <= Cardinality(Readers(f)')
                      /\ accessed'[<<f, "none">>] <= Cardinality(Writers(f, "none")')
    BY DEF NoSpareName
  <2>1. /\ reading'[f] = 0 /\ Cardinality(Readers(f)') = 0
        /\ accessed'[<<f, "none">>] = 0 /\ Cardinality(Writers(f, "none")') = 0
    BY <1>5
  <2>2. QED
    BY <2>1
<1>9. QED
  BY <1>6, <1>7, <1>8 DEF Accounts

LEMMA ListStep == ListInv /\ [Next]_vars => ListInv'
<1> SUFFICES ASSUME ListInv, [Next]_vars
             PROVE  ListInv'
  OBVIOUS
<1>1. TypeInv'
  BY TypeStep DEF ListInv
<1>2. Accounts'
  <2>1. ASSUME NEW c \in Conn, NEW r \in Request, Accept(c, r)
        PROVE  Accounts'
    BY <2>1, AcceptAccounts
  <2>2. ASSUME NEW c \in Conn, Thread(c)
        PROVE  Accounts'
    <3>1. CASE Read(c)
      BY <3>1, ReadAccounts
    <3>2. CASE Write(c)
      BY <3>2, WriteQuiet, WriteRegisterAccounts, WriteUnregisterAccounts DEF Write
    <3>3. QED
      BY <2>2, <3>1, <3>2, OtherAccounts DEF Thread
  <2>3. CASE Crash
    BY <2>3, CrashAccounts
  <2>4. CASE UNCHANGED vars
    <3>1. UNCHANGED <<accessed, reading, dropped, pc, req, leaked>>
      BY <2>4 DEF vars, conns, lists
    <3>2. \A f \in File : SameHolders(f)
      BY <3>1 DEF SameHolders, Readers, Writers, Confirmed
    <3>3. QED
      BY <3>1, <3>2, SameAccounts DEF ListInv
  <2>5. QED
    BY <2>1, <2>2, <2>3, <2>4 DEF Next
<1>3. QED
  BY <1>1, <1>2 DEF ListInv

LEMMA ListInvariant == Spec => []ListInv
  BY ListInit, ListStep, PTL DEF Spec

-----------------------------------------------------------------------------
\* files_being_read names a file as often as threads read it, until a name is
\* turned away at the full list (file_manager.c:75-77, 89-91).
THEOREM ReadersCounted == Spec => []ReadersListed
<1>1. ListInv => ReadersListed
  BY DEF ListInv, Accounts
<1>2. QED
  BY <1>1, ListInvariant, PTL

\* files_being_accessed covers every writer: with the names that writes with
\* --sync leave behind, although these take names of others off
\* (file_manager.c:106-108, 165-167).
THEOREM WritersCounted == Spec => []WritersListed
<1>1. ListInv => WritersListed
  BY DEF ListInv, Accounts
<1>2. QED
  BY <1>1, ListInvariant, PTL

\* No list names a file more often than threads put it there, whatever the
\* capacity (file_manager.c:23-63).
THEOREM NoNameTooMany == Spec => []NoSpareName
<1>1. ListInv => NoSpareName
  BY DEF ListInv, Accounts
<1>2. QED
  BY <1>1, ListInvariant, PTL

\* The only step out of a location is that of its thread, or a crash.
LEMMA OwnStep ==
  ASSUME TypeInv, [Next]_vars, NEW c \in Conn,
         pc[c] \in {"delete_check_writers", "delete_check_readers", "read_check", "write_check"},
         pc'[c] \notin {pc[c], "gone"}
  PROVE  Thread(c)
<1>1. ASSUME NEW x \in Conn, NEW r \in Request, Accept(x, r)
      PROVE  FALSE
  BY <1>1 DEF Accept, Step, TypeInv, TypeOK, ConnsOK
<1>2. ASSUME NEW x \in Conn, Thread(x), x # c
      PROVE  FALSE
  BY <1>2, ThreadMoves
<1>3. CASE Crash
  BY <1>3 DEF Crash
<1>4. CASE UNCHANGED vars
  BY <1>4 DEF vars, conns
<1>5. QED
  BY <1>1, <1>2, <1>3, <1>4 DEF Next

\* Which of the thread's steps it is.
LEMMA CheckingStep ==
  ASSUME TypeInv, NEW c \in Conn, Thread(c)
  PROVE  /\ pc[c] = "delete_check_writers" => DeleteCheckWriters(c)
         /\ pc[c] = "delete_check_readers" => DeleteCheckReaders(c)
         /\ pc[c] = "read_check" => ReadCheck(c)
         /\ pc[c] = "write_check" => WriteCheck(c)
<1> USE DEF Step
<1>1. CASE Read(c)
  BY <1>1 DEF Read, ReadRegister, ReadOpen, ReadBlock, ReadUnregister, ReadCheck
<1>2. CASE Write(c)
  BY <1>2 DEF Write, WriteRegister, WriteRecv, WriteAbandon, WriteOpen, WriteReply, WriteClose,
     WriteUnregister, WriteReplicate, WriteNotify, Send, WriteCheck
<1>3. CASE CopyFile(c)
  BY <1>3 DEF CopyFile, CopyRecv, CopyOpen, CopyClose, CopyNotify, Send
<1>4. CASE Backup(c)
  BY <1>4 DEF Backup, BackupRecv, BackupOpen, BackupClose
<1>5. CASE Delete(c)
  BY <1>5 DEF Delete, DeleteStat, DeleteFile, DeleteDirectory, DeleteCheckWriters, DeleteCheckReaders
<1>6. CASE Create(c) \/ Info(c)
  BY <1>6 DEF Create, CreateParent, CreateOpen, Info
<1>7. QED
  BY <1>1, <1>2, <1>3, <1>4, <1>5, <1>6 DEF Thread

\* A DELETE passes each of its checks only when no thread is on that list
\* with a name below the path, for any number of writers with and without
\* --sync (file_manager.c:467-487).
THEOREM DeleteSparesTheBusy == Spec => DeletePassesWhenIdle
<1> DEFINE A == \A c \in Conn : dropped = {} =>
       /\ Passes(c, "delete_check_writers", "delete_check_readers") =>
            \A f \in PrefixOf[req[c].path], s \in Flag : Writers(f, s) = {}
       /\ Passes(c, "delete_check_readers", "delete_stat") =>
            \A f \in PrefixOf[req[c].path] : Readers(f) = {}
<1>1. ASSUME ListInv, [Next]_vars
      PROVE  A
  <2> SUFFICES ASSUME NEW c \in Conn, dropped = {}
               PROVE  /\ Passes(c, "delete_check_writers", "delete_check_readers") =>
                           \A f \in PrefixOf[req[c].path], s \in Flag : Writers(f, s) = {}
                      /\ Passes(c, "delete_check_readers", "delete_stat") =>
                           \A f \in PrefixOf[req[c].path] : Readers(f) = {}
    OBVIOUS
  <2>1. TypeInv /\ LocatedAt(c) /\ PathsOK(c) /\ ListsOK
    BY <1>1, RequestPaths DEF ListInv, TypeInv, TypeOK, Located
  <2>2. ASSUME Passes(c, "delete_check_writers", "delete_check_readers"),
               NEW f \in PrefixOf[req[c].path], NEW s \in Flag
        PROVE  Writers(f, s) = {}
    <3>1. DeleteCheckWriters(c) /\ pc'[c] = "delete_check_readers"
      BY <1>1, <2>1, <2>2, OwnStep, CheckingStep DEF Passes
    <3>2. f \in File
      BY <2>1, <2>2, PathAssumption DEF Passes, LocatedAt, PathsOK
    <3>3. \A g \in Flag : accessed[<<f, g>>] \in Nat /\ ~(accessed[<<f, g>>] > 0)
      BY <2>1, <3>1, <3>2 DEF DeleteCheckWriters, Step, ListsOK, TypeInv, TypeOK, ConnsOK
    <3>4. accessed[<<f, "none">>] = 0 /\ accessed[<<f, "--sync">>] = 0
      BY <3>3
    <3>5. /\ 0 = Cardinality(Writers(f, "--sync")) + Cardinality(Confirmed(f))
          /\ 0 + Cardinality(Confirmed(f)) >= Cardinality(Writers(f, "none"))
      BY <1>1, <3>2, <3>4 DEF ListInv, Accounts, WritersListed
    <3>6. /\ Cardinality(Writers(f, "--sync")) \in Nat /\ Cardinality(Writers(f, "none")) \in Nat
          /\ Cardinality(Confirmed(f)) \in Nat
      BY <3>2, Holders, Counts
    <3>7. Cardinality(Writers(f, "--sync")) = 0 /\ Cardinality(Writers(f, "none")) = 0
      BY <3>5, <3>6
    <3>8. Cardinality(Writers(f, s)) = 0
      BY <3>7
    <3>9. QED
      BY <3>2, <3>8, Holders, Counts
  <2>3. ASSUME Passes(c, "delete_check_readers", "delete_stat"),
               NEW f \in PrefixOf[req[c].path]
        PROVE  Readers(f) = {}
    <3>1. DeleteCheckReaders(c) /\ pc'[c] = "delete_stat"
      BY <1>1, <2>1, <2>3, OwnStep, CheckingStep DEF Passes
    <3>2. f \in File
      BY <2>1, <2>3, PathAssumption DEF Passes, LocatedAt, PathsOK
    <3>3. reading[f] \in Nat /\ ~(reading[f] > 0)
      BY <2>1, <3>1, <3>2 DEF DeleteCheckReaders, Step, ListsOK, TypeInv, TypeOK, ConnsOK
    <3>4. Cardinality(Readers(f)) = 0
      BY <1>1, <3>2, <3>3 DEF ListInv, Accounts, ReadersListed
    <3>5. QED
      BY <3>2, <3>4, Holders, Counts
  <2>4. QED
    BY <2>2, <2>3
<1>2. ListInv /\ [Next]_vars => [A]_vars
  BY <1>1
<1>3. QED
  BY <1>2, ListInvariant, PTL DEF Spec, DeletePassesWhenIdle

\* A READ or a write is refused only for a thread that is on the other list,
\* whatever the capacity of the lists (file_manager.c:66-73, 97-104).
THEOREM RefusalsJustified == Spec => RefusalIsJustified
<1> DEFINE A == \A c \in Conn :
       /\ Passes(c, "read_check", "closed") =>
            Writers(req[c].path, "none") # {}
       /\ Passes(c, "write_check", "write_notify") =>
            Readers(req[c].path) # {}
<1>1. ASSUME ListInv, [Next]_vars
      PROVE  A
  <2> SUFFICES ASSUME NEW c \in Conn
               PROVE  /\ Passes(c, "read_check", "closed") =>
                           Writers(req[c].path, "none") # {}
                      /\ Passes(c, "write_check", "write_notify") =>
                           Readers(req[c].path) # {}
    OBVIOUS
  <2>1. TypeInv /\ LocatedAt(c) /\ PathsOK(c) /\ ListsOK /\ ConnsOK
    BY <1>1, RequestPaths DEF ListInv, TypeInv, TypeOK, Located
  <2>2. ASSUME Passes(c, "read_check", "closed")
        PROVE  Writers(req[c].path, "none") # {}
    <3>1. ReadCheck(c) /\ pc'[c] = "closed"
      BY <1>1, <2>1, <2>2, OwnStep, CheckingStep DEF Passes
    <3>2. PICK p \in File : p = req[c].path
      BY <2>1, <2>2 DEF Passes, LocatedAt, PathsOK
    <3>3. accessed[<<p, "none">>] > 0 /\ accessed[<<p, "none">>] \in Nat
      BY <2>1, <3>1, <3>2 DEF ReadCheck, Step, ConnsOK, ListsOK
    <3>4. accessed[<<p, "none">>] <= Cardinality(Writers(p, "none"))
      BY <1>1 DEF ListInv, Accounts, NoSpareName
    <3>5. Cardinality(Writers(p, "none")) # 0
      BY <3>3, <3>4
    <3>6. Writers(p, "none") # {}
      BY <3>5, Holders, Counts
    <3>7. QED
      BY <3>2, <3>6
  <2>3. ASSUME Passes(c, "write_check", "write_notify")
        PROVE  Readers(req[c].path) # {}
    <3>1. WriteCheck(c) /\ pc'[c] = "write_notify"
      BY <1>1, <2>1, <2>3, OwnStep, CheckingStep DEF Passes
    <3>2. PICK p \in File : p = req[c].path
      BY <2>1, <2>3 DEF Passes, LocatedAt, PathsOK
    <3>3. reading[p] > 0 /\ reading[p] \in Nat
      BY <2>1, <3>1, <3>2 DEF WriteCheck, Step, ConnsOK, ListsOK
    <3>4. reading[p] <= Cardinality(Readers(p))
      BY <1>1 DEF ListInv, Accounts, NoSpareName
    <3>5. Cardinality(Readers(p)) # 0
      BY <3>3, <3>4
    <3>6. Readers(p) # {}
      BY <3>5, Holders, Counts
    <3>7. QED
      BY <3>2, <3>6
  <2>4. QED
    BY <2>2, <2>3
<1>2. ListInv /\ [Next]_vars => [A]_vars
  BY <1>1
<1>3. QED
  BY <1>2, ListInvariant, PTL DEF Spec, RefusalIsJustified
=============================================================================
