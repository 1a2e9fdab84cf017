---------------------------- MODULE NamingServer ----------------------------
(***************************************************************************)
(* The naming server's commands (naming_server/naming_server.c).  Every    *)
(* client has a thread that serves its commands one after the other; the   *)
(* threads share the index of NamingIndex and nothing keeps them apart.    *)
(* A call of a function of the index is one step.  What a handler does     *)
(* with the pointer it was given, and what it does before and after it has *)
(* waited for a storage server, are steps of their own.                    *)
(*                                                                         *)
(* The storage servers are what their answers say of them: a set of paths  *)
(* on the disk of each.  There are two at most: the third would bring in   *)
(* the backups.  An unfinished write, the queue of commands and the        *)
(* listing of a directory are not looked at here either.                   *)
(***************************************************************************)
EXTENDS NamingIndex

CONSTANTS
  Thread,    \* threads that serve a client
  Dir,       \* the paths that are directories
  Inside,    \* Inside[p]: p and, if it is a directory, what is in it
  Dotted,    \* the paths with a "." in them
  Listing,   \* Listing[s]: the paths server s registers with
  Frail,     \* servers that may go
  Command,   \* the commands clients send
  MaxCommands  \* bound on the commands of each

NoPath == <<>>
Junk   == [server |-> NoServer, path |-> NoPath]
None   == [op |-> "none", path |-> NoPath, to |-> NoPath]

\* CREATE of a file "to" in the directory "path", COPY of "path" onto "to".
AnyCommand ==
       [op : {"READ", "WRITE", "INFO", "STREAM", "DELETE"}, path : Path, to : {NoPath}]
  \cup [op : {"CREATE", "COPY"}, path : Path, to : Path]

ASSUME ServerAssumption ==
  /\ Dir \subseteq Path /\ Dotted \subseteq Path
  /\ Inside \in [Path -> SUBSET Path]
  /\ \A p \in Path : p \in Inside[p] /\ \A q \in Inside[p] : Inside[q] \subseteq Inside[p]
  /\ Listing \in [Server -> SUBSET Path]
  /\ Frail \subseteq Server
  /\ \A r, s, u \in Server : r = s \/ s = u \/ r = u
  /\ Command \subseteq AnyCommand
  /\ MaxCommands \in Nat
  /\ \A c \in Command : c.op = "CREATE" => c.to \in Inside[c.path]

VARIABLES
  registered,  \* storage servers that have an entry in storage_servers
  active,      \* those marked is_active
  disk,        \* the paths on the disk of each
  up,          \* the naming server runs
  pc,          \* what each thread does next
  cmd,         \* the command it serves
  ptr,         \* file_info, dir_info, source_file_info or dest_file_info
  found,       \* a FILEINFO copied to the thread's own memory
  target,      \* the FILEINFO by which a storage server was chosen
  outcome,     \* what that storage server answered
  sent,        \* the answer that was sent to a client in the last step
  given,       \* how many commands each client has given
  disturbed,   \* history: threads that another one got in the way of
  raced,       \* history: paths two threads searched the trie for at once
  copied,      \* history: paths a COPY has put another's entries under
  astray       \* history: these, and those recorded through a pointer that had moved

servers == <<registered, active, disk>>
locals  == <<cmd, ptr, found, target, outcome>>
history == <<given, disturbed, raced, copied, astray>>
vars    == <<index, servers, up, pc, locals, sent, history>>

Message(to, kind, info) == [to |-> to, kind |-> kind, info |-> info]
Nothing == Message({}, "none", NoInfo)

Init ==
  /\ IndexInit
  /\ registered = {}
  /\ active = {}
  /\ disk = Listing
  /\ up = TRUE
  /\ pc = [t \in Thread |-> "idle"]
  /\ cmd = [t \in Thread |-> None]
  /\ ptr = [t \in Thread |-> NullPtr]
  /\ found = [t \in Thread |-> Junk]
  /\ target = [t \in Thread |-> Junk]
  /\ outcome = [t \in Thread |-> "none"]
  /\ sent = Nothing
  /\ given = [t \in Thread |-> 0]
  /\ disturbed = {} /\ raced = {} /\ copied = {} /\ astray = {}

-----------------------------------------------------------------------------
\* What a thread may read through its pointer now.  A FILEINFO that was
\* freed has lost its address to the allocator and may have been allocated
\* again, in the trie or for the copy a COPY takes.
Read(x) ==
  CASE x.at = "slot"  -> {slots[1].info}
    [] x.at = "node"  -> {trie[x.path]}
    [] x.at = "kept"  -> {x.info}
    [] x.at = "freed" -> 
           {[server |-> NoServer, path |-> x.path]}
             \cup (Info \cap ({trie[p] : p \in Path}
                              \cup {found[u] : u \in {v \in Thread : cmd[v].op = "COPY"}}))
    [] OTHER          -> {}

Step(t, from, to) ==
  /\ up
  /\ pc[t] = from
  /\ pc' = [pc EXCEPT ![t] = to]

Say(t, kind, info) == sent' = Message({t}, kind, info)
Quiet == sent' = Nothing

\* The handler returns, having answered its client or not.
Leave(t, from) ==
  /\ Step(t, from, "idle")
  /\ cmd' = [cmd EXCEPT ![t] = None]
  /\ found' = [found EXCEPT ![t] = Junk]
  /\ target' = [target EXCEPT ![t] = Junk]
  /\ outcome' = [outcome EXCEPT ![t] = "none"]

Return(t, from) == Leave(t, from) /\ ptr' = [ptr EXCEPT ![t] = NullPtr]

Answer(t, from, kind, info) ==
  /\ Return(t, from)
  /\ Say(t, kind, info)
  /\ UNCHANGED <<index, servers, up>>

GiveUp(t, from) == Return(t, from) /\ UNCHANGED <<index, servers, up>> /\ Quiet

-----------------------------------------------------------------------------
(* Storage servers come with the paths they have, go and come back.        *)
Register(s) ==
  /\ up
  /\ s \notin registered
  /\ registered' = registered \cup {s}
  /\ active' = active \cup {s}
  /\ update_file_info(Listing[s], s)
  /\ UNCHANGED <<slots, count, disk, up, pc, locals>> /\ Quiet

\* A server that goes breaks the connection of a COPY that waits for it.
Disconnect(s) ==
  /\ up
  /\ s \in active \cap Frail
  /\ active' = active \ {s}
  /\ outcome' = [t \in Thread |->
       IF pc[t] = "copy_wait" /\ target[t].server = s THEN "lost" ELSE outcome[t]]
  /\ UNCHANGED <<index, registered, disk, up, pc, cmd, ptr, found, target>> /\ Quiet

Reconnect(s) ==
  /\ up
  /\ s \in registered \ active
  /\ active' = active \cup {s}
  /\ UNCHANGED <<index, registered, disk, up, pc, locals>> /\ Quiet

-----------------------------------------------------------------------------
(* A command is read from the client; its path is looked up.               *)
Accept(t, c) ==
  /\ given[t] < MaxCommands
  /\ Step(t, "idle", IF c.op = "COPY" THEN "stat" ELSE "find")
  /\ cmd' = [cmd EXCEPT ![t] = c]
  /\ UNCHANGED <<index, servers, up, ptr, found, target, outcome>> /\ Quiet

Stored(p) == \E s \in Server : p \in disk[s]

\* COPY looks at the disk, which the storage servers share with it.
CopyStat(t) ==
  \/ /\ ~(Stored(cmd[t].path) /\ Stored(cmd[t].to))
     /\ GiveUp(t, "stat")
  \/ /\ Stored(cmd[t].path) /\ Stored(cmd[t].to)
     /\ cmd[t].path \in Dir /\ cmd[t].to \notin Dir
     /\ Answer(t, "stat", "dest is a file", NoInfo)
  \/ /\ Stored(cmd[t].path) /\ Stored(cmd[t].to)
     /\ cmd[t].path \in Dir => cmd[t].to \in Dir
     /\ Step(t, "stat", "find")
     /\ UNCHANGED <<index, servers, up, locals>> /\ Quiet

\* DELETE does nothing, and says nothing, for a path without a ".".
Undotted(t) == cmd[t].op = "DELETE" /\ cmd[t].path \notin Dotted /\ GiveUp(t, "find")

\* Where a handler is once the cache does not have what it looks for.
Searching == [find |-> "search", find_file |-> "search_file", find_dest |-> "search_dest"]

Miss(t) ==
  \E from \in DOMAIN Searching :
    /\ Step(t, from, Searching[from])
    /\ from = "find" /\ cmd[t].op = "DELETE" => cmd[t].path \in Dotted
    /\ ~Hit(IF from = "find" THEN cmd[t].path ELSE cmd[t].to)
    /\ UNCHANGED <<index, servers, up, locals>> /\ Quiet

LookedUp(t, from, p, result) ==
  \/ pc[t] = from /\ find_cached(p, result)
  \/ pc[t] = Searching[from] /\ find_in_trie(p, result)

Pointers(p) == {SlotPtr, NodePtr(p), NullPtr}

\* CREATE has a second path to look up.
Find(t) ==
  LET p == cmd[t].path
  IN  /\ cmd[t].op = "DELETE" => p \in Dotted
      /\ Step(t, pc[t], IF cmd[t].op = "CREATE" THEN "find_file" ELSE "found")
      /\ \E result \in Pointers(p) :
           /\ LookedUp(t, "find", p, result)
           /\ ptr' = [ptr EXCEPT ![t] = result]
      /\ UNCHANGED <<servers, up, cmd, found, target, outcome>> /\ Quiet

\* STREAM, having answered, reads through the null pointer for the log.
Missing(t) ==
  /\ ptr[t] = NullPtr
  /\ Return(t, "found")
  /\ Say(t, "not found", NoInfo)
  /\ up' = (cmd[t].op # "STREAM")
  /\ UNCHANGED <<index, servers>>

\* READ, and COPY of a directory, take a copy of what was found.
Present(t) ==
  /\ ptr[t] # NullPtr
  /\ Step(t, "found", "check")
  /\ \E x \in Read(ptr[t]) :
       found' = [found EXCEPT ![t] =
                   IF cmd[t].op = "READ" \/ (cmd[t].op = "COPY" /\ cmd[t].path \in Dir)
                   THEN x ELSE @]
  /\ UNCHANGED <<index, servers, up, cmd, ptr, target, outcome>> /\ Quiet

CreateFind(t) ==
  \E result \in Pointers(cmd[t].to) :
    /\ LookedUp(t, "find_file", cmd[t].to, result)
    /\ UNCHANGED <<servers, up>>
    /\ \/ /\ result # NullPtr
          /\ Return(t, pc[t])
          /\ Say(t, "exists", NoInfo)
       \/ /\ result = NullPtr /\ ptr[t] = NullPtr
          /\ Return(t, pc[t])
          /\ Say(t, "not found", NoInfo)
       \/ /\ result = NullPtr /\ ptr[t] # NullPtr
          /\ Step(t, pc[t], "check")
          /\ UNCHANGED locals /\ Quiet

-----------------------------------------------------------------------------
(* Is the storage server there?                                            *)

\* An address without an entry counts as served: nothing says otherwise.
ReadCheck(t) ==
  /\ cmd[t].op = "READ"
  /\ \E x \in Read(ptr[t]) :
       IF x.server \in registered \ active
       THEN Answer(t, "check", "not found", NoInfo)
       ELSE Answer(t, "check", "found", found[t])

InfoCheck(t) ==
  /\ cmd[t].op \in {"INFO", "STREAM"}
  /\ \E x \in Read(ptr[t]) :
       \/ x.server \notin active /\ Answer(t, "check", "not active", NoInfo)
       \/ /\ x.server \in active
          /\ Step(t, "check", "send")
          /\ UNCHANGED <<index, servers, up, locals>> /\ Quiet

\* WRITE does not mind.
WriteCheck(t) ==
  /\ cmd[t].op = "WRITE"
  /\ Step(t, "check", "send")
  /\ UNCHANGED <<index, servers, up, locals>> /\ Quiet

Send(t) == \E x \in Read(ptr[t]) : Answer(t, "send", "found", x)

RequestCheck(t) ==
  /\ cmd[t].op \in {"CREATE", "DELETE"}
  /\ \E x \in Read(ptr[t]) :
       \/ /\ x.server \notin registered /\ cmd[t].op = "CREATE"
          /\ GiveUp(t, "check")
       \/ /\ x.server \notin active
          /\ cmd[t].op = "CREATE" => x.server \in registered
          /\ Answer(t, "check", "not active", NoInfo)
       \/ /\ x.server \in active
          /\ Step(t, "check", "request")
          /\ target' = [target EXCEPT ![t] = x]
          /\ UNCHANGED <<index, servers, up, cmd, ptr, found, outcome>> /\ Quiet

CopyCheck(t) ==
  /\ cmd[t].op = "COPY"
  /\ \E x \in Read(ptr[t]) :
       \/ x.server \notin active /\ Answer(t, "check", "not active", NoInfo)
       \/ /\ x.server \in active
          /\ Step(t, "check", "find_dest")
          /\ UNCHANGED <<index, servers, up, locals>> /\ Quiet

Check(t) == ReadCheck(t) \/ InfoCheck(t) \/ WriteCheck(t) \/ RequestCheck(t) \/ CopyCheck(t)

-----------------------------------------------------------------------------
(* CREATE and DELETE are sent on to the storage server.                    *)

\* It cannot be reached any more, or its answer does not come.
Unreachable(t) ==
  \/ \E from \in {"request", "record", "uncache"} : GiveUp(t, from)
  \/ cmd[t].op = "COPY" /\ GiveUp(t, "find_dest")

\* To make a directory that is there succeeds.
StorageCreate(t) ==
  LET s == target[t].server
      p == cmd[t].to
  IN  /\ cmd[t].op = "CREATE"
      /\ Step(t, "request", "record")
      /\ \/ /\ p \notin disk[s] \/ p \in Dir \ Dotted
            /\ disk' = [disk EXCEPT ![s] = @ \cup {cmd[t].path, p}]
            /\ outcome' = [outcome EXCEPT ![t] = "success"]
         \/ /\ UNCHANGED disk
            /\ outcome' = [outcome EXCEPT ![t] = "failure"]
      /\ UNCHANGED <<index, registered, active, up, cmd, ptr, found, target>> /\ Quiet

\* Mutation: the new file is recorded for whatever server comes first.
CreateRecordAny(t) ==
  /\ Step(t, "record", "created")
  /\ \/ /\ outcome[t] = "success"
        /\ update_file_info({cmd[t].to}, CHOOSE s \in registered : TRUE)
     \/ outcome[t] = "failure" /\ UNCHANGED trie
  /\ UNCHANGED <<slots, count, servers, up, locals>> /\ Quiet

CreateRecord(t) ==
  /\ Step(t, "record", "created")
  /\ \/ /\ outcome[t] = "success"
        /\ \E x \in Read(ptr[t]) : update_file_info({cmd[t].to}, x.server)
     \/ outcome[t] = "failure" /\ UNCHANGED trie
  /\ UNCHANGED <<slots, count, servers, up, locals>> /\ Quiet

\* Mutation: what the storage server refused is sent to it again.
CreateAnswerRetrying(t) ==
  \/ /\ outcome[t] = "failure"
     /\ Step(t, "created", "request")
     /\ UNCHANGED <<index, servers, up, locals>> /\ Quiet
  \/ outcome[t] = "success" /\ Answer(t, "created", "success", NoInfo)

CreateAnswer(t) == Answer(t, "created", outcome[t], NoInfo)

\* The storage server refuses for a reader or a writer, deletes, or finds
\* nothing and closes the connection without a word.
StorageDelete(t) ==
  LET s == target[t].server
      p == cmd[t].path
  IN  /\ cmd[t].op = "DELETE"
      /\ Step(t, "request", "uncache")
      /\ \/ /\ UNCHANGED disk
            /\ outcome' = [outcome EXCEPT ![t] = "refused"]
         \/ /\ p \in disk[s]
            /\ disk' = [disk EXCEPT ![s] = @ \ Inside[p]]
            /\ outcome' = [outcome EXCEPT ![t] = "deleted"]
         \/ /\ p \notin disk[s]
            /\ UNCHANGED disk
            /\ outcome' = [outcome EXCEPT ![t] = "silent"]
      /\ UNCHANGED <<index, registered, active, up, cmd, ptr, found, target>> /\ Quiet

DeleteUncache(t) ==
  /\ Step(t, "uncache", "untrie")
  /\ \E x \in Read(ptr[t]) : remove_from_cache(x.path)
  /\ UNCHANGED <<trie, servers, up, locals>> /\ Quiet

\* Pointers to the file_info of a node that is taken out of the trie.
AfterDelete(x, p) == IF x.at = "node" /\ x.path = p THEN FreedPtr(p) ELSE x

DeleteUntrie(t) ==
  /\ Leave(t, "untrie")
  /\ Say(t, outcome[t], NoInfo)
  /\ \E x \in Read(ptr[t]) :
       /\ delete_file_info(x.path)
       /\ ptr' = [u \in Thread |->
                    IF u = t THEN NullPtr ELSE AfterDelete(ptr[u], x.path)]
  /\ UNCHANGED <<slots, count, servers, up>>

-----------------------------------------------------------------------------
(* COPY of a directory changes the index and then asks the storage server; *)
(* of a file it only asks, and never answers its client.                   *)
CopyFindDest(t) ==
  \E result \in Pointers(cmd[t].to) :
    /\ LookedUp(t, "find_dest", cmd[t].to, result)
    /\ UNCHANGED <<servers, up>>
    /\ \/ /\ result = NullPtr
          /\ Return(t, pc[t])
          /\ Say(t, "not found", NoInfo)
       \/ /\ result # NullPtr
          /\ Step(t, pc[t], "check_dest")
          /\ ptr' = [ptr EXCEPT ![t] = result]
          /\ UNCHANGED <<cmd, found, target, outcome>> /\ Quiet

\* A file is copied by way of the handler, to whatever is at the destination by
\* then.  Of one that is empty nothing is sent on: the handler waits for an answer
\* and the destination for data.
CopyCheckDest(t) ==
  \E x \in Read(ptr[t]) :
    \/ x.server \notin active /\ Answer(t, "check_dest", "not active", NoInfo)
    \/ /\ x.server \in active /\ cmd[t].path \notin Dir
       /\ \/ GiveUp(t, "check_dest")
          \/ /\ x.path \notin Dir
             /\ Return(t, "check_dest")
             /\ disk' = [disk EXCEPT ![x.server] = @ \cup {x.path}]
             /\ UNCHANGED <<index, registered, active, up>> /\ Quiet
          \/ /\ Step(t, "check_dest", "copy_wait")
             /\ target' = [target EXCEPT ![t] = x]
             /\ UNCHANGED <<index, servers, up, cmd, ptr, found, outcome>> /\ Quiet
    \/ /\ x.server \in active /\ cmd[t].path \in Dir
       /\ Step(t, "check_dest", "copy_index")
       /\ target' = [target EXCEPT ![t] = x]
       /\ UNCHANGED <<index, servers, up, cmd, ptr, found, outcome>> /\ Quiet

\* The destination has gone.
CopyBroken(t) == outcome[t] = "lost" /\ GiveUp(t, "copy_wait")

AfterCopy(x, b) ==
  CASE x.at = "node" /\ x.path = b -> FreedPtr(b)
    [] x.at = "node" /\ x.path # b /\ Begins(x.path, b) -> KeptPtr(trie[x.path])
    [] OTHER -> x

CopyIndex(t) ==
  LET a == cmd[t].path
      b == cmd[t].to
  IN  /\ Step(t, "copy_index", "copy_request")
      /\ \/ trie[a] = NoNode /\ UNCHANGED <<trie, ptr>>
         \/ /\ trie[a] # NoNode
            /\ copy_directory_trie(a, b)
            /\ ptr' = [u \in Thread |-> AfterCopy(ptr[u], b)]
      /\ UNCHANGED <<slots, count, servers, up, cmd, found, target, outcome>> /\ Quiet

\* Within a server the files land where the index has them; on another one
\* a level further down, where it has not.
StorageCopy(t) ==
  LET Moved(q) == target[t].path \o SubSeq(q, Len(found[t].path) + 1, Len(q))
      s == target[t].server
      copies == {Moved(q) : q \in disk[s] \cap Inside[found[t].path]}
  IN  /\ Return(t, "copy_request")
      /\ Say(t, "copied", NoInfo)
      /\ \/ found[t].server = s /\ disk' = [disk EXCEPT ![s] = @ \cup (copies \cap Path)]
         \/ UNCHANGED disk
      /\ UNCHANGED <<index, registered, active, up>>

-----------------------------------------------------------------------------
(* What happened, for the properties to tell.                              *)

\* A step of another thread, or a registration: it replaced what t points to, put
\* back into the cache what t had taken off, or made the file t is to create.
Disturbed(t) ==
  /\ pc'[t] = pc[t]
  /\ \/ ptr'[t] # ptr[t]
     \/ ptr[t] = SlotPtr /\ slots'[1] # slots[1]
     \/ pc[t] = "untrie" /\ Hit(cmd[t].path)'
     \/ /\ cmd[t].op = "CREATE" /\ pc[t] \in {"check", "request", "record"}
        /\ trie'[cmd[t].to] # trie[cmd[t].to]

Sought(t) ==
  CASE pc[t] = "search" -> {cmd[t].path}
    [] pc[t] \in {"search_file", "search_dest"} -> {cmd[t].to}
    [] OTHER -> {}

Race(p) == \E t, u \in Thread : t # u /\ p \in Sought(t) \cap Sought(u)

Replaced(t) ==
  IF pc[t] = "copy_index" /\ pc'[t] # pc[t] /\ trie' # trie
  THEN {q \in Path : Begins(q, cmd[t].to)} ELSE {}

Misplaced(t) ==
  IF pc[t] = "record" /\ pc'[t] # pc[t] /\ trie' # trie /\ (t \in disturbed \/ cmd[t].path \in astray)
  THEN {cmd[t].to} ELSE {}

Histories ==
  /\ given' = [t \in Thread |-> IF pc[t] = "idle" /\ pc'[t] # "idle" THEN given[t] + 1 ELSE given[t]]
  /\ disturbed' = {t \in Thread : pc'[t] # "idle" /\ (t \in disturbed \/ Disturbed(t))}
  /\ raced' = {p \in Path : Race(p)' \/ (p \in raced /\ Hit(p)')}
  /\ copied' = copied \cup UNION {Replaced(t) : t \in Thread}
  /\ astray' = astray \cup UNION {Replaced(t) \cup Misplaced(t) : t \in Thread}

-----------------------------------------------------------------------------
Handle(t) ==
  \/ CopyStat(t)
  \/ Undotted(t)
  \/ Miss(t)
  \/ Find(t)
  \/ Missing(t)
  \/ Present(t)
  \/ CreateFind(t)
  \/ Check(t)
  \/ Send(t)
  \/ Unreachable(t)
  \/ StorageCreate(t)
  \/ CreateRecord(t)
  \/ CreateAnswer(t)
  \/ StorageDelete(t)
  \/ DeleteUncache(t)
  \/ DeleteUntrie(t)
  \/ CopyFindDest(t)
  \/ CopyCheckDest(t)
  \/ CopyBroken(t)
  \/ CopyIndex(t)
  \/ StorageCopy(t)

Serve(t) == Handle(t) /\ Histories

Next ==
  \/ \E s \in Server : (Register(s) \/ Disconnect(s) \/ Reconnect(s)) /\ Histories
  \/ \E t \in Thread, c \in Command : Accept(t, c) /\ Histories
  \/ \E t \in Thread : Serve(t)

Spec == Init /\ [][Next]_vars

\* A thread that has a command is scheduled, and a storage server answers
\* or its connection breaks.
FairSpec == Spec /\ \A t \in Thread : WF_vars(Serve(t))
-----------------------------------------------------------------------------
(* Properties.                                                             *)

Location ==
  {"idle", "stat", "find", "search", "find_file", "search_file", "found", "check",
   "send", "request", "record", "created", "uncache", "untrie", "find_dest",
   "search_dest", "check_dest", "copy_wait", "copy_index", "copy_request"}

Outcome == {"none", "success", "failure", "deleted", "refused", "silent", "lost"}

Kind == Outcome \cup
  {"found", "not found", "not active", "exists", "dest is a file", "copied"}

PointerOK(x) ==
  \/ x = NullPtr
  \/ x = SlotPtr /\ slots[1] \in Entry
  \/ \E p \in Path : x = FreedPtr(p) \/ (x = NodePtr(p) /\ trie[p] \in Info)
  \/ \E i \in Info : x = KeptPtr(i)

StateOK ==
  /\ IndexOK
  /\ registered \subseteq Server /\ active \subseteq registered
  /\ disk \in [Server -> SUBSET Path]
  /\ up \in BOOLEAN
  /\ pc \in [Thread -> Location]
  /\ cmd \in [Thread -> AnyCommand \cup {None}]
  /\ found \in [Thread -> Info \cup {Junk}]
  /\ target \in [Thread -> Info \cup {Junk}]
  /\ outcome \in [Thread -> Outcome]
  /\ sent \in [to : SUBSET Thread, kind : Kind, info : Info \cup {Junk, NoInfo}]
  /\ DOMAIN ptr = Thread /\ \A t \in Thread : PointerOK(ptr[t])

HistoryOK ==
  /\ given \in [Thread -> 0..MaxCommands]
  /\ disturbed \subseteq Thread
  /\ raced \subseteq Path /\ copied \subseteq Path /\ astray \subseteq Path

\* The shape of the state; a pointer into the trie that has not been freed
\* leads to a file_info, one into the cache to an entry
\* (naming_utils.c:44, 170, 185).
TypeOK == StateOK /\ HistoryOK

Answered(t, kind) == sent'.to = {t} /\ sent'.kind = kind

\* A client that asks for a file is told where that file is, and no other, however
\* many clients there are, unless what its handler points to was replaced
\* meanwhile, or a COPY has put another's entry under the path
\* (naming_server.c:1036-1038, 372, 432, 992).
AnswerNamesTheFile ==
  [][\A t \in Thread \ disturbed :
       Answered(t, "found") /\ cmd[t].path \notin copied
         => sent'.info.path = cmd[t].path]_vars

Home(s) == UNION {Inside[p] : p \in Listing[s]}

\* A path is indexed, and cached, for a server that registered it or the
\* directory it was created in, unless a COPY replaced it, or it was created by a
\* handler whose pointer to the directory had moved, or in a directory that was
\* astray itself (naming_server.c:192, naming_utils.c:122, 140).
OwnerIsHome ==
  /\ \A p \in Path \ astray : trie[p] \in Info => p \in Home(trie[p].server)
  /\ \A i \in 1..count :
       slots[i].path \in astray \/ slots[i].path \in Home(slots[i].info.server)

\* No path is in the cache twice, unless two threads searched the trie for it at
\* once: a second entry outlives the removal of the first and answers for a
\* deleted file (naming_utils.c:34-83, 145-171).
NoDuplicateEntry ==
  \A i, j \in 1..count :
    slots[i].path = slots[j].path /\ slots[i].path \notin raced => i = j

Coherent(p) == \A i \in 1..count : slots[i].path = p => slots[i].info = trie[p]

Ends(t, from) == pc[t] = from /\ pc'[t] # from

\* What a DELETE reads through its pointer last may not be what it asked for.
Unsure(t) == t \in disturbed \/ ptr[t] = SlotPtr \/ cmd[t].path \in copied

\* What the cache says of a path is what the trie says, until a server that has
\* the path registers, a COPY replaces it, a DELETE that points into the cache, or
\* that another thread got in the way of, takes it out of the trie, or a CREATE
\* records it that another thread got in the way of: whatever else threads do to
\* the index together keeps the two the same (naming_utils.c:34-83,
\* naming_server.c:192, 551, 838-843, 1233).
StaleOnlyAfter ==
  [][\A p \in Path \ raced : Coherent(p) /\ ~Coherent(p)' =>
       \/ \E s \in registered' \ registered : p \in Listing[s]
       \/ \E t \in Thread :
            \/ Ends(t, "untrie") /\ Unsure(t)
            \/ Ends(t, "record") /\ t \in disturbed /\ cmd[t].to = p
            \/ Ends(t, "copy_index") /\ Begins(p, cmd[t].to)]_vars

Finds(t, from) ==
  /\ pc[t] \in {from, Searching[from]}
  /\ pc'[t] \notin {from, Searching[from]}
  /\ \/ from = "find_file" /\ sent'.kind = "exists"
     \/ from # "find_file" /\ ptr'[t] # NullPtr

\* Whatever a handler finds counts as used from then on, where it was found
\* in the cache (naming_utils.c:38-43) and where in the trie
\* (naming_utils.c:166, 214), as long as no path may be in the cache twice.
LookupsRefresh ==
  [][raced = {} => \A t \in Thread :
       /\ Finds(t, "find") => Lru!Use(cmd[t].path)
       /\ \A from \in {"find_file", "find_dest"} :
            Finds(t, from) => Lru!Use(cmd[t].to)]_vars

\* Every command comes to its end, answered or not, unless the naming server
\* goes down, or it is a COPY of an empty file whose destination stays
\* (naming_server.c:668-677, 1628-1632).
CommandEnds ==
  \A t \in Thread :
    pc[t] # "idle" ~> pc[t] = "idle" \/ ~up \/ (pc[t] = "copy_wait" /\ outcome[t] # "lost")
=============================================================================
