--------------------------- MODULE ClientSession ---------------------------
(***************************************************************************)
(* The conversation of the client program (clients/client.c) with its      *)
(* thread in the naming server (handle_client and process_client_command   *)
(* of naming_server/naming_server.c), composed with WriteClients.          *)
(*                                                                         *)
(* The client sends a command and takes what comes for its answer.  Not    *)
(* every command is answered, and a COPY is answered with more than the    *)
(* client takes.  What the connection carries is a sequence of pieces,     *)
(* each marked with the command it was sent for.                           *)
(***************************************************************************)
EXTENDS WriteClients

\* What a client may ask: an address and what goes with it (READ, INFO, STREAM,
\* WRITE with --sync), a change (CREATE, DELETE), COPY of a folder or of a file,
\* LIST, WRITE without --sync.
Ops == {"lookup", "change", "copy", "list", "write"}

CONSTANTS
  Asks,         \* which of these each client may give
  MaxCommands,  \* bound on the commands of each
  Room          \* how many pieces a connection holds before send blocks

ASSUME SessionAssumption ==
  /\ Asks \in [Client -> SUBSET Ops]
  /\ MaxCommands \in [Client -> Nat]
  /\ Room \in Nat \ {0}

\* What may come: a FILEINFO with or without an address, a text, the last piece
\* of a list, the 1024 bytes after a folder's copy, the end of a write.
Kinds == {"info", "none", "text", "stop", "block", "rest", "completed", "failed"}

\* The handlers' answers to each; "silent" is none at all.
Answers ==
  [lookup |-> {"info", "none", "text"}, change |-> {"text", "silent"},
   copy |-> {"block", "text", "silent"}, list |-> {"stop"}, write |-> {"info", "text"}]

VARIABLES
  prog,     \* what the client does: "ready", "wait", "told" (of a write's start), "blank" (it
            \* sent the storage server no data, and waits for its answer) or "gone"
  op,       \* its command
  wants,    \* the file of its WRITE
  number,   \* how many it has given
  request,  \* the number of the command on its way to the handler, or 0
  in,       \* the pieces on their way to the client
  serving,  \* the number of the command the handler is at
  down,     \* has the naming server been killed?
  spoiled,  \* history: clients a piece may have been left for
  silent    \* history: the last command a client got no answer to

given   == <<op, wants, number, request>>
client  == <<prog, given>>
session == <<in, serving, down, spoiled, silent>>
vars    == <<writes, handler, client, session>>

Init ==
  /\ WritesInit
  /\ prog = [c \in Client |-> "ready"]
  /\ op = [c \in Client |-> "lookup"]
  /\ wants = [c \in Client |-> NoFile]
  /\ number = [c \in Client |-> 0]
  /\ request = [c \in Client |-> 0]
  /\ in = [c \in Client |-> <<>>]
  /\ serving = [c \in Client |-> 0]
  /\ down = FALSE
  /\ spoiled = {}
  /\ silent = [c \in Client |-> 0]

\* A piece for c's connection; there is no one to take it once c has gone.
Piece(c, kind) == [kind |-> kind, of |-> serving'[c]]
Sent(c, kind) ==
  in' = [in EXCEPT ![c] = IF prog[c] = "gone" THEN @ ELSE Append(@, Piece(c, kind))]

-----------------------------------------------------------------------------
(* The client.                                                             *)

\* A command is typed; the handler has read the one before.
Ask(c, o) ==
  /\ prog[c] = "ready" /\ request[c] = 0
  /\ number[c] < MaxCommands[c]
  /\ number' = [number EXCEPT ![c] = @ + 1]
  /\ request' = [request EXCEPT ![c] = number'[c]]
  /\ prog' = [prog EXCEPT ![c] = "wait"]
  /\ op' = [op EXCEPT ![c] = o]
  /\ \/ o = "write" /\ \E f \in File : wants' = [wants EXCEPT ![c] = f]
     \/ o # "write" /\ UNCHANGED wants
  /\ UNCHANGED <<writes, handler, session>>

Goes(c, to) == prog' = [prog EXCEPT ![c] = to]

\* Everything there is, or for a FILEINFO as much as there is room for.
Take(c) ==
  /\ in[c] # <<>>
  /\ \/ in' = [in EXCEPT ![c] = <<>>]
     \/ op[c] \in {"lookup", "write"} /\ prog[c] = "wait" /\ in' = [in EXCEPT ![c] = Tail(@)]

Head1(c) == in[c][1].kind

\* What was taken for an address may be a text: whatever the memory behind it
\* held, the client goes on or ends.
TakeLookup(c) ==
  /\ prog[c] = "wait" /\ op[c] = "lookup"
  /\ Take(c)
  /\ \/ Goes(c, "ready")
     \/ Head1(c) # "none" /\ Goes(c, "gone")
  /\ UNCHANGED <<writes, handler, given, serving, down, spoiled, silent>>

\* What an address names is the recorded path, whatever was asked for; one left
\* from an earlier command is of whatever file that one asked for.
Addressed(c) == IF in[c][1].of = number[c] THEN {Recorded[wants[c]]} ELSE Server

\* The address of a WRITE: the client sends its data to the storage server and
\* then waits for what the naming server has to say.  Of an empty line it sends
\* nothing, and both wait.
TakeAddress(c) ==
  /\ prog[c] = "wait" /\ op[c] = "write" /\ Take(c) /\ Head1(c) = "info"
  /\ \E f \in Addressed(c) \ lost, data \in BOOLEAN :
       Give(c, f, data) /\ Goes(c, IF data THEN "told" ELSE "blank")
  /\ UNCHANGED <<handler, given, serving, down, spoiled, silent>>

\* The storage server has gone, or it was no address.
TakeAddressFail(c) ==
  /\ prog[c] = "wait" /\ op[c] = "write" /\ Take(c)
  /\ \/ Head1(c) = "info" /\ Addressed(c) \cap lost # {} /\ Goes(c, "gone")
     \/ Head1(c) # "info" /\ \E to \in {"ready", "gone"} : Goes(c, to)
  /\ UNCHANGED <<writes, handler, given, serving, down, spoiled, silent>>

\* With the storage server the wait for its answer ends.
TakeRefusal(c) ==
  /\ prog[c] = "blank" /\ \A f \in Server : <<c, f>> \notin held
  /\ Goes(c, "told")
  /\ UNCHANGED <<writes, handler, given, session>>

\* CREATE, DELETE and the end of a WRITE: what there is is the answer.
TakeText(c) ==
  /\ \/ prog[c] = "wait" /\ op[c] = "change"
     \/ prog[c] = "told"
  /\ Take(c)
  /\ Goes(c, "ready")
  /\ UNCHANGED <<writes, handler, given, serving, down, spoiled, silent>>

\* LIST goes on until the last piece has come.
TakeList(c) ==
  /\ prog[c] = "wait" /\ op[c] = "list"
  /\ Take(c)
  /\ IF \E i \in 1..Len(in[c]) : in[c][i].kind = "stop" THEN Goes(c, "ready") ELSE UNCHANGED prog
  /\ UNCHANGED <<writes, handler, given, serving, down, spoiled, silent>>

\* COPY asks for as many bytes as its buffer happened to hold: for none, and it
\* does not wait; for some, and leaves the rest; or for enough.
TakeCopy(c) ==
  /\ prog[c] = "wait" /\ op[c] = "copy"
  /\ \/ UNCHANGED in /\ spoiled' = spoiled \cup {c}
     \/ /\ in[c] # <<>>
        /\ in' = [in EXCEPT ![c][1].kind = "rest"]
        /\ spoiled' = spoiled \cup {c}
     \/ Take(c) /\ UNCHANGED spoiled
  /\ Goes(c, "ready")
  /\ UNCHANGED <<writes, handler, given, serving, down, silent>>

\* The naming server is gone: every read from it returns at once.
TakeEnd(c) ==
  /\ down /\ in[c] = <<>>
  /\ prog[c] \in {"wait", "told"}
  /\ \E to \in {"ready", "gone"} : Goes(c, to)
  /\ UNCHANGED <<writes, handler, given, session>>

\* The user ends the program.
Quit(c) ==
  /\ prog[c] # "gone"
  /\ Goes(c, "gone")
  /\ in' = [in EXCEPT ![c] = <<>>]
  /\ Release(c)
  /\ UNCHANGED <<handler, given, serving, down, spoiled, silent>>

-----------------------------------------------------------------------------
(* The thread of the naming server.                                        *)

\* Sending again to a client that has gone kills the naming server, which does
\* not ignore SIGPIPE.
Killed(c, again) == down' = TRUE /\ again /\ prog[c] = "gone"

\* Every command but a WRITE is answered once, or not at all.
Serve(c) ==
  /\ handler[c] = "read" /\ request[c] # 0 /\ op[c] # "write"
  /\ request' = [request EXCEPT ![c] = 0]
  /\ serving' = [serving EXCEPT ![c] = request[c]]
  /\ \E kind \in Answers[op[c]] :
       \/ /\ kind # "silent" /\ Sent(c, kind) /\ UNCHANGED silent
          /\ UNCHANGED down \/ Killed(c, op[c] = "list")
       \/ kind = "silent" /\ silent' = [silent EXCEPT ![c] = request[c]] /\ UNCHANGED <<in, down>>
  /\ UNCHANGED <<writes, handler, prog, op, wants, number, spoiled>>

\* A WRITE: the address, and on to the entry.
ServeWrite(c) ==
  /\ handler[c] = "read" /\ request[c] # 0 /\ op[c] = "write"
  /\ request' = [request EXCEPT ![c] = 0]
  /\ serving' = [serving EXCEPT ![c] = request[c]]
  /\ \/ Sent(c, "info") /\ Begin(c, wants[c])
     \/ Sent(c, "text") /\ UNCHANGED <<handler, writes>>
  /\ spoiled' = IF prog[c] = "gone" THEN spoiled \cup {c} ELSE spoiled
  /\ UNCHANGED <<prog, op, wants, number, down, silent>>

\* Mutation: the loop is not left.
CompletedAgain(c) ==
  /\ handler[c] = "poll" /\ Last.status = 1
  /\ Len(in[c]) < Room
  /\ UNCHANGED serving
  /\ Sent(c, "completed")
  /\ UNCHANGED <<writes, handler, client, down, spoiled, silent>>

\* "Write completed" goes out once.
Completed(c) ==
  /\ PollCompleted(c)
  /\ UNCHANGED serving
  /\ Sent(c, "completed")
  /\ UNCHANGED down \/ Killed(c, c \in spoiled)
  /\ UNCHANGED <<client, spoiled, silent>>

\* Mutation: send never blocks.
FailedOn(c) ==
  /\ PollFailed(c)
  /\ UNCHANGED serving
  /\ Sent(c, "failed")
  /\ spoiled' = spoiled \cup {c}
  /\ UNCHANGED <<client, down, silent>>

\* "Write failed" goes out again and again, until the client goes.
Failed(c) ==
  /\ PollFailed(c)
  /\ UNCHANGED serving
  /\ \/ /\ prog[c] # "gone" /\ Len(in[c]) < Room
        /\ Sent(c, "failed")
        /\ UNCHANGED down
     \/ Killed(c, TRUE) /\ UNCHANGED in
  /\ spoiled' = spoiled \cup {c}
  /\ UNCHANGED <<client, silent>>

\* Past its room check a handler stores where the counter says.
Stored(c) ==
  /\ Check(c) \/ Address(c) \/ Path(c) \/ Enter(c)
  /\ UNCHANGED <<client, session>>

\* The naming server is killed.
Overruns(c) ==
  /\ Overrun(c)
  /\ down' = TRUE
  /\ UNCHANGED <<writes, handler, client, in, serving, spoiled, silent>>

NoRoom(c) ==
  /\ CheckFull(c)
  /\ silent' = [silent EXCEPT ![c] = serving[c]]
  /\ UNCHANGED <<client, in, serving, down, spoiled>>

\* The client has gone: its thread ends.
Hangup(c) ==
  /\ handler[c] = "read" /\ prog[c] = "gone" /\ request[c] = 0
  /\ handler' = [handler EXCEPT ![c] = "ended"]
  /\ UNCHANGED <<writes, client, session>>

Handler(c) ==
  /\ ~down
  /\ \/ Serve(c) \/ ServeWrite(c) \/ Completed(c) \/ Failed(c)
     \/ Stored(c) \/ Overruns(c) \/ NoRoom(c) \/ Hangup(c)

Program(c) ==
  \/ TakeLookup(c) \/ TakeAddress(c) \/ TakeAddressFail(c) \/ TakeRefusal(c) \/ TakeText(c)
  \/ TakeList(c) \/ TakeCopy(c) \/ TakeEnd(c)

Storage(f) ==
  /\ ~down
  /\ (\E c \in Client : Report(c, f)) \/ Notice(f)
  /\ UNCHANGED <<client, session>>

Next ==
  \/ \E c \in Client : Handler(c) \/ Program(c) \/ Quit(c) \/ \E o \in Asks[c] : Ask(c, o)
  \/ \E f \in Server : Storage(f) \/ (Lose(f) /\ UNCHANGED <<client, session>>)

Spec == Init /\ [][Next]_vars

\* Threads are scheduled, the client takes what has come, and a storage server
\* that stays and has the data of a write reports its end.
Fairness ==
  /\ \A c \in Client : WF_vars(Handler(c)) /\ WF_vars(Program(c))
  /\ \A f \in Server : WF_vars(Storage(f))

FairSpec == Spec /\ Fairness

-----------------------------------------------------------------------------
TypeOK ==
  /\ WritesOK
  /\ prog \in [Client -> {"ready", "wait", "told", "blank", "gone"}]
  /\ op \in [Client -> Ops]
  /\ wants \in [Client -> File \cup {NoFile}]
  /\ number \in [Client -> Nat]
  /\ request \in [Client -> Nat]
  /\ in \in [Client -> Seq([kind : Kinds, of : Nat])]
  /\ \A c \in Client : Len(in[c]) <= Room + 2 * number[c]
  /\ serving \in [Client -> Nat]
  /\ down \in BOOLEAN
  /\ spoiled \subseteq Client
  /\ silent \in [Client -> Nat]

\* Whatever comes for a client is for the command it waits on, unless an earlier
\* COPY left something, or a write failed
\* (client.c:116-127, naming_server.c:388-403).
InStep ==
  \A c \in Client \ spoiled : in[c] # <<>> =>
    prog[c] # "ready" /\ \A i \in 1..Len(in[c]) : in[c][i].of = number[c]

\* A handler that found room at its check still has it when it stores, unless
\* another one stored meanwhile: only then can it store past the array
\* (naming_server.c:379-387).
RoomIsKept ==
  \A c \in Client \ crossed :
    handler[c] \in Storing => write_client_count < MaxEntries

Finished(c) == handler[c] = "poll" /\ handler'[c] = "read"

\* Whatever other WRITEs are under way, a client is told that its own is over only
\* once it is, unless another handler stored while its own was at work, or another
\* write of the same path went on (naming_server.c:379-400, 1434-1439).
CompletedIsOwn ==
  [][\A c \in Client : Finished(c) /\ c \notin crossed => c \in reported]_vars

\* It waits for ever otherwise if its file was made by the COPY of a folder, and
\* the report names the source's; and "Write failed" may never come where the
\* server has gone.
Excused(c) ==
  op[c] = "write" /\ (c \in crossed \cup missed \/ Recorded[wants[c]] \in lost \cup (File \ {wants[c]}))

\* A client that waits for the naming server gets an answer, or sends no data to
\* its storage server, unless the handler has no answer to give, an earlier COPY
\* left something or a write failed, or for a WRITE, another got in its way, the
\* report came before the entry it is for was counted or found an older one of the
\* same path, the server has gone, or the path is that of a folder's copy
\* (client.c:116-127, 183-202, naming_server.c:376-403, 1426-1441).
WaitEnds ==
  \A c \in Client :
    prog[c] \in {"wait", "told"} ~>
      prog[c] \in {"ready", "gone", "blank"} \/ silent[c] = number[c] \/ c \in spoiled \/ Excused(c)
=============================================================================
