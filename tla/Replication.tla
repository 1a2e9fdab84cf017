---------------------------- MODULE Replication ----------------------------
(***************************************************************************)
(* How what happens at a storage server comes to its two backups: the      *)
(* handlers of CREATE and DELETE, the thread that passes the report of a   *)
(* WRITE on, addcommand and replay_commands in                             *)
(* naming_server/naming_server.c, and the handlers of the storage server.  *)
(*                                                                         *)
(* Server 0 is the primary; 1 and 2 are its backups, chosen already.  A    *)
(* CREATE or DELETE that finds a backup inactive is put into its queue,    *)
(* which is replayed when it comes back.  A WRITE is passed on to the      *)
(* active backups and queued for none.                                     *)
(*                                                                         *)
(* A queue has QueueSize places and nobody looks whether one is left.      *)
(* Behind the last lie its command_count and the entry of the next server: *)
(* a command stored there leaves numbers and addresses made of its text,   *)
(* and the model ends with it.                                             *)
(*                                                                         *)
(* A server comes back only after it has been marked inactive (Registry    *)
(* has those that come earlier).                                           *)
(***************************************************************************)
EXTENDS Integers, Sequences, FiniteSets

CONSTANTS
  Command,     \* the commands, each given by one client once
  Nothing,     \* an entry of a queue that was never written
  Garbage,     \* what was in memory where a write's data should have been
  Given,       \* what kinds the commands may be of, all together
  Frail,       \* the servers that may go down
  Declining,   \* the servers that may decline a command
  QueueSize,   \* how many places the queue of a backup has
  MaxCrashes   \* bound on how often servers go down, all together

ASSUME CommandAssumption ==
  /\ IsFiniteSet(Command)
  /\ Nothing \notin Command /\ Garbage \notin Command
  /\ QueueSize \in Nat \ {0} /\ MaxCrashes \in Nat

Server == 0..2
Backup == 1..2

Kinds == {"CREATE", "DELETE", "WRITE"}

ASSUME GivenAssumption ==
  /\ Given \subseteq [Command -> Kinds]
  /\ Frail \subseteq Server /\ Declining \subseteq Server

VARIABLES
  kind,           \* what each command is
  up,             \* is the server running?
  is_active,      \* does the naming server take it for running?
  crashes,        \* how often servers have gone down
  commands,       \* the queue of each backup, with what was left in it
  command_count,
  replay,         \* what the thread of a backup that is back does: "idle", "sending" or "reset"
  pos,            \* how many commands it has replayed
  step,           \* what the handler of a command does next ...
  at,             \* ... and for which server
  z,              \* command_count as addcommand read it
  sent,           \* requests on their way to a server's handler
  applied,        \* what each server has carried out, in order
  after,          \* history: the commands that were over when one began
  queued,         \* history: what was counted for a backup since its queue was emptied
  seen            \* history, below

queue   == <<commands, command_count>>
servers == <<up, is_active, crashes>>
revival == <<replay, pos>>
thread  == <<step, at, z>>
vars    == <<kind, servers, queue, revival, thread, sent, applied, after, queued, seen>>

\* Pairs of a server and a command, unless a set of commands or backups.
\*   refused      the server declined it
\*   cutoff       the server went down before it had carried it out
\*   unreachable  the server was down when it was to be sent
\*   away         a WRITE found the backup inactive
\*   unreported   a WRITE whose primary went down before it had reported it
\*   halved       ... or between the report and the data
\*   late         a command was about to be queued when its backup came back
\*   clash        backups for which two commands were being queued at once
\*   failed       what was in the queue when a replay failed
\*   overtook     it was sent while earlier ones were still on their way
History ==
  [refused : SUBSET (Server \X Command), cutoff : SUBSET (Server \X Command),
   unreachable : SUBSET (Backup \X Command), away : SUBSET (Backup \X Command),
   unreported : SUBSET Command, halved : SUBSET Command,
   late : SUBSET (Backup \X Command), clash : SUBSET Backup,
   failed : SUBSET (Backup \X (Command \cup {Nothing})),
   overtook : SUBSET (Backup \X Command)]

Init ==
  /\ kind \in Given
  /\ up = [s \in Server |-> TRUE]
  /\ is_active = [s \in Server |-> TRUE]
  /\ crashes = 0
  /\ commands = [b \in Backup |-> [i \in 1..QueueSize |-> Nothing]]
  /\ command_count = [b \in Backup |-> 0]
  /\ replay = [b \in Backup |-> "idle"]
  /\ pos = [b \in Backup |-> 0]
  /\ step = [c \in Command |-> "idle"]
  /\ at = [c \in Command |-> 0]
  /\ z = [c \in Command |-> 0]
  /\ sent = {}
  /\ applied = [s \in Server |-> <<>>]
  /\ after = [c \in Command |-> {}]
  /\ queued = [b \in Backup |-> {}]
  /\ seen = [refused |-> {}, cutoff |-> {}, unreachable |-> {}, away |-> {},
             unreported |-> {}, halved |-> {}, late |-> {}, clash |-> {},
             failed |-> {}, overtook |-> {}]

Elements(q)  == {q[i] : i \in 1..Len(q)}
Apply(s, op) == applied' = [applied EXCEPT ![s] = Append(@, op)]

Adding == {"read", "store", "count"}
Ended  == {c \in Command : step[c] = "end"}

To(c, from, to) == step[c] = from /\ step' = [step EXCEPT ![c] = to]

\* Mutation: it does not stop after the second backup.
ProceedPast(c, from) ==
  /\ step[c] = from
  /\ step' = [step EXCEPT ![c] = "check"]
  /\ at' = [at EXCEPT ![c] = @ + 1]

\* The handler turns to the next backup, or is at its end.
Proceed(c, from) ==
  /\ step[c] = from
  /\ step' = [step EXCEPT ![c] = IF at[c] = 2 THEN "end" ELSE "check"]
  /\ at' = [at EXCEPT ![c] = IF @ = 2 THEN 2 ELSE @ + 1]

-----------------------------------------------------------------------------
(* Servers go down, are taken for inactive, and come back.                 *)
Crash(s) ==
  /\ up[s] /\ s \in Frail
  /\ crashes < MaxCrashes
  /\ up' = [up EXCEPT ![s] = FALSE]
  /\ crashes' = crashes + 1
  /\ sent' = {m \in sent : m[1] # s}
  /\ seen' = [seen EXCEPT !.cutoff = @ \cup {m \in sent : m[1] = s}]
  /\ UNCHANGED <<kind, is_active, queue, revival, thread, applied, after, queued>>

Reviving(s) == s \in Backup /\ replay[s] # "idle"

MarkInactive(s) ==
  /\ ~up[s] /\ is_active[s] /\ ~Reviving(s)
  /\ is_active' = [is_active EXCEPT ![s] = FALSE]
  /\ UNCHANGED <<kind, up, crashes, queue, revival, thread, sent, applied, after, queued, seen>>

\* It counts as active at once; its queue is replayed from now on.
Reconnect(s) ==
  /\ ~up[s] /\ ~is_active[s]
  /\ up' = [up EXCEPT ![s] = TRUE]
  /\ is_active' = [is_active EXCEPT ![s] = TRUE]
  /\ replay' = [b \in Backup |-> IF b = s THEN "sending" ELSE replay[b]]
  /\ pos' = [b \in Backup |-> IF b = s THEN 0 ELSE pos[b]]
  /\ seen' = [seen EXCEPT !.late = @ \cup
       ({s} \cap Backup) \X {c \in Command : at[c] = s /\ step[c] \in Adding}]
  /\ UNCHANGED <<kind, crashes, queue, thread, sent, applied, after, queued>>

Waiting(b) == {i \in 1..command_count[b] : i > pos[b]}

\* What is sent for a place of the queue: behind its end lies no command.
Entry(b, i) == IF i <= QueueSize THEN commands[b][i] ELSE Nothing

\* Mutation: the last command goes first.
ReplaySendBackwards(b) ==
  /\ replay[b] = "sending" /\ Waiting(b) # {} /\ up[b]
  /\ Entry(b, command_count[b] - pos[b]) # Nothing
  /\ Apply(b, Entry(b, command_count[b] - pos[b]))
  /\ pos' = [pos EXCEPT ![b] = @ + 1]
  /\ UNCHANGED <<kind, servers, queue, replay, thread, sent, after, queued, seen>>

\* A place that was never written is an empty string: nothing is sent, and
\* the answer is waited for until the backup is gone.  What lies behind the
\* end is sent and answered as an unknown command.
ReplaySend(b) ==
  /\ replay[b] = "sending" /\ Waiting(b) # {} /\ up[b]
  /\ \/ Entry(b, pos[b] + 1) # Nothing /\ Apply(b, Entry(b, pos[b] + 1))
     \/ pos[b] >= QueueSize /\ UNCHANGED applied
  /\ pos' = [pos EXCEPT ![b] = @ + 1]
  /\ UNCHANGED <<kind, servers, queue, replay, thread, sent, after, queued, seen>>

\* Mutation: the replay stops before the last command.
ReplayEndShort(b) ==
  /\ replay[b] = "sending" /\ Cardinality(Waiting(b)) \in {0, 1}
  /\ replay' = [replay EXCEPT ![b] = "reset"]
  /\ UNCHANGED <<kind, servers, queue, pos, thread, sent, applied, after, queued, seen>>

ReplayEnd(b) ==
  /\ replay[b] = "sending" /\ Waiting(b) = {}
  /\ replay' = [replay EXCEPT ![b] = "reset"]
  /\ UNCHANGED <<kind, servers, queue, pos, thread, sent, applied, after, queued, seen>>

\* Mutation: the queue is kept, what was sent included.
ReplayFailKeeps(b) ==
  /\ replay[b] = "sending" /\ Waiting(b) # {} /\ ~up[b]
  /\ replay' = [replay EXCEPT ![b] = "idle"]
  /\ UNCHANGED <<kind, servers, queue, pos, thread, sent, applied, after, queued, seen>>

\* The backup is gone again: what was left is not sent ...
ReplayFail(b) ==
  /\ replay[b] = "sending" /\ Waiting(b) # {} /\ ~up[b]
  /\ replay' = [replay EXCEPT ![b] = "reset"]
  /\ seen' = [seen EXCEPT !.failed = @ \cup {<<b, Entry(b, i)>> : i \in Waiting(b)}]
  /\ UNCHANGED <<kind, servers, queue, pos, thread, sent, applied, after, queued>>

\* Mutation: the queue is not emptied.
ReplayResetNot(b) ==
  /\ replay[b] = "reset"
  /\ replay' = [replay EXCEPT ![b] = "idle"]
  /\ queued' = [queued EXCEPT ![b] = {}]
  /\ UNCHANGED <<kind, servers, queue, pos, thread, sent, applied, after, seen>>

\* ... and either way the queue is empty after it.
ReplayReset(b) ==
  /\ replay[b] = "reset"
  /\ replay' = [replay EXCEPT ![b] = "idle"]
  /\ command_count' = [command_count EXCEPT ![b] = 0]
  /\ pos' = [pos EXCEPT ![b] = 0]
  /\ queued' = [queued EXCEPT ![b] = {}]
  /\ UNCHANGED <<kind, servers, commands, thread, sent, applied, after, seen>>

-----------------------------------------------------------------------------
(* The handlers of CREATE and DELETE, at the primary.                      *)
Begin(c) ==
  /\ kind[c] # "WRITE"
  /\ To(c, "idle", "check")
  /\ after' = [after EXCEPT ![c] = Ended]
  /\ UNCHANGED <<kind, servers, queue, revival, at, z, sent, applied, queued, seen>>

CheckPrimary(c) ==
  /\ at[c] = 0
  /\ To(c, "check", IF is_active[0] THEN "connect" ELSE "end")
  /\ UNCHANGED <<kind, servers, queue, revival, at, z, sent, applied, after, queued, seen>>

\* Mutation: it goes on although the primary cannot be reached.
ConnectPrimaryAnyway(c) ==
  /\ at[c] = 0
  /\ To(c, "connect", "wait")
  /\ sent' = IF up[0] THEN sent \cup {<<0, c>>} ELSE sent
  /\ UNCHANGED <<kind, servers, queue, revival, at, z, applied, after, queued, seen>>

ConnectPrimary(c) ==
  /\ at[c] = 0
  /\ To(c, "connect", IF up[0] THEN "wait" ELSE "end")
  /\ sent' = IF up[0] THEN sent \cup {<<0, c>>} ELSE sent
  /\ UNCHANGED <<kind, servers, queue, revival, at, z, applied, after, queued, seen>>

\* A storage server carries a request out, or declines it: the file or the
\* directory is in use, is not there, or cannot be opened.
Perform(s, c) ==
  /\ <<s, c>> \in sent
  /\ sent' = sent \ {<<s, c>>}
  /\ \/ /\ Apply(s, IF c \in seen.halved THEN Garbage ELSE c)
        /\ UNCHANGED seen
     \/ /\ s \in Declining
        /\ seen' = [seen EXCEPT !.refused = @ \cup {<<s, c>>}]
        /\ UNCHANGED applied
  /\ UNCHANGED <<kind, servers, queue, revival, thread, after, queued>>

\* The answer is there, whatever it says, or the connection has ended.
Answered(c) == step[c] = "wait" /\ <<at[c], c>> \notin sent

Answer(c) ==
  /\ Answered(c)
  /\ Proceed(c, "wait")
  /\ UNCHANGED <<kind, servers, queue, revival, z, sent, applied, after, queued, seen>>

\* Where it has ended with an error the handler returns.
AnswerFail(c) ==
  /\ Answered(c) /\ <<at[c], c>> \in seen.cutoff
  /\ To(c, "wait", "end")
  /\ seen' = [seen EXCEPT !.unreachable = @ \cup {<<b, c>> : b \in {x \in Backup : x > at[c]}}]
  /\ UNCHANGED <<kind, servers, queue, revival, at, z, sent, applied, after, queued>>

-----------------------------------------------------------------------------
(* A WRITE is carried out at the primary, and reported.                    *)
Write(c) ==
  /\ kind[c] = "WRITE"
  /\ up[0]
  /\ To(c, "idle", "report")
  /\ Apply(0, c)
  /\ after' = [after EXCEPT ![c] = Ended]
  /\ UNCHANGED <<kind, servers, queue, revival, at, z, sent, queued, seen>>

Report(c) ==
  /\ \/ up[0] /\ UNCHANGED seen
     \/ ~up[0] /\ seen' = [seen EXCEPT !.halved = @ \cup {c}]
  /\ Proceed(c, "report")
  /\ UNCHANGED <<kind, servers, queue, revival, z, sent, applied, after, queued>>

ReportFail(c) ==
  /\ ~up[0]
  /\ To(c, "report", "end")
  /\ seen' = [seen EXCEPT !.unreported = @ \cup {c}]
  /\ UNCHANGED <<kind, servers, queue, revival, at, z, sent, applied, after, queued>>

-----------------------------------------------------------------------------
(* A command is passed on to a backup.                                     *)
CheckBackup(c) ==
  LET b == at[c]
  IN  /\ b # 0
      /\ \/ is_active[b] /\ To(c, "check", "connect") /\ UNCHANGED <<at, seen>>
         \/ /\ ~is_active[b] /\ kind[c] # "WRITE"
            /\ To(c, "check", "read")
            /\ UNCHANGED <<at, seen>>
         \/ /\ ~is_active[b] /\ kind[c] = "WRITE"
            /\ Proceed(c, "check")
            /\ seen' = [seen EXCEPT !.away = @ \cup {<<b, c>>}]
      /\ UNCHANGED <<kind, servers, queue, revival, z, sent, applied, after, queued>>

\* An answer is waited for after a CREATE only.
ConnectBackup(c) ==
  LET b == at[c]
  IN  /\ b # 0 /\ up[b]
      /\ \/ kind[c] = "CREATE" /\ To(c, "connect", "wait") /\ UNCHANGED at
         \/ kind[c] # "CREATE" /\ Proceed(c, "connect")
      /\ sent' = sent \cup {<<b, c>>}
      /\ seen' = [seen EXCEPT !.overtook = @ \cup
           {m \in {<<b, c>>} : Reviving(b) \/ \E n \in sent : n[1] = b}]
      /\ UNCHANGED <<kind, servers, queue, revival, z, applied, after, queued>>

\* A backup that cannot be reached ends the handler of a CREATE or DELETE,
\* the other backup not asked; a WRITE goes on.
ConnectBackupFail(c) ==
  LET b == at[c]
  IN  /\ b # 0 /\ ~up[b]
      /\ \/ /\ kind[c] = "WRITE" /\ Proceed(c, "connect")
            /\ seen' = [seen EXCEPT !.unreachable = @ \cup {<<b, c>>}]
         \/ /\ kind[c] # "WRITE" /\ To(c, "connect", "end") /\ UNCHANGED at
            /\ seen' = [seen EXCEPT !.unreachable = @ \cup {<<x, c>> : x \in {y \in Backup : y >= b}}]
      /\ UNCHANGED <<kind, servers, queue, revival, z, sent, applied, after, queued>>

-----------------------------------------------------------------------------
(* addcommand, without a lock.                                             *)
AddRead(c) ==
  LET b == at[c]
  IN  /\ To(c, "read", "store")
      /\ z' = [z EXCEPT ![c] = command_count[b]]
      /\ seen' = [seen EXCEPT !.clash = @ \cup
           {x \in {b} : \E d \in Command \ {c} : at[d] = b /\ step[d] \in Adding \ {"read"}}]
      /\ UNCHANGED <<kind, servers, queue, revival, at, sent, applied, after, queued>>

AddStore(c) ==
  /\ To(c, "store", "count")
  /\ z[c] < QueueSize
  /\ commands' = [commands EXCEPT ![at[c]][z[c] + 1] = c]
  /\ UNCHANGED <<kind, servers, command_count, revival, at, z, sent, applied, after, queued, seen>>

\* It is stored behind the end.
AddOverrun(c) ==
  /\ To(c, "store", "torn")
  /\ z[c] >= QueueSize
  /\ UNCHANGED <<kind, servers, queue, revival, at, z, sent, applied, after, queued, seen>>

AddCount(c) ==
  /\ Proceed(c, "count")
  /\ command_count' = [command_count EXCEPT ![at[c]] = @ + 1]
  /\ z' = [z EXCEPT ![c] = 0]
  /\ queued' = [queued EXCEPT ![at[c]] = @ \cup {c}]
  /\ UNCHANGED <<kind, servers, commands, revival, sent, applied, after, seen>>

-----------------------------------------------------------------------------
Handler(c) ==
  \/ CheckPrimary(c) \/ ConnectPrimary(c) \/ Answer(c) \/ AnswerFail(c)
  \/ Report(c) \/ ReportFail(c)
  \/ CheckBackup(c) \/ ConnectBackup(c) \/ ConnectBackupFail(c)
  \/ AddRead(c) \/ AddStore(c) \/ AddOverrun(c) \/ AddCount(c)

Revive(b) == ReplaySend(b) \/ ReplayEnd(b) \/ ReplayFail(b) \/ ReplayReset(b)

\* Something lies over command_count and the next server's entry.
Torn == \E c \in Command : step[c] = "torn"

Step ==
  \/ \E s \in Server : Crash(s) \/ MarkInactive(s) \/ Reconnect(s)
  \/ \E b \in Backup : Revive(b)
  \/ \E c \in Command : Begin(c) \/ Write(c) \/ Handler(c)
  \/ \E s \in Server, c \in Command : Perform(s, c)

Next == ~Torn /\ Step

Spec == Init /\ [][Next]_vars

-----------------------------------------------------------------------------
\* Two commands that are queued at once get one place and are counted twice,
\* so that a count may be more than there are places, but never more than
\* there are commands.
Most == Cardinality(Command)

TypeOK ==
  /\ kind \in [Command -> Kinds]
  /\ up \in [Server -> BOOLEAN]
  /\ is_active \in [Server -> BOOLEAN]
  /\ crashes \in 0..MaxCrashes
  /\ commands \in [Backup -> [1..QueueSize -> Command \cup {Nothing}]]
  /\ command_count \in [Backup -> 0..Most]
  /\ replay \in [Backup -> {"idle", "sending", "reset"}]
  /\ pos \in [Backup -> 0..Most]
  /\ step \in [Command -> Adding \cup {"idle", "check", "connect", "wait", "report", "end", "torn"}]
  /\ at \in [Command -> Server]
  /\ z \in [Command -> 0..Most]
  /\ sent \subseteq Server \X Command
  /\ applied \in [Server -> Seq(Command \cup {Garbage})]
  /\ after \in [Command -> SUBSET Command]
  /\ queued \in [Backup -> SUBSET Command]
  /\ seen \in History

\* The queue of b has been misused.
Confused(b) == b \in seen.clash \/ \E c \in Command : <<b, c>> \in seen.late

Excused(b, c) ==
  \/ <<b, c>> \in seen.refused \cup seen.cutoff \cup seen.unreachable
                    \cup seen.away \cup seen.failed
  \/ c \in seen.unreported \cup seen.halved
  \/ Confused(b)

\* What the primary has carried out its backup has too, once the command is
\* over, the backup is active and its queue replayed, unless one of the faults
\* listed above befell this very command (naming_server.c:97-349, 747-965,
\* 1128-1172, 1442-1544).
CopiesKeepUp ==
  \A b \in Backup, c \in Ended \cap Elements(applied[0]) :
    is_active[b] /\ ~Reviving(b) =>
      c \in Elements(applied[b]) \/ <<b, c>> \in sent \/ Excused(b, c)

\* A backup carries out nothing the primary has not, unless the primary
\* declined it or went down before it got to it (the handlers look at the answer
\* of neither), or a report came without its data.
NothingElse ==
  \A b \in Backup : \A c \in Elements(applied[b]) :
    \/ c \in Elements(applied[0])
    \/ <<0, c>> \in seen.refused \cup seen.cutoff
    \/ c = Garbage /\ seen.halved # {}

\* A backup carries no command out twice, unless two commands were queued at
\* once or while the queue was replayed (addcommand, naming_server.c:86-96).
EachOnce ==
  \A b \in Backup : ~Confused(b) =>
    \A i, j \in 1..Len(applied[b]) :
      applied[b][i] = applied[b][j] /\ applied[b][i] # Garbage => i = j

\* A backup carries a command out after those that were over when it began,
\* unless it was sent past a replay or a request on its way
\* (naming_server.c:1206 marks the backup active before it replays).
OrderKept ==
  \A b \in Backup : ~Confused(b) =>
    \A i, j \in 1..Len(applied[b]) :
      LET c == applied[b][i]
          d == applied[b][j]
      IN  c \in Command /\ d \in Command /\ i < j /\ <<b, c>> \notin seen.overtook
            => d \notin after[c]

\* A backup that is back and has been sent its queue has nothing in it, unless
\* a command was about to be queued as it came back: that one waits until the
\* backup has gone and come once more.
QueueIsSent ==
  \A b \in Backup :
    is_active[b] /\ ~Reviving(b) /\ (\A c \in Command : <<b, c>> \notin seen.late)
      => command_count[b] = 0

\* A command is stored behind the end of a queue only if as many as it has
\* places were counted since the queue was last emptied, or it was about to be
\* queued when the backup came back, with the count as it had been before
\* (naming_server.c:86-96, 1208-1210).
OverrunIsEarned ==
  \A c \in Command : step[c] = "torn" =>
    <<at[c], c>> \in seen.late \/ Cardinality(queued[at[c]]) >= QueueSize
=============================================================================
