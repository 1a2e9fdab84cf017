-------------------------- MODULE ReplicationProofs --------------------------
(***************************************************************************)
(* What Replication keeps of its servers and queues, for any commands and  *)
(* any number of crashes.  The invariant is built up in layers, each of    *)
(* which rests on those before it: the type, who is awake, and the queues. *)
(* ReplicationCopyProofs goes on with what comes to the backups.           *)
(***************************************************************************)
EXTENDS Replication, FiniteSetTheorems, TLAPS

-----------------------------------------------------------------------------
(* The type invariant, with what it rests on.                              *)

\* The commands that may still be queued for a backup: each is counted once.
Left(b) == {c \in Command : at[c] <= b /\ step[c] # "end"}
Counts  == \A b \in Backup :
             queued[b] \subseteq Command \ Left(b) /\ command_count[b] = Cardinality(queued[b])
Cursor  == \A b \in Backup : pos[b] <= command_count[b]

\* Where a handler may be.
PlacedAt(c) ==
  /\ step[c] \in Adding \cup {"torn"} => at[c] \in Backup /\ kind[c] # "WRITE"
  /\ step[c] = "idle" => at[c] = 0
  /\ step[c] = "report" => at[c] = 0 /\ kind[c] = "WRITE"
  /\ at[c] = 0 /\ step[c] \in {"check", "connect", "wait"} => kind[c] # "WRITE"
Placed  == \A c \in Command : PlacedAt(c)

TypeInv == TypeOK /\ Placed /\ Cursor /\ Counts

\* The history only grows.
Grown ==
  /\ seen.refused \subseteq seen'.refused /\ seen.cutoff \subseteq seen'.cutoff
  /\ seen.unreachable \subseteq seen'.unreachable /\ seen.away \subseteq seen'.away
  /\ seen.unreported \subseteq seen'.unreported /\ seen.halved \subseteq seen'.halved
  /\ seen.late \subseteq seen'.late /\ seen.clash \subseteq seen'.clash
  /\ seen.failed \subseteq seen'.failed /\ seen.overtook \subseteq seen'.overtook

Moves(c) == Begin(c) \/ Write(c) \/ Handler(c)

Steps == Adding \cup {"idle", "check", "connect", "wait", "report", "end", "torn"}

\* How a handler moves.
LEMMA ToMoves ==
  ASSUME step \in [Command -> Steps], NEW c \in Command, NEW from \in Steps, NEW to \in Steps,
         To(c, from, to)
  PROVE  /\ step' \in [Command -> Steps] /\ step[c] = from /\ step'[c] = to
         /\ \A d \in Command \ {c} : step'[d] = step[d]
BY DEF To

\* It goes on to the next backup or is at its end.
LEMMA ProceedMoves ==
  ASSUME step \in [Command -> Steps], at \in [Command -> Server],
         NEW c \in Command, NEW from \in Steps, Proceed(c, from)
  PROVE  /\ step' \in [Command -> Steps] /\ at' \in [Command -> Server] /\ step[c] = from
         /\ \A d \in Command \ {c} : step'[d] = step[d] /\ at'[d] = at[d]
         /\ \/ at[c] = 2 /\ step'[c] = "end" /\ at'[c] = at[c]
            \/ at[c] \in 0..1 /\ step'[c] = "check" /\ at'[c] = at[c] + 1
BY DEF Proceed, Steps, Server

\* A step of a handler leaves the others where they are, and it moves on.
LEMMA ThreadMoves ==
  ASSUME step \in [Command -> Steps], at \in [Command -> Server], NEW c \in Command, Moves(c)
  PROVE  /\ \A d \in Command \ {c} : step'[d] = step[d] /\ at'[d] = at[d]
         /\ step[c] # "end" /\ step'[c] # "idle"
         /\ step' \in [Command -> Steps]
         /\ at' \in [Command -> Server]
         /\ at'[c] = at[c] \/ (at[c] \in 0..1 /\ at'[c] = at[c] + 1 /\ step'[c] = "check")
         /\ kind' = kind
<1> USE DEF Steps, Adding
<1>1. CASE Begin(c) \/ Write(c)
  BY <1>1, ToMoves DEF Begin, Write
<1>2. CASE CheckPrimary(c) \/ ConnectPrimary(c) \/ AnswerFail(c) \/ ReportFail(c)
  BY <1>2, ToMoves DEF CheckPrimary, ConnectPrimary, AnswerFail, ReportFail
<1>3. CASE Answer(c) \/ Report(c) \/ AddCount(c)
  BY <1>3, ProceedMoves DEF Answer, Report, AddCount
<1>4. CASE CheckBackup(c)
  BY <1>4, ToMoves, ProceedMoves DEF CheckBackup
<1>5. CASE ConnectBackup(c)
  BY <1>5, ToMoves, ProceedMoves DEF ConnectBackup
<1>6. CASE ConnectBackupFail(c)
  BY <1>6, ToMoves, ProceedMoves DEF ConnectBackupFail
<1>7. CASE AddRead(c) \/ AddStore(c) \/ AddOverrun(c)
  BY <1>7, ToMoves DEF AddRead, AddStore, AddOverrun
<1> QED BY <1>1, <1>2, <1>3, <1>4, <1>5, <1>6, <1>7 DEF Moves, Handler

\* Nobody else's step moves a handler.
Elsewhere ==
  \/ \E s \in Server : Crash(s) \/ MarkInactive(s) \/ Reconnect(s)
  \/ \E b \in Backup : Revive(b)
  \/ \E s \in Server, c \in Command : Perform(s, c)

\* Every step is a step of a handler or of somebody else.
LEMMA NextSplit == Step <=> Elsewhere \/ \E c \in Command : Moves(c)
BY DEF Step, Elsewhere, Moves

\* Nobody else touches what the handlers keep.
LEMMA OthersMove == ASSUME Elsewhere PROVE UNCHANGED <<kind, step, at, z, after>>
BY DEF Elsewhere, Crash, MarkInactive, Reconnect, Revive, ReplaySend, ReplayEnd, ReplayFail,
  ReplayReset, Perform, thread

\* What waits in a queue.
LEMMA SizeIsNat == QueueSize \in Nat /\ Most \in Nat
BY CommandAssumption, FS_CardinalityType DEF Most

\* What waits lies in the queue.
LEMMA WaitingEntries ==
  ASSUME TypeOK, NEW b \in Backup, NEW i \in Waiting(b)
  PROVE  i \in 1..Most /\ Entry(b, i) \in Command \cup {Nothing}
<1>1. command_count[b] \in 0..Most /\ Most \in Nat /\ QueueSize \in Nat
  BY SizeIsNat DEF TypeOK
<1>2. i \in 1..Most
  BY <1>1 DEF Waiting
<1>3. commands[b] \in [1..QueueSize -> Command \cup {Nothing}]
  BY DEF TypeOK
<1> QED BY <1>1, <1>2, <1>3 DEF Entry

\* The history keeps its type and only grows.
LEMMA HistoryGrows == ASSUME TypeOK, Placed, Step PROVE seen' \in History /\ Grown
<1> USE DEF History, Grown
<1>1. seen \in History /\ sent \subseteq Server \X Command
  BY DEF TypeOK
<1>2. CASE UNCHANGED seen
  BY <1>1, <1>2
<1>3. ASSUME NEW s \in Server, Crash(s) PROVE seen' \in History /\ Grown
  BY <1>1, <1>3 DEF Crash
<1>4. ASSUME NEW s \in Server, Reconnect(s) PROVE seen' \in History /\ Grown
  BY <1>1, <1>4 DEF Reconnect
<1>5. ASSUME NEW b \in Backup, ReplayFail(b) PROVE seen' \in History /\ Grown
  <2> DEFINE lost == {<<b, Entry(b, i)>> : i \in Waiting(b)}
  <2>1. lost \subseteq Backup \X (Command \cup {Nothing})
    <3>1. \A i \in Waiting(b) : Entry(b, i) \in Command \cup {Nothing}
      BY WaitingEntries
    <3> QED BY <3>1
  <2>2. seen' = [seen EXCEPT !.failed = @ \cup lost]
    BY <1>5 DEF ReplayFail
  <2> QED BY <1>1, <2>1, <2>2
<1>6. ASSUME NEW s \in Server, NEW c \in Command, Perform(s, c) PROVE seen' \in History /\ Grown
  BY <1>1, <1>2, <1>6 DEF Perform
<1>7. ASSUME NEW c \in Command, AnswerFail(c) PROVE seen' \in History /\ Grown
  BY <1>1, <1>7 DEF AnswerFail
<1>8. ASSUME NEW c \in Command, Report(c) \/ ReportFail(c) PROVE seen' \in History /\ Grown
  BY <1>1, <1>2, <1>8 DEF Report, ReportFail
<1>9. \A c \in Command : at[c] # 0 => at[c] \in Backup
  BY DEF TypeOK, Server, Backup
<1>10. ASSUME NEW c \in Command, CheckBackup(c) PROVE seen' \in History /\ Grown
  BY <1>1, <1>2, <1>9, <1>10 DEF CheckBackup
<1>11. ASSUME NEW c \in Command, ConnectBackup(c) PROVE seen' \in History /\ Grown
  BY <1>1, <1>9, <1>11 DEF ConnectBackup
<1>12. ASSUME NEW c \in Command, ConnectBackupFail(c) PROVE seen' \in History /\ Grown
  BY <1>1, <1>9, <1>12 DEF ConnectBackupFail
<1>13. ASSUME NEW c \in Command, AddRead(c) PROVE seen' \in History /\ Grown
  <2>1. at[c] \in Backup
    BY <1>13 DEF AddRead, To, Placed, PlacedAt, Adding
  <2> QED BY <1>1, <1>13, <2>1 DEF AddRead
<1> QED
  BY <1>2, <1>3, <1>4, <1>5, <1>6, <1>7, <1>8, <1>10, <1>11, <1>12, <1>13
  DEF Step, MarkInactive, Revive, ReplaySend, ReplayEnd, ReplayReset, Begin, Write, Handler,
    CheckPrimary, ConnectPrimary, Answer, AddStore, AddOverrun, AddCount

\* Nobody comes back to what it has left behind.
LEMMA LeftShrinks ==
  ASSUME TypeOK, Step, NEW b \in Backup
  PROVE  Left(b)' \subseteq Left(b)
<1>1. step \in [Command -> Steps] /\ at \in [Command -> Server]
  BY DEF TypeOK, Steps
<1>2. Left(b)' \subseteq Left(b)
  <2>1. CASE Elsewhere
    BY <2>1, OthersMove DEF Left
  <2>2. ASSUME NEW c \in Command, Moves(c) PROVE Left(b)' \subseteq Left(b)
    <3> SUFFICES ASSUME NEW d \in Command, at'[d] <= b, step'[d] # "end"
                 PROVE  at[d] <= b /\ step[d] # "end"
      BY DEF Left
    <3>1. at[d] \in Int /\ b \in Int
      BY <1>1 DEF Server, Backup
    <3> QED BY <1>1, <2>2, <3>1, ThreadMoves
  <2> QED BY <2>1, <2>2, NextSplit
<1> QED BY <1>2

\* What is counted stays counted as long as no queue gets longer.
LEMMA CountsStay ==
  ASSUME TypeInv, Step,
         \A b \in Backup : \/ command_count'[b] = command_count[b] /\ queued'[b] = queued[b]
                           \/ command_count'[b] = 0 /\ queued'[b] = {}
  PROVE  Counts'
<1> SUFFICES ASSUME NEW b \in Backup
             PROVE  queued'[b] \subseteq Command \ Left(b)' /\ command_count'[b] = Cardinality(queued'[b])
  BY DEF Counts
<1>1. queued[b] \subseteq Command \ Left(b) /\ command_count[b] = Cardinality(queued[b])
  BY DEF TypeInv, Counts
<1>2. Left(b)' \subseteq Left(b)
  BY LeftShrinks DEF TypeInv
<1> QED BY <1>1, <1>2, FS_EmptySet

\* A handler that is about to count a command has not counted it yet.
LEMMA RoomForOne ==
  ASSUME TypeInv, NEW c \in Command, at[c] \in Backup, step[c] # "end"
  PROVE  /\ command_count[at[c]] + 1 \in 1..Most
         /\ Cardinality(queued[at[c]] \cup {c}) = command_count[at[c]] + 1
<1> DEFINE b == at[c]
<1>1. c \in Left(b)
  BY DEF Left, Backup
<1>2. queued[b] \subseteq Command /\ c \notin queued[b] /\ command_count[b] = Cardinality(queued[b])
  BY <1>1 DEF TypeInv, Counts
<1>3. IsFiniteSet(queued[b]) /\ IsFiniteSet(Command)
  BY <1>2, CommandAssumption, FS_Subset
<1>4. Cardinality(queued[b] \cup {c}) = Cardinality(queued[b]) + 1
  BY <1>2, <1>3, FS_AddElement
<1>5. Cardinality(queued[b] \cup {c}) <= Most
  BY <1>2, <1>3, FS_Subset DEF Most
<1>6. Cardinality(queued[b]) \in Nat /\ Most \in Nat
  BY <1>3, SizeIsNat, FS_CardinalityType
<1> QED BY <1>2, <1>4, <1>5, <1>6

\* Of the places of a queue that wait the first is the next.
LEMMA NextWaits ==
  ASSUME TypeOK, NEW b \in Backup, Waiting(b) # {}
  PROVE  pos[b] + 1 \in Waiting(b)
<1>1. command_count[b] \in Nat /\ pos[b] \in Nat
  BY SizeIsNat DEF TypeOK
<1> QED BY <1>1 DEF Waiting

\* Everything has its type after a step too.
LEMMA NextPlaced == ASSUME TypeInv, Step PROVE Placed'
<1>1. step \in [Command -> Steps] /\ at \in [Command -> Server]
  BY DEF TypeInv, TypeOK, Steps
<1>2. Placed
  BY DEF TypeInv
<1>3. CASE Elsewhere
  BY <1>2, <1>3, OthersMove DEF Placed, PlacedAt
<1>4. ASSUME NEW c \in Command, Moves(c) PROVE Placed'
  <2>1. \A d \in Command \ {c} : PlacedAt(d)'
    BY <1>1, <1>2, <1>4, ThreadMoves DEF Placed, PlacedAt
  <2>2. kind' = kind /\ PlacedAt(c)
    BY <1>1, <1>2, <1>4, ThreadMoves DEF Placed
  <2> SUFFICES PlacedAt(c)'
    BY <2>1 DEF Placed
  <2>3. kind'[c] = kind[c] /\ at[c] \in Server /\ at'[c] \in Server
    BY <1>1, <1>4, <2>2, ThreadMoves
  <2>4. CASE Begin(c) \/ Write(c)
    <3>1. /\ step[c] = "idle" /\ at' = at
          /\ \/ step'[c] = "check" /\ kind[c] # "WRITE"
             \/ step'[c] = "report" /\ kind[c] = "WRITE"
      BY <1>1, <2>4, ToMoves DEF Begin, Write, Steps
    <3> QED BY <2>2, <2>3, <3>1 DEF PlacedAt, Adding
  <2>5. CASE CheckPrimary(c) \/ ConnectPrimary(c)
    <3>1. at[c] = 0 /\ at' = at /\ step[c] \in {"check", "connect"} /\ step'[c] \in {"connect", "wait", "end"}
      BY <1>1, <2>5, ToMoves DEF CheckPrimary, ConnectPrimary, Steps
    <3> QED BY <2>2, <2>3, <3>1 DEF PlacedAt, Adding
  <2>6. CASE step'[c] = "end"
    BY <2>6 DEF PlacedAt, Adding
  <2>7. CASE at'[c] # 0 /\ step'[c] \in {"check", "connect", "wait"}
    BY <2>7 DEF PlacedAt, Adding
  <2>8. CASE AnswerFail(c) \/ ReportFail(c)
    BY <1>1, <2>6, <2>8, ToMoves DEF AnswerFail, ReportFail, Steps
  <2>9. ASSUME NEW from \in Steps, Proceed(c, from) PROVE PlacedAt(c)'
    BY <1>1, <2>6, <2>7, <2>9, ProceedMoves
  <2>11. CASE Answer(c) \/ Report(c) \/ AddCount(c)
    BY <2>9, <2>11 DEF Answer, Report, AddCount, Steps, Adding
  <2>12. CASE CheckBackup(c)
    <3>1. CASE To(c, "check", "connect") /\ at' = at /\ at[c] # 0
      BY <1>1, <2>7, <3>1, ToMoves DEF Steps
    <3>2. CASE To(c, "check", "read") /\ at' = at /\ at[c] # 0 /\ kind[c] # "WRITE"
      <4>1. step'[c] = "read" /\ at'[c] \in Backup
        BY <1>1, <2>3, <3>2, ToMoves DEF Steps, Adding, Server, Backup
      <4> QED BY <2>3, <3>2, <4>1 DEF PlacedAt, Adding
    <3> QED BY <2>9, <2>12, <3>1, <3>2 DEF CheckBackup, Steps
  <2>13. CASE ConnectBackup(c) \/ ConnectBackupFail(c)
    <3>1. CASE To(c, "connect", "wait") /\ at' = at /\ at[c] # 0
      BY <1>1, <2>7, <3>1, ToMoves DEF Steps
    <3>2. CASE To(c, "connect", "end")
      BY <1>1, <2>6, <3>2, ToMoves DEF Steps
    <3> QED BY <2>9, <2>13, <3>1, <3>2 DEF ConnectBackup, ConnectBackupFail, Steps
  <2>14. CASE AddRead(c) \/ AddStore(c) \/ AddOverrun(c)
    <3>1. step[c] \in Adding /\ step'[c] \in Adding \cup {"torn"} /\ at' = at
      BY <1>1, <2>14, ToMoves DEF AddRead, AddStore, AddOverrun, Steps, Adding
    <3> QED BY <2>2, <2>3, <3>1 DEF PlacedAt, Adding
  <2> QED
    BY <1>4, <2>4, <2>5, <2>8, <2>11, <2>12, <2>13, <2>14 DEF Moves, Handler
<1> QED BY <1>3, <1>4, NextSplit

\* Which servers run, and for which the naming server takes them.
LEMMA NextServers ==
  ASSUME TypeInv, Step
  PROVE  /\ up' \in [Server -> BOOLEAN] /\ is_active' \in [Server -> BOOLEAN]
         /\ crashes' \in 0..MaxCrashes /\ kind' \in [Command -> Kinds]
         /\ step' \in [Command -> Steps] /\ at' \in [Command -> Server]
<1>1. /\ up \in [Server -> BOOLEAN] /\ is_active \in [Server -> BOOLEAN]
      /\ crashes \in 0..MaxCrashes /\ kind \in [Command -> Kinds] /\ MaxCrashes \in Nat
      /\ step \in [Command -> Steps] /\ at \in [Command -> Server]
  BY CommandAssumption DEF TypeInv, TypeOK, Steps
<1>2. ASSUME NEW s \in Server, Crash(s) \/ MarkInactive(s) \/ Reconnect(s)
      PROVE  /\ up' \in [Server -> BOOLEAN] /\ is_active' \in [Server -> BOOLEAN]
             /\ crashes' \in 0..MaxCrashes
  <2>1. CASE Crash(s)
    <3>1. up' = [up EXCEPT ![s] = FALSE] /\ is_active' = is_active
      BY <2>1 DEF Crash
    <3>2. crashes' = crashes + 1 /\ crashes < MaxCrashes
      BY <2>1 DEF Crash
    <3> QED BY <1>1, <3>1, <3>2
  <2>2. CASE MarkInactive(s)
    BY <1>1, <2>2 DEF MarkInactive
  <2>3. CASE Reconnect(s)
    BY <1>1, <2>3 DEF Reconnect
  <2> QED BY <1>2, <2>1, <2>2, <2>3
<1>5. kind' = kind /\ step' \in [Command -> Steps] /\ at' \in [Command -> Server]
  <2>1. CASE Elsewhere
    BY <1>1, <2>1, OthersMove
  <2>2. ASSUME NEW c \in Command, Moves(c)
        PROVE  kind' = kind /\ step' \in [Command -> Steps] /\ at' \in [Command -> Server]
    BY <1>1, <2>2, ThreadMoves
  <2> QED BY <2>1, <2>2, NextSplit
<1>3. CASE UNCHANGED servers
  <2>1. UNCHANGED <<up, is_active, crashes>>
    BY <1>3 DEF servers
  <2> QED BY <1>1, <1>5, <2>1
<1>4. CASE \E s \in Server : Crash(s) \/ MarkInactive(s) \/ Reconnect(s)
  BY <1>1, <1>2, <1>4, <1>5
<1> QED
  BY <1>3, <1>4
  DEF Step, Revive, ReplaySend, ReplayEnd, ReplayFail, ReplayReset, Perform, Begin, Write, Handler,
    CheckPrimary, ConnectPrimary, Answer, AnswerFail, Report, ReportFail, CheckBackup, ConnectBackup,
    ConnectBackupFail, AddRead, AddStore, AddOverrun, AddCount

\* The queues, and how far they have been replayed.
QueueOK ==
  /\ commands \in [Backup -> [1..QueueSize -> Command \cup {Nothing}]]
  /\ command_count \in [Backup -> 0..Most]
  /\ replay \in [Backup -> {"idle", "sending", "reset"}]
  /\ pos \in [Backup -> 0..Most]
  /\ z \in [Command -> 0..Most]
  /\ queued \in [Backup -> SUBSET Command]

\* The queues keep their type, and there stays room in them.
LEMMA NextQueue == ASSUME TypeInv, Step PROVE QueueOK' /\ Cursor' /\ Counts'
<1> USE DEF QueueOK
<1>1. QueueOK /\ Cursor /\ QueueSize \in Nat /\ Most \in Nat
  BY SizeIsNat DEF TypeInv, TypeOK
<1>2. CASE UNCHANGED <<queue, revival, z, queued>>
  <2>1. UNCHANGED <<commands, command_count, replay, pos, z, queued>>
    BY <1>2 DEF queue, revival
  <2>2. \A b \in Backup : command_count'[b] = command_count[b] /\ queued'[b] = queued[b]
    BY <1>1, <2>1
  <2> QED BY <1>1, <2>1, <2>2, CountsStay DEF Cursor
<1>3. ASSUME NEW s \in Server, Reconnect(s) PROVE QueueOK' /\ Cursor' /\ Counts'
  <2>1. /\ UNCHANGED <<commands, command_count, z, queued>>
        /\ replay' = [b \in Backup |-> IF b = s THEN "sending" ELSE replay[b]]
        /\ pos' = [b \in Backup |-> IF b = s THEN 0 ELSE pos[b]]
    BY <1>3 DEF Reconnect, queue, thread
  <2>2. \A b \in Backup : command_count'[b] = command_count[b] /\ queued'[b] = queued[b]
    BY <1>1, <2>1
  <2>3. QueueOK'
    BY <1>1, <2>1
  <2>4. Cursor'
    BY <1>1, <2>1 DEF Cursor
  <2> QED BY <2>2, <2>3, <2>4, CountsStay
<1>4. ASSUME NEW b \in Backup, Revive(b) PROVE QueueOK' /\ Cursor' /\ Counts'
  <2>1. UNCHANGED <<commands, z>>
    BY <1>4 DEF Revive, ReplaySend, ReplayEnd, ReplayFail, ReplayReset, queue, thread
  <2>2. CASE ReplaySend(b)
    <3>1. pos[b] + 1 \in Waiting(b)
      BY <2>2, NextWaits DEF ReplaySend, TypeInv
    <3>2. pos[b] + 1 <= command_count[b] /\ pos[b] + 1 \in 0..Most
      BY <1>1, <3>1 DEF Waiting
    <3>3. UNCHANGED <<command_count, replay, queued>> /\ pos' = [pos EXCEPT ![b] = @ + 1]
      BY <2>2 DEF ReplaySend, queue
    <3>4. QueueOK'
      BY <1>1, <2>1, <3>2, <3>3
    <3>5. Cursor'
      BY <1>1, <3>2, <3>3 DEF Cursor
    <3>6. \A x \in Backup : command_count'[x] = command_count[x] /\ queued'[x] = queued[x]
      BY <1>1, <3>3
    <3> QED BY <3>4, <3>5, <3>6, CountsStay
  <2>3. CASE ReplayEnd(b) \/ ReplayFail(b)
    <3>1. UNCHANGED <<command_count, pos, queued>> /\ replay' = [replay EXCEPT ![b] = "reset"]
      BY <2>3 DEF ReplayEnd, ReplayFail, queue
    <3>2. \A x \in Backup : command_count'[x] = command_count[x] /\ queued'[x] = queued[x]
      BY <1>1, <3>1
    <3> QED BY <1>1, <2>1, <3>1, <3>2, CountsStay DEF Cursor
  <2>4. CASE ReplayReset(b)
    <3>1. /\ command_count' = [command_count EXCEPT ![b] = 0] /\ pos' = [pos EXCEPT ![b] = 0]
          /\ replay' = [replay EXCEPT ![b] = "idle"] /\ queued' = [queued EXCEPT ![b] = {}]
      BY <2>4 DEF ReplayReset
    <3>2. \A x \in Backup : \/ command_count'[x] = command_count[x] /\ queued'[x] = queued[x]
                            \/ command_count'[x] = 0 /\ queued'[x] = {}
      BY <1>1, <3>1
    <3>3. QueueOK'
      BY <1>1, <2>1, <3>1
    <3>4. Cursor'
      BY <1>1, <3>1 DEF Cursor
    <3> QED BY <3>2, <3>3, <3>4, CountsStay
  <2> QED BY <1>4, <2>2, <2>3, <2>4 DEF Revive
<1>5. ASSUME NEW c \in Command, AddRead(c) PROVE QueueOK' /\ Cursor' /\ Counts'
  <2>1. UNCHANGED <<commands, command_count, replay, pos, queued>> /\ z' = [z EXCEPT ![c] = command_count[at[c]]]
    BY <1>5 DEF AddRead, queue, revival
  <2>2. at[c] \in Backup
    BY <1>5 DEF AddRead, To, TypeInv, Placed, PlacedAt, Adding
  <2>3. \A x \in Backup : command_count'[x] = command_count[x] /\ queued'[x] = queued[x]
    BY <1>1, <2>1
  <2> QED BY <1>1, <2>1, <2>2, <2>3, CountsStay DEF Cursor
<1>6. ASSUME NEW c \in Command, AddStore(c) PROVE QueueOK' /\ Cursor' /\ Counts'
  <2>1. /\ UNCHANGED <<command_count, replay, pos, z, queued>> /\ z[c] < QueueSize
        /\ commands' = [commands EXCEPT ![at[c]][z[c] + 1] = c]
    BY <1>6 DEF AddStore, revival
  <2>2. commands' \in [Backup -> [1..QueueSize -> Command \cup {Nothing}]]
    BY <1>1, <2>1
  <2>3. \A x \in Backup : command_count'[x] = command_count[x] /\ queued'[x] = queued[x]
    BY <1>1, <2>1
  <2> QED BY <1>1, <2>1, <2>2, <2>3, CountsStay DEF Cursor
<1>7. ASSUME NEW c \in Command, AddCount(c) PROVE QueueOK' /\ Cursor' /\ Counts'
  <2> DEFINE n == command_count[at[c]] + 1
  <2>1. PICK b \in Backup : at[c] = b /\ step[c] = "count"
    BY <1>7 DEF AddCount, Proceed, TypeInv, Placed, PlacedAt, Adding
  <2>2. /\ UNCHANGED <<commands, replay, pos>> /\ z' = [z EXCEPT ![c] = 0]
        /\ command_count' = [command_count EXCEPT ![b] = @ + 1]
        /\ queued' = [queued EXCEPT ![b] = @ \cup {c}]
    BY <1>7, <2>1 DEF AddCount, revival
  <2>3. command_count[b] + 1 \in 1..Most /\ Cardinality(queued[b] \cup {c}) = command_count[b] + 1
    BY <2>1, RoomForOne
  <2>4. QueueOK'
    BY <1>1, <2>2, <2>3
  <2>5. Cursor'
    BY <1>1, <2>2 DEF Cursor
  <2>6. Counts'
    <3> SUFFICES ASSUME NEW x \in Backup
                 PROVE  /\ queued'[x] \subseteq Command \ Left(x)'
                        /\ command_count'[x] = Cardinality(queued'[x])
      BY DEF Counts
    <3>1. Left(x)' \subseteq Left(x)
      BY LeftShrinks DEF TypeInv
    <3>2. queued[x] \subseteq Command \ Left(x) /\ command_count[x] = Cardinality(queued[x])
      BY DEF TypeInv, Counts
    <3>3. CASE x # b
      BY <1>1, <2>2, <3>1, <3>2, <3>3
    <3>4. CASE x = b
      <4>1. c \notin Left(b)'
        <5>1. step \in [Command -> Steps] /\ at \in [Command -> Server]
          BY DEF TypeInv, TypeOK, Steps
        <5>2. step'[c] = "end" \/ at'[c] = b + 1
          BY <1>7, <2>1, <5>1, ProceedMoves DEF AddCount, Steps, Adding
        <5> QED BY <2>1, <5>2 DEF Left, Backup
      <4>2. queued'[b] = queued[b] \cup {c} /\ command_count'[b] = command_count[b] + 1
        BY <1>1, <2>2
      <4> QED BY <2>3, <3>1, <3>2, <3>4, <4>1, <4>2
    <3> QED BY <3>3, <3>4
  <2> QED BY <2>4, <2>5, <2>6
<1> QED
  BY <1>2, <1>3, <1>4, <1>5, <1>6, <1>7
  DEF Step, Crash, MarkInactive, Perform, Begin, Write, Handler, CheckPrimary, ConnectPrimary, Answer,
    AnswerFail, Report, ReportFail, CheckBackup, ConnectBackup, ConnectBackupFail, AddOverrun, thread

\* What is on its way, what has been carried out, and what was over before.
LEMMA NextSent ==
  ASSUME TypeInv, Step
  PROVE  /\ sent' \subseteq Server \X Command
         /\ applied' \in [Server -> Seq(Command \cup {Garbage})]
         /\ after' \in [Command -> SUBSET Command]
<1> DEFINE Op == Command \cup {Garbage}
<1>1. /\ sent \subseteq Server \X Command /\ applied \in [Server -> Seq(Op)]
      /\ after \in [Command -> SUBSET Command] /\ at \in [Command -> Server]
  BY DEF TypeInv, TypeOK
<1>2. ASSUME NEW s \in Server, NEW op \in Op, Apply(s, op) PROVE applied' \in [Server -> Seq(Op)]
  <2>1. Append(applied[s], op) \in Seq(Op)
    BY <1>1
  <2> QED BY <1>1, <1>2, <2>1 DEF Apply
<1>3. sent' \subseteq Server \X Command
  <2>1. CASE sent' \subseteq sent
    BY <1>1, <2>1
  <2>2. ASSUME NEW c \in Command, ConnectPrimary(c) \/ ConnectBackup(c)
        PROVE  sent' \subseteq Server \X Command
    BY <1>1, <2>2 DEF ConnectPrimary, ConnectBackup, Server
  <2> QED
    BY <2>1, <2>2
    DEF Step, Crash, MarkInactive, Reconnect, Revive, ReplaySend, ReplayEnd, ReplayFail, ReplayReset,
      Perform, Begin, Write, Handler, CheckPrimary, Answer, AnswerFail, Report, ReportFail,
      CheckBackup, ConnectBackupFail, AddRead, AddStore, AddOverrun, AddCount
<1>4. after' \in [Command -> SUBSET Command]
  <2>1. CASE Elsewhere
    BY <1>1, <2>1, OthersMove
  <2>2. ASSUME NEW c \in Command, Begin(c) \/ Write(c) PROVE after' \in [Command -> SUBSET Command]
    BY <1>1, <2>2 DEF Begin, Write, Ended
  <2>3. ASSUME NEW c \in Command, Handler(c) PROVE after' \in [Command -> SUBSET Command]
    BY <1>1, <2>3 DEF Handler, CheckPrimary, ConnectPrimary, Answer, AnswerFail, Report, ReportFail,
      CheckBackup, ConnectBackup, ConnectBackupFail, AddRead, AddStore, AddOverrun, AddCount
  <2> QED BY <2>1, <2>2, <2>3, NextSplit DEF Moves
<1>5. applied' \in [Server -> Seq(Op)]
  <2>1. CASE UNCHANGED applied
    BY <1>1, <2>1
  <2>2. ASSUME NEW b \in Backup, ReplaySend(b) PROVE applied' \in [Server -> Seq(Op)]
    <3>1. Entry(b, pos[b] + 1) # Nothing => Entry(b, pos[b] + 1) \in Op
      BY <2>2, NextWaits, WaitingEntries DEF ReplaySend, TypeInv
    <3> QED BY <1>2, <2>1, <2>2, <3>1 DEF ReplaySend, Backup, Server
  <2>3. ASSUME NEW s \in Server, NEW c \in Command, Perform(s, c) PROVE applied' \in [Server -> Seq(Op)]
    BY <1>2, <2>1, <2>3 DEF Perform
  <2>4. ASSUME NEW c \in Command, Write(c) PROVE applied' \in [Server -> Seq(Op)]
    BY <1>2, <2>4 DEF Write, Server
  <2> QED
    BY <2>1, <2>2, <2>3, <2>4
    DEF Step, Crash, MarkInactive, Reconnect, Revive, ReplayEnd, ReplayFail, ReplayReset, Begin, Handler,
      CheckPrimary, ConnectPrimary, Answer, AnswerFail, Report, ReportFail, CheckBackup, ConnectBackup,
      ConnectBackupFail, AddRead, AddStore, AddOverrun, AddCount
<1> QED BY <1>3, <1>4, <1>5

\* The whole type invariant is kept.
LEMMA NextType == ASSUME TypeInv, Step PROVE TypeInv'
<1>1. seen' \in History
  BY HistoryGrows DEF TypeInv
<1> QED BY <1>1, NextPlaced, NextServers, NextQueue, NextSent DEF TypeInv, TypeOK, QueueOK, Steps

-----------------------------------------------------------------------------
(* Who is awake.  A backup that is taken for active has an empty queue once *)
(* it has been replayed, unless a command was about to be queued as it came *)
(* back.                                                                    *)
IsLate(b) == \E c \in Command : <<b, c>> \in seen.late

UpIsActive       == \A s \in Server : up[s] => is_active[s]
RevivingIsActive == \A b \in Backup : Reviving(b) => is_active[b]
AddersAreLate    ==
  \A b \in Backup, c \in Command :
    is_active[b] /\ at[c] = b /\ step[c] \in Adding => <<b, c>> \in seen.late
Emptied          ==
  \A b \in Backup : is_active[b] /\ ~Reviving(b) /\ ~IsLate(b) => command_count[b] = 0
SentToUp         == \A s \in Server, c \in Command : <<s, c>> \in sent => up[s]

Awake == UpIsActive /\ RevivingIsActive /\ AddersAreLate /\ Emptied /\ SentToUp

\* What has been seen once has been seen for good.
LEMMA LateStays ==
  ASSUME Grown, NEW b \in Backup
  PROVE  (IsLate(b) => IsLate(b)') /\ (Confused(b) => Confused(b)')
BY DEF Grown, IsLate, Confused

\* At the start every server is awake and every queue empty.
LEMMA InitAwake == Init => Awake
BY DEF Init, Awake, UpIsActive, RevivingIsActive, AddersAreLate, Emptied, SentToUp, Reviving, Adding

\* Servers go down, are marked inactive and come back.
LEMMA ServersAwake ==
  ASSUME TypeInv, Awake, Step, NEW s \in Server, Crash(s) \/ MarkInactive(s) \/ Reconnect(s)
  PROVE  Awake'
<1>1. Grown
  BY HistoryGrows DEF TypeInv
<1>2. up \in [Server -> BOOLEAN] /\ is_active \in [Server -> BOOLEAN] /\ Backup \subseteq Server
  BY DEF TypeInv, TypeOK, Backup, Server
<1>3. UNCHANGED <<command_count, at, step>>
  BY DEF Crash, MarkInactive, Reconnect, queue, thread
<1> USE DEF Awake, UpIsActive, RevivingIsActive, AddersAreLate, Emptied, SentToUp
<1>4. CASE Crash(s)
  <2>1. /\ up' = [up EXCEPT ![s] = FALSE] /\ sent' = {m \in sent : m[1] # s}
        /\ UNCHANGED <<is_active, replay>>
    BY <1>4 DEF Crash, revival
  <2> QED BY <1>1, <1>2, <1>3, <2>1, LateStays DEF Reviving, Grown
<1>5. CASE MarkInactive(s)
  <2>1. /\ ~up[s] /\ ~Reviving(s) /\ is_active' = [is_active EXCEPT ![s] = FALSE]
        /\ UNCHANGED <<up, replay, sent, seen>>
    BY <1>5 DEF MarkInactive, revival
  <2> QED BY <1>2, <1>3, <2>1 DEF Reviving, IsLate
<1>6. CASE Reconnect(s)
  <2>1. /\ up' = [up EXCEPT ![s] = TRUE] /\ is_active' = [is_active EXCEPT ![s] = TRUE]
        /\ replay' = [b \in Backup |-> IF b = s THEN "sending" ELSE replay[b]]
        /\ UNCHANGED sent
        /\ \A c \in Command : s \in Backup /\ at[c] = s /\ step[c] \in Adding => <<s, c>> \in seen'.late
    BY <1>6 DEF Reconnect, TypeInv, TypeOK, History
  <2>2. UpIsActive' /\ SentToUp'
    BY <1>2, <2>1
  <2>3. RevivingIsActive'
    BY <1>2, <2>1 DEF Reviving
  <2>4. AddersAreLate'
    BY <1>1, <1>2, <1>3, <2>1 DEF Grown
  <2>5. Emptied'
    BY <1>1, <1>2, <1>3, <2>1, LateStays DEF Reviving
  <2> QED BY <2>2, <2>3, <2>4, <2>5
<1> QED BY <1>4, <1>5, <1>6

\* A replay empties the queue before it ends.
LEMMA ReviveAwake == ASSUME TypeInv, Awake, NEW b \in Backup, Revive(b) PROVE Awake'
<1>1. UNCHANGED <<up, is_active, at, step, sent>>
  BY DEF Revive, ReplaySend, ReplayEnd, ReplayFail, ReplayReset, servers, thread
<1>2. Grown /\ seen'.late = seen.late
  <2>1. Step
    BY DEF Step
  <2> QED BY <2>1, HistoryGrows
      DEF TypeInv, TypeOK, History, Revive, ReplaySend, ReplayEnd, ReplayFail, ReplayReset
<1>3. /\ \A x \in Backup \ {b} : replay'[x] = replay[x] /\ command_count'[x] = command_count[x]
      /\ Reviving(b)
      /\ Reviving(b)' \/ command_count'[b] = 0
  BY DEF Revive, ReplaySend, ReplayEnd, ReplayFail, ReplayReset, queue, revival, TypeInv, TypeOK, Reviving
<1>4. UpIsActive' /\ SentToUp'
  BY <1>1 DEF Awake, UpIsActive, SentToUp
<1>5. RevivingIsActive'
  BY <1>1, <1>3 DEF Awake, RevivingIsActive, Reviving
<1>6. AddersAreLate'
  BY <1>1, <1>2 DEF Awake, AddersAreLate, IsLate
<1>7. Emptied'
  BY <1>1, <1>2, <1>3 DEF Awake, Emptied, IsLate, Reviving
<1> QED BY <1>4, <1>5, <1>6, <1>7 DEF Awake

\* A request that is carried out wakes nobody.
LEMMA PerformAwake ==
  ASSUME TypeInv, Awake, NEW s \in Server, NEW c \in Command, Perform(s, c) PROVE Awake'
<1>1. UNCHANGED <<up, is_active, at, step, command_count, replay>> /\ sent' \subseteq sent
  BY DEF Perform, servers, queue, revival, thread
<1>2. Grown
  BY HistoryGrows DEF TypeInv, Step
<1> QED BY <1>1, <1>2, LateStays
    DEF Awake, UpIsActive, RevivingIsActive, AddersAreLate, Emptied, SentToUp, Reviving, Grown

\* A handler queues a command only for a backup that is taken for inactive.
LEMMA ThreadAwake == ASSUME TypeInv, Awake, NEW c \in Command, Moves(c) PROVE Awake'
<1>1. UNCHANGED <<up, is_active, replay>>
  BY DEF Moves, Begin, Write, Handler, CheckPrimary, ConnectPrimary, Answer, AnswerFail, Report,
    ReportFail, CheckBackup, ConnectBackup, ConnectBackupFail, AddRead, AddStore, AddOverrun, AddCount, servers, revival
<1>2. Grown
  BY HistoryGrows, NextSplit DEF TypeInv
<1>3. /\ step \in [Command -> Steps] /\ at \in [Command -> Server]
      /\ \A d \in Command \ {c} : step'[d] = step[d] /\ at'[d] = at[d]
  BY ThreadMoves DEF TypeInv, TypeOK, Steps
<1>4. UpIsActive' /\ RevivingIsActive'
  BY <1>1 DEF Awake, UpIsActive, RevivingIsActive, Reviving
<1>5. AddersAreLate'
  <2>1. ASSUME step'[c] \in Adding
        PROVE  at' = at /\ (step[c] \in Adding \/ ~is_active[at[c]])
    <3>1. \A from \in Steps : ~Proceed(c, from)
      BY <1>3, <2>1, ProceedMoves DEF Adding
    <3>2. CASE CheckBackup(c)
      BY <2>1, <1>3, <3>1, <3>2, ToMoves DEF CheckBackup, Steps, Adding
    <3>3. CASE AddRead(c) \/ AddStore(c) \/ AddOverrun(c)
      BY <1>3, <2>1, <3>3, ToMoves DEF AddRead, AddStore, AddOverrun, Steps, Adding
    <3>4. CASE Begin(c) \/ Write(c) \/ CheckPrimary(c) \/ ConnectPrimary(c) \/ AnswerFail(c) \/ ReportFail(c)
      BY <1>3, <2>1, <3>4, ToMoves
      DEF Begin, Write, CheckPrimary, ConnectPrimary, AnswerFail, ReportFail, Steps, Adding
    <3>5. CASE ConnectBackup(c) \/ ConnectBackupFail(c)
      BY <1>3, <2>1, <3>1, <3>5, ToMoves DEF ConnectBackup, ConnectBackupFail, Steps, Adding
    <3>6. ~(Answer(c) \/ Report(c) \/ AddCount(c))
      BY <3>1 DEF Answer, Report, AddCount, Steps, Adding
    <3> QED BY <3>2, <3>3, <3>4, <3>5, <3>6 DEF Moves, Handler
  <2> SUFFICES ASSUME NEW b \in Backup, NEW d \in Command, is_active[b], at'[d] = b, step'[d] \in Adding
               PROVE  <<b, d>> \in seen'.late
    BY <1>1 DEF AddersAreLate
  <2>2. at[d] = b /\ step[d] \in Adding
    BY <1>3, <2>1
  <2> QED BY <1>2, <2>2 DEF Awake, AddersAreLate, Grown
<1>6. Emptied'
  <2>1. CASE command_count' = command_count
    BY <1>1, <1>2, <2>1, LateStays DEF Awake, Emptied, Reviving
  <2>2. CASE AddCount(c)
    <3>1. step[c] \in Adding /\ at[c] \in Backup
      BY <2>2 DEF AddCount, Proceed, TypeInv, Placed, PlacedAt, Adding
    <3>2. \A b \in Backup : b # at[c] => command_count'[b] = command_count[b]
      BY <2>2 DEF AddCount, TypeInv, TypeOK
    <3>3. is_active[at[c]] => IsLate(at[c])
      BY <3>1 DEF Awake, AddersAreLate, IsLate
    <3> QED BY <1>1, <1>2, <3>1, <3>2, <3>3, LateStays DEF Awake, Emptied, Reviving
  <2> QED BY <2>1, <2>2
      DEF Moves, Begin, Write, Handler, CheckPrimary, ConnectPrimary, Answer, AnswerFail, Report,
        ReportFail, CheckBackup, ConnectBackup, ConnectBackupFail, AddRead, AddStore, AddOverrun, queue
<1>7. SentToUp'
  <2>1. \A m \in sent' : m \in sent \/ up[m[1]]
    BY DEF Moves, Begin, Write, Handler, CheckPrimary, ConnectPrimary, Answer, AnswerFail, Report,
      ReportFail, CheckBackup, ConnectBackup, ConnectBackupFail, AddRead, AddStore, AddOverrun, AddCount
  <2> QED BY <1>1, <2>1 DEF Awake, SentToUp
<1> QED BY <1>4, <1>5, <1>6, <1>7 DEF Awake

\* The layer is kept.
LEMMA NextAwake == ASSUME TypeInv, Awake, Step PROVE Awake'
BY NextSplit, ServersAwake, ReviveAwake, PerformAwake, ThreadAwake DEF Elsewhere

-----------------------------------------------------------------------------
(* The queue of a backup.  As long as it is not misused one handler at a    *)
(* time is at its end, and what waits in it are commands.                   *)
Calm(b)    == ~Confused(b)
Filling(b) == {c \in Command : at[c] = b /\ step[c] \in {"store", "count"}}

OneFills(b)         == \A c, d \in Filling(b) : c = d
FillsNext(b)        == \A c \in Filling(b) : z[c] = command_count[b]
FilledIs(b)         ==
  \A c \in Filling(b) : step[c] = "count" => z[c] < QueueSize /\ commands[b][z[c] + 1] = c
WaitingAre(b)       == \A i \in Waiting(b) : i <= QueueSize /\ commands[b][i] \in Command

QueueOf(b) == Calm(b) => OneFills(b) /\ FillsNext(b) /\ FilledIs(b) /\ WaitingAre(b)
PosRests   == \A b \in Backup : ~Reviving(b) => pos[b] = 0
QueueInv   == PosRests /\ \A b \in Backup : QueueOf(b)

\* At the start nothing waits.
LEMMA InitQueue == Init => QueueInv
BY DEF Init, QueueInv, PosRests, QueueOf, OneFills, FillsNext, FilledIs, WaitingAre, Filling, Waiting

\* What does not touch a backup's queue.
LEMMA QueueKept ==
  ASSUME TypeOK, NEW b \in Backup, QueueOf(b), Calm(b)' => Calm(b),
         commands'[b] = commands[b], command_count'[b] = command_count[b],
         pos'[b] \in Int, pos[b] <= pos'[b], z' = z,
         \A c \in Command : at'[c] = b /\ step'[c] \in {"store", "count"} =>
                              at[c] = b /\ step[c] = step'[c]
  PROVE  QueueOf(b)'
<1> SUFFICES ASSUME Calm(b)' PROVE (OneFills(b) /\ FillsNext(b) /\ FilledIs(b) /\ WaitingAre(b))'
  BY DEF QueueOf
<1>1. OneFills(b) /\ FillsNext(b) /\ FilledIs(b) /\ WaitingAre(b)
  BY DEF QueueOf
<1>2. (OneFills(b) /\ FillsNext(b) /\ FilledIs(b))'
  BY <1>1 DEF OneFills, FillsNext, FilledIs, Filling
<1>3. Waiting(b)' \subseteq Waiting(b)
  BY SizeIsNat DEF Waiting, TypeOK
<1>4. WaitingAre(b)'
  BY <1>1, <1>3 DEF WaitingAre
<1> QED BY <1>2, <1>4

\* Nobody else puts anything into a queue.
LEMMA ElsewhereQueue ==
  ASSUME TypeInv, Awake, QueueInv, Elsewhere PROVE QueueInv'
<1>1. Grown /\ QueueOK /\ QueueOK' /\ QueueSize \in Nat /\ Most \in Nat /\ TypeOK
  BY NextSplit, HistoryGrows, NextQueue, SizeIsNat DEF TypeInv, TypeOK, QueueOK
<1>2. UNCHANGED <<step, at, z>> /\ \A b \in Backup : Calm(b)' => Calm(b)
  BY <1>1, OthersMove, LateStays DEF Calm
<1>3. ASSUME UNCHANGED <<commands, command_count, replay, pos>> PROVE QueueInv'
  <2>1. PosRests'
    BY <1>3 DEF QueueInv, PosRests, Reviving
  <2>2. ASSUME NEW b \in Backup PROVE QueueOf(b)'
    <3>1. QueueOf(b) /\ pos'[b] \in Int /\ pos[b] <= pos'[b]
      BY <1>1, <1>3 DEF QueueInv, QueueOK
    <3> QED BY <1>1, <1>2, <1>3, <3>1, QueueKept
  <2> QED BY <2>1, <2>2 DEF QueueInv
<1>4. ASSUME NEW s \in Server, Reconnect(s) PROVE QueueInv'
  <2>1. /\ ~is_active[s] /\ UNCHANGED <<commands, command_count>>
        /\ replay' = [b \in Backup |-> IF b = s THEN "sending" ELSE replay[b]]
        /\ pos' = [b \in Backup |-> IF b = s THEN 0 ELSE pos[b]]
    BY <1>4 DEF Reconnect, queue
  <2>2. s \in Backup => pos[s] = 0
    BY <2>1 DEF Awake, RevivingIsActive, QueueInv, PosRests
  <2>3. \A b \in Backup : pos'[b] = pos[b]
    BY <2>1, <2>2
  <2>4. PosRests'
    BY <2>1, <2>2 DEF QueueInv, PosRests, Reviving
  <2>5. ASSUME NEW b \in Backup PROVE QueueOf(b)'
    <3>1. QueueOf(b) /\ pos'[b] \in Int /\ pos[b] <= pos'[b]
      BY <1>1, <2>3 DEF QueueInv, QueueOK
    <3> QED BY <1>1, <1>2, <2>1, <3>1, QueueKept
  <2> QED BY <2>4, <2>5 DEF QueueInv
<1>5. ASSUME NEW s \in Backup, Revive(s) PROVE QueueInv'
  <2>1. /\ \A b \in Backup \ {s} : /\ replay'[b] = replay[b] /\ command_count'[b] = command_count[b]
                                   /\ pos'[b] = pos[b]
        /\ UNCHANGED commands /\ Reviving(s)
    BY <1>1, <1>5 DEF Revive, ReplaySend, ReplayEnd, ReplayFail, ReplayReset, queue, QueueOK, Reviving
  <2>2. \/ command_count'[s] = command_count[s] /\ pos'[s] >= pos[s] /\ Reviving(s)'
        \/ command_count'[s] = 0 /\ pos'[s] = 0
    <3>4. /\ pos[s] \in Nat /\ pos \in [Backup -> 0..Most]
          /\ replay \in [Backup -> {"idle", "sending", "reset"}]
      BY <1>1, SizeIsNat DEF QueueOK
    <3>1. CASE ReplaySend(s)
      <4>1. UNCHANGED <<command_count, replay>> /\ pos' = [pos EXCEPT ![s] = @ + 1]
        BY <3>1 DEF ReplaySend, queue
      <4>2. pos'[s] = pos[s] + 1
        BY <3>4, <4>1
      <4> QED BY <2>1, <3>4, <4>1, <4>2 DEF Reviving
    <3>2. CASE ReplayEnd(s) \/ ReplayFail(s)
      <4>1. UNCHANGED <<command_count, pos>> /\ replay' = [replay EXCEPT ![s] = "reset"]
        BY <3>2 DEF ReplayEnd, ReplayFail, queue
      <4> QED BY <3>4, <4>1 DEF Reviving
    <3>3. CASE ReplayReset(s)
      BY <1>1, <3>3 DEF ReplayReset, QueueOK
    <3> QED BY <1>5, <3>1, <3>2, <3>3 DEF Revive
  <2>3. PosRests'
    BY <2>1, <2>2 DEF QueueInv, PosRests, Reviving
  <2>4. ASSUME NEW b \in Backup PROVE QueueOf(b)'
    <3>1. QueueOf(b) /\ pos'[b] \in Int /\ pos[b] \in Int
      BY <1>1 DEF QueueInv, QueueOK
    <3>2. CASE command_count'[b] = command_count[b] /\ pos[b] <= pos'[b]
      BY <1>1, <1>2, <2>1, <3>1, <3>2, QueueKept
    <3>3. CASE b = s /\ command_count'[b] = 0
      <4>1. Waiting(b)' = {}
        BY <1>1, <3>3, <3>1 DEF Waiting, QueueOK
      <4>2. Calm(b) => Filling(b) = {}
        <5>1. is_active[b]
          BY <2>1, <3>3 DEF Awake, RevivingIsActive
        <5>2. ASSUME NEW c \in Filling(b) PROVE Confused(b)
          <6>1. IsLate(b)
            BY <5>1 DEF Awake, AddersAreLate, IsLate, Filling, Adding
          <6> QED BY <6>1 DEF IsLate, Confused
        <5> QED BY <5>2 DEF Calm
      <4>3. Filling(b)' = Filling(b)
        BY <1>2 DEF Filling
      <4> QED BY <1>2, <4>1, <4>2, <4>3 DEF QueueOf, OneFills, FillsNext, FilledIs, WaitingAre
    <3> QED BY <2>1, <2>2, <3>1, <3>2, <3>3
  <2> QED BY <2>3, <2>4 DEF QueueInv
<1> QED
  BY <1>3, <1>4, <1>5
  DEF Elsewhere, Crash, MarkInactive, Perform, queue, revival

\* The handlers that do not queue anything just now.
LEMMA ThreadQueue ==
  ASSUME TypeInv, Awake, QueueInv, NEW c \in Command, Moves(c) PROVE QueueInv'
<1>1. Grown /\ QueueOK /\ QueueOK' /\ QueueSize \in Nat /\ Most \in Nat /\ TypeOK
  BY NextSplit, HistoryGrows, NextQueue, SizeIsNat DEF TypeInv, TypeOK, QueueOK
<1>2. /\ step \in [Command -> Steps] /\ at \in [Command -> Server]
      /\ \A d \in Command \ {c} : step'[d] = step[d] /\ at'[d] = at[d]
  BY ThreadMoves DEF TypeInv, TypeOK, Steps
<1>3. UNCHANGED <<replay, pos>>
  BY DEF Moves, Begin, Write, Handler, CheckPrimary, ConnectPrimary, Answer, AnswerFail, Report,
    ReportFail, CheckBackup, ConnectBackup, ConnectBackupFail, AddRead, AddStore, AddOverrun, AddCount, revival
<1>4. PosRests'
  BY <1>3 DEF QueueInv, PosRests, Reviving
<1>5. \A b \in Backup : Calm(b)' => Calm(b)
  BY <1>1, LateStays DEF Calm
<1>6. ASSUME NEW b \in Backup
      PROVE  QueueOf(b) /\ pos'[b] \in Int /\ pos[b] <= pos'[b]
  BY <1>1, <1>3 DEF QueueInv, QueueOK
<1>7. CASE UNCHANGED <<commands, command_count, z>> /\ step'[c] \notin {"store", "count"}
  <2>1. ASSUME NEW b \in Backup PROVE QueueOf(b)'
    BY <1>1, <1>2, <1>5, <1>6, <1>7, <2>1, QueueKept
  <2> QED BY <1>4, <2>1 DEF QueueInv
<1>8. CASE AddRead(c)
  <2>1. PICK b \in Backup : at[c] = b
    BY <1>8 DEF AddRead, To, TypeInv, Placed, PlacedAt, Adding
  <2>2. /\ UNCHANGED <<commands, command_count, at>> /\ z' = [z EXCEPT ![c] = command_count[b]]
        /\ step[c] = "read" /\ step'[c] = "store"
    BY <1>2, <1>8, <2>1, ToMoves DEF AddRead, queue, Steps, Adding
  <2>3. (\E d \in Command \ {c} : at[d] = b /\ step[d] \in {"store", "count"}) => b \in seen'.clash
    BY <1>1, <1>8, <2>1 DEF AddRead, TypeOK, History, Adding
  <2>4. ASSUME NEW x \in Backup, Calm(x)' PROVE (OneFills(x) /\ FillsNext(x) /\ FilledIs(x) /\ WaitingAre(x))'
    <3>1. OneFills(x) /\ FillsNext(x) /\ FilledIs(x) /\ WaitingAre(x)
      BY <1>5, <2>4 DEF QueueInv, QueueOf
    <3>2. WaitingAre(x)'
      BY <1>3, <2>2, <3>1 DEF WaitingAre, Waiting
    <3>3. x = b => Filling(x)' = {c}
      BY <1>2, <2>1, <2>2, <2>3, <2>4 DEF Filling, Calm, Confused
    <3>4. x # b => Filling(x)' = Filling(x)
      BY <1>2, <2>1, <2>2 DEF Filling
    <3>5. c \notin Filling(x)
      BY <2>2 DEF Filling
    <3>6. \A d \in Command \ {c} : z'[d] = z[d]
      BY <1>1, <2>2 DEF QueueOK
    <3>7. z'[c] = command_count[b]
      BY <1>1, <2>2 DEF QueueOK
    <3>8. OneFills(x)'
      BY <3>1, <3>3, <3>4 DEF OneFills
    <3>9. FillsNext(x)'
      BY <2>2, <3>1, <3>3, <3>4, <3>5, <3>6, <3>7 DEF FillsNext, Filling
    <3>10. FilledIs(x)'
      BY <1>2, <2>2, <3>1, <3>3, <3>4, <3>5, <3>6 DEF FilledIs, Filling
    <3> QED BY <3>2, <3>8, <3>9, <3>10
  <2> QED BY <1>4, <2>4 DEF QueueInv, QueueOf
<1>9. CASE AddStore(c)
  <2>1. PICK b \in Backup : at[c] = b
    BY <1>9 DEF AddStore, To, TypeInv, Placed, PlacedAt, Adding
  <2>2. /\ UNCHANGED <<command_count, at, z>> /\ commands' = [commands EXCEPT ![b][z[c] + 1] = c]
        /\ step[c] = "store" /\ step'[c] = "count"
    BY <1>2, <1>9, <2>1, ToMoves DEF AddStore, Steps, Adding
  <2>3. \A x \in Backup : Filling(x)' = Filling(x)
    BY <1>2, <2>2 DEF Filling
  <2>4. ASSUME NEW x \in Backup, Calm(x)' PROVE (OneFills(x) /\ FillsNext(x) /\ FilledIs(x) /\ WaitingAre(x))'
    <3>1. OneFills(x) /\ FillsNext(x) /\ FilledIs(x) /\ WaitingAre(x)
      BY <1>5, <2>4 DEF QueueInv, QueueOf
    <3>2. OneFills(x)' /\ FillsNext(x)'
      BY <2>2, <2>3, <3>1 DEF OneFills, FillsNext
    <3>3. CASE x = b
      <4>1. Filling(b) = {c} /\ z[c] = command_count[b]
        BY <2>1, <2>2, <3>1, <3>3 DEF OneFills, FillsNext, Filling
      <4>2. command_count[b] + 1 \in 1..QueueSize
        BY <1>1, <1>9, <4>1 DEF AddStore, QueueOK
      <4>3. /\ commands'[b][command_count[b] + 1] = c
            /\ \A i \in 1..QueueSize : i # command_count[b] + 1 => commands'[b][i] = commands[b][i]
        BY <1>1, <2>2, <4>1, <4>2 DEF QueueOK
      <4>4. Waiting(b)' = Waiting(b) /\ \A i \in Waiting(b) : i \in 1..QueueSize /\ i # command_count[b] + 1
        BY <1>1, <1>3, <2>2, <4>2 DEF Waiting, QueueOK
      <4>5. WaitingAre(x)'
        BY <3>1, <3>3, <4>3, <4>4 DEF WaitingAre
      <4>6. FilledIs(x)'
        <5>1. z'[c] < QueueSize
          BY <1>9, <2>2 DEF AddStore
        <5> QED BY <2>2, <2>3, <3>3, <4>1, <4>3, <5>1 DEF FilledIs
      <4> QED BY <3>2, <4>5, <4>6
    <3>4. CASE x # b
      <4>1. commands'[x] = commands[x] /\ Waiting(x)' = Waiting(x)
        BY <1>1, <1>3, <2>2, <3>4 DEF QueueOK, Waiting
      <4>2. \A d \in Filling(x) : d # c
        BY <2>1, <3>4 DEF Filling
      <4>3. FilledIs(x)'
        BY <1>2, <2>2, <2>3, <3>1, <4>1, <4>2 DEF FilledIs, Filling
      <4> QED BY <3>1, <3>2, <4>1, <4>3 DEF WaitingAre
    <3> QED BY <3>3, <3>4
  <2> QED BY <1>4, <2>4 DEF QueueInv, QueueOf
<1>10. CASE AddCount(c)
  <2>1. PICK b \in Backup : at[c] = b /\ step[c] = "count"
    BY <1>10 DEF AddCount, Proceed, TypeInv, Placed, PlacedAt, Adding
  <2>2. /\ UNCHANGED commands /\ z' = [z EXCEPT ![c] = 0]
        /\ command_count' = [command_count EXCEPT ![b] = @ + 1]
        /\ step'[c] \in {"end", "check"}
    BY <1>2, <1>10, <2>1, ProceedMoves DEF AddCount, Steps, Adding
  <2>3. /\ \A x \in Backup : Filling(x)' = Filling(x) \ {c}
        /\ \A d \in Command \ {c} : z'[d] = z[d]
    BY <1>1, <1>2, <2>2 DEF Filling, QueueOK
  <2>4. ASSUME NEW x \in Backup, Calm(x)' PROVE (OneFills(x) /\ FillsNext(x) /\ FilledIs(x) /\ WaitingAre(x))'
    <3>1. OneFills(x) /\ FillsNext(x) /\ FilledIs(x) /\ WaitingAre(x)
      BY <1>5, <2>4 DEF QueueInv, QueueOf
    <3>2. CASE x = b
      <4>1. /\ Filling(b) = {c} /\ z[c] = command_count[b] /\ z[c] < QueueSize
            /\ commands[b][command_count[b] + 1] = c
        BY <2>1, <3>1, <3>2 DEF OneFills, FillsNext, FilledIs, Filling
      <4>2. Filling(b)' = {}
        BY <2>3, <4>1
      <4>3. \A i \in Waiting(b)' : i \in Waiting(b) \/ i = command_count[b] + 1
        BY <1>1, <1>3, <2>2 DEF Waiting, QueueOK
      <4>4. command_count[b] + 1 <= QueueSize
        BY <1>1, <4>1 DEF QueueOK
      <4> QED BY <2>2, <3>1, <3>2, <4>1, <4>2, <4>3, <4>4 DEF OneFills, FillsNext, FilledIs, WaitingAre
    <3>3. CASE x # b
      <4>1. command_count'[x] = command_count[x] /\ Waiting(x)' = Waiting(x)
        BY <1>1, <1>3, <2>2, <3>3 DEF QueueOK, Waiting
      <4>2. Filling(x)' = Filling(x) /\ c \notin Filling(x)
        BY <2>1, <2>3, <3>3 DEF Filling
      <4>3. \A d \in Filling(x) : step'[d] = step[d] /\ z'[d] = z[d]
        BY <1>2, <2>3, <4>2 DEF Filling
      <4> QED BY <2>2, <3>1, <4>1, <4>2, <4>3 DEF OneFills, FillsNext, FilledIs, WaitingAre
    <3> QED BY <3>2, <3>3
  <2> QED BY <1>4, <2>4 DEF QueueInv, QueueOf
<1>11. ASSUME ~(AddRead(c) \/ AddStore(c) \/ AddCount(c))
       PROVE  UNCHANGED <<commands, command_count, z>> /\ step'[c] \notin {"store", "count"}
  <2>1. UNCHANGED <<commands, command_count, z>>
    BY <1>11 DEF Moves, Begin, Write, Handler, CheckPrimary, ConnectPrimary, Answer, AnswerFail,
      Report, ReportFail, CheckBackup, ConnectBackup, ConnectBackupFail, AddOverrun, queue, thread
  <2>2. ASSUME NEW from \in Steps, Proceed(c, from) PROVE step'[c] \notin {"store", "count"}
    BY <1>2, <2>2, ProceedMoves
  <2>3. ASSUME NEW from \in Steps, NEW to \in {"check", "connect", "wait", "report", "read", "end", "torn"},
               To(c, from, to)
        PROVE  step'[c] \notin {"store", "count"}
    BY <1>2, <2>3, ToMoves DEF Steps, Adding
  <2> QED BY <1>11, <2>1, <2>2, <2>3
      DEF Moves, Begin, Write, Handler, CheckPrimary, ConnectPrimary, Answer, AnswerFail,
        Report, ReportFail, CheckBackup, ConnectBackup, ConnectBackupFail, AddOverrun, Steps, Adding
<1> QED BY <1>7, <1>8, <1>9, <1>10, <1>11

\* The layer is kept.
LEMMA NextQueueInv == ASSUME TypeInv, Awake, QueueInv, Step PROVE QueueInv'
BY NextSplit, ElsewhereQueue, ThreadQueue

-----------------------------------------------------------------------------
(* The end of a queue.  What a handler has read is no more than the count   *)
(* still is, unless the queue was emptied since, which it is only for a     *)
(* backup that is back.                                                     *)
Earned ==
  \A c \in Command : step[c] \in {"store", "torn"} =>
    /\ <<at[c], c>> \in seen.late \/ z[c] <= command_count[at[c]]
    /\ step[c] = "torn" => z[c] >= QueueSize

\* At the start nobody has read a count.
LEMMA InitEarned == Init => Earned
BY DEF Init, Earned

\* A count goes down only while the queue is replayed.
LEMMA CountFalls ==
  ASSUME TypeInv, Step, NEW b \in Backup
  PROVE  command_count[b] <= command_count'[b] \/ Reviving(b)
<1>1. command_count[b] \in Nat
  BY SizeIsNat DEF TypeInv, TypeOK
<1>2. CASE UNCHANGED command_count
  BY <1>1, <1>2
<1>3. ASSUME NEW x \in Backup, ReplayReset(x)
      PROVE  command_count[b] <= command_count'[b] \/ Reviving(b)
  BY <1>1, <1>3 DEF ReplayReset, Reviving, TypeInv, TypeOK
<1>4. ASSUME NEW c \in Command, AddCount(c) PROVE command_count[b] <= command_count'[b]
  BY <1>1, <1>4 DEF AddCount, TypeInv, TypeOK
<1> QED
  BY <1>2, <1>3, <1>4
  DEF Step, Crash, MarkInactive, Reconnect, Revive, ReplaySend, ReplayEnd, ReplayFail, Perform, Begin,
    Write, Handler, CheckPrimary, ConnectPrimary, Answer, AnswerFail, Report, ReportFail, CheckBackup,
    ConnectBackup, ConnectBackupFail, AddRead, AddStore, AddOverrun, queue

\* The layer is kept.
LEMMA NextEarned == ASSUME TypeInv, Awake, Earned, Next PROVE Earned'
<1>1. Step /\ Grown /\ \A c \in Command : step[c] # "torn"
  BY HistoryGrows DEF Next, Torn, TypeInv
<1>2. /\ step \in [Command -> Steps] /\ at \in [Command -> Server]
      /\ command_count \in [Backup -> 0..Most] /\ z \in [Command -> 0..Most] /\ Most \in Nat
      /\ command_count' \in [Backup -> 0..Most]
  BY <1>1, SizeIsNat, NextQueue DEF TypeInv, TypeOK, Steps, QueueOK
\* One that has read the count already.
<1>3. ASSUME NEW c \in Command, step[c] = "store", at'[c] = at[c], z'[c] = z[c]
      PROVE  <<at[c], c>> \in seen'.late \/ z'[c] <= command_count'[at[c]]
  <2>1. at[c] \in Backup /\ (<<at[c], c>> \in seen.late \/ z[c] <= command_count[at[c]])
    BY <1>3 DEF TypeInv, Placed, PlacedAt, Adding, Earned
  <2>2. Reviving(at[c]) => <<at[c], c>> \in seen.late
    BY <1>3, <2>1 DEF Awake, RevivingIsActive, AddersAreLate, Adding
  <2>3. command_count[at[c]] \in Int /\ command_count'[at[c]] \in Int /\ z[c] \in Int
    BY <1>2, <2>1
  <2>4. command_count[at[c]] <= command_count'[at[c]] \/ Reviving(at[c])
    BY <1>1, <2>1, CountFalls
  <2> QED BY <1>1, <1>3, <2>1, <2>2, <2>3, <2>4 DEF Grown
<1> SUFFICES ASSUME NEW c \in Command, step'[c] \in {"store", "torn"}
             PROVE  /\ <<at'[c], c>> \in seen'.late \/ z'[c] <= command_count'[at'[c]]
                    /\ step'[c] = "torn" => z'[c] >= QueueSize
  BY DEF Earned
<1>4. CASE step'[c] = step[c] /\ at'[c] = at[c] /\ z'[c] = z[c]
  BY <1>1, <1>3, <1>4
<1>5. CASE AddRead(c)
  <2>1. /\ at[c] \in Backup /\ UNCHANGED <<at, command_count>> /\ step'[c] = "store"
        /\ z' = [z EXCEPT ![c] = command_count[at[c]]]
    BY <1>2, <1>5, ToMoves DEF AddRead, To, queue, TypeInv, Placed, PlacedAt, Steps, Adding
  <2> QED BY <1>2, <2>1
<1>6. CASE AddOverrun(c)
  <2>1. UNCHANGED <<at, z>> /\ step[c] = "store" /\ z[c] >= QueueSize
    BY <1>6 DEF AddOverrun, To
  <2> QED BY <1>3, <2>1
<1>7. CASE Elsewhere
  BY <1>4, <1>7, OthersMove
<1>8. ASSUME NEW d \in Command, d # c, Moves(d)
      PROVE  step'[c] = step[c] /\ at'[c] = at[c] /\ z'[c] = z[c]
  <2>1. z'[c] = z[c]
    BY <1>2, <1>8
    DEF Moves, Begin, Write, Handler, CheckPrimary, ConnectPrimary, Answer, AnswerFail, Report, ReportFail,
      CheckBackup, ConnectBackup, ConnectBackupFail, AddRead, AddStore, AddOverrun, AddCount, thread
  <2> QED BY <1>2, <1>8, <2>1, ThreadMoves
<1>9. CASE Moves(c) /\ ~AddRead(c) /\ ~AddOverrun(c)
  <2>1. \A from \in Steps : ~Proceed(c, from)
    BY <1>2, ProceedMoves
  <2>2. \A from \in Steps, to \in Steps \ {"store", "torn"} : ~To(c, from, to)
    BY <1>2, ToMoves
  <2> QED BY <1>9, <2>1, <2>2
      DEF Moves, Begin, Write, Handler, CheckPrimary, ConnectPrimary, Answer, AnswerFail, Report, ReportFail,
        CheckBackup, ConnectBackup, ConnectBackupFail, AddStore, AddCount, Steps, Adding
<1> QED BY <1>1, <1>4, <1>5, <1>6, <1>7, <1>8, <1>9, NextSplit

-----------------------------------------------------------------------------
(* The layers together.                                                    *)
Basis == TypeInv /\ Awake /\ QueueInv /\ Earned

\* At the start everything has its type.
LEMMA InitType == Init => TypeInv
<1> SUFFICES ASSUME Init PROVE TypeInv
  OBVIOUS
<1>1. QueueSize \in Nat /\ Most \in Nat
  BY SizeIsNat
<1>2. TypeOK
  <2>1. /\ up \in [Server -> BOOLEAN] /\ is_active \in [Server -> BOOLEAN]
        /\ crashes \in 0..MaxCrashes /\ kind \in [Command -> Kinds]
    BY CommandAssumption, GivenAssumption DEF Init
  <2>2. QueueOK
    BY <1>1 DEF Init, QueueOK
  <2>3. step \in [Command -> Steps] /\ at \in [Command -> Server]
    BY DEF Init, Steps, Server
  <2>4. /\ sent \subseteq Server \X Command /\ after \in [Command -> SUBSET Command]
        /\ seen \in History
    BY DEF Init, History
  <2>5. applied \in [Server -> Seq(Command \cup {Garbage})]
    BY DEF Init
  <2> QED BY <2>1, <2>2, <2>3, <2>4, <2>5 DEF TypeOK, QueueOK, Steps
<1>3. Placed
  BY DEF Init, Placed, PlacedAt, Adding
<1>4. Cursor
  BY DEF Init, Cursor
<1>5. Counts
  BY FS_EmptySet DEF Init, Counts
<1> QED BY <1>2, <1>3, <1>4, <1>5 DEF TypeInv

\* A step in which nothing happens changes nothing of it.
LEMMA BasisRests == ASSUME Basis, UNCHANGED vars PROVE Basis'
<1>1. UNCHANGED <<kind, up, is_active, crashes, commands, command_count, replay, pos, step, at, z,
                  sent, applied, after, queued, seen>>
  BY DEF vars, servers, queue, revival, thread
<1>2. TypeInv'
  BY <1>1 DEF Basis, TypeInv, TypeOK, Placed, PlacedAt, Cursor, Counts, Left, Most
<1>3. Awake'
  BY <1>1 DEF Basis, Awake, UpIsActive, RevivingIsActive, AddersAreLate, Emptied, SentToUp, Reviving,
    IsLate
<1>4. PosRests'
  BY <1>1 DEF Basis, QueueInv, PosRests, Reviving
<1>5. \A b \in Backup : QueueOf(b)'
  BY <1>1 DEF Basis, QueueInv, QueueOf, Calm, Confused, OneFills, FillsNext, FilledIs, WaitingAre, Filling,
    Waiting
<1>6. Earned'
  BY <1>1 DEF Basis, Earned
<1> QED BY <1>2, <1>3, <1>4, <1>5, <1>6 DEF Basis, QueueInv

\* The layers hold in every reachable state.
THEOREM BasisHolds == Spec => []Basis
<1>1. Init => Basis
  BY InitType, InitAwake, InitQueue, InitEarned DEF Basis
<1>2. Basis /\ [Next]_vars => Basis'
  <2>1. Basis /\ Next => Basis'
    <3>1. Next => Step
      BY DEF Next
    <3> QED BY <3>1, NextType, NextAwake, NextQueueInv, NextEarned DEF Basis
  <2> QED BY <2>1, BasisRests
<1> QED BY <1>1, <1>2, PTL DEF Spec

\* Every variable keeps its type, whatever the number of places in a queue, of
\* commands and of crashes: a count is never more than there are commands, but
\* it may be more than there are places (addcommand, naming_server.c:86-96).
THEOREM TypeCorrect == Spec => []TypeOK
<1>1. Basis => TypeOK
  BY DEF Basis, TypeInv
<1> QED BY <1>1, BasisHolds, PTL

\* A backup that is back and has been sent its queue has nothing left in it,
\* unless a command was about to be queued as it came back
\* (naming_server.c:86-96, 1128-1172).
THEOREM QueueSent == Spec => []QueueIsSent
<1>1. Basis => QueueIsSent
  BY DEF Basis, Awake, Emptied, IsLate, QueueIsSent
<1> QED BY <1>1, BasisHolds, PTL

\* A command is stored behind the end of a queue only if as many as it has
\* places were counted since it was last emptied, or the backup came back while
\* that command was about to be queued (naming_server.c:86-96, 1208-1210).
THEOREM OverrunEarned == Spec => []OverrunIsEarned
<1>1. Basis => OverrunIsEarned
  <2> SUFFICES ASSUME Basis, NEW c \in Command, step[c] = "torn", <<at[c], c>> \notin seen.late
               PROVE  Cardinality(queued[at[c]]) >= QueueSize
    BY DEF OverrunIsEarned
  <2>1. at[c] \in Backup /\ z[c] <= command_count[at[c]] /\ z[c] >= QueueSize
    BY DEF Basis, Earned, TypeInv, Placed, PlacedAt
  <2>2. /\ command_count[at[c]] = Cardinality(queued[at[c]])
        /\ command_count[at[c]] \in Int /\ z[c] \in Int /\ QueueSize \in Int
    BY <2>1, SizeIsNat DEF Basis, TypeInv, TypeOK, Counts
  <2> QED BY <2>1, <2>2
<1> QED BY <1>1, BasisHolds, PTL
=============================================================================
