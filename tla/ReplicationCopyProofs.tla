----------------------- MODULE ReplicationCopyProofs -----------------------
(***************************************************************************)
(* What Replication promises of the copies: that a backup carries nothing  *)
(* out twice, nothing the primary has not, nothing before what was over    *)
(* when it began, and what the primary has carried out as well, each with  *)
(* its exceptions.  The layers go on from ReplicationProofs: what each     *)
(* step does to a backup, where a command is on its way to it, what the    *)
(* primary knows of, what nobody has dropped, and the order.               *)
(***************************************************************************)
EXTENDS ReplicationProofs

-----------------------------------------------------------------------------
(* What comes to a backup.  Of each step only a little matters to what is   *)
(* on its way to a backup, waits in its queue or has been carried out.      *)
OnWay(b)  == {c \in Command : <<b, c>> \in sent}
Queued(b) == {commands[b][i] : i \in Waiting(b)}
Has(b)    == Elements(applied[b])

\* Has the handler of c sent it to b, or queued it?  Is it past b at all?
Done(b, c) == at[c] > b \/ (at[c] = b /\ step[c] \in {"wait", "end"})
Past(b, c) == at[c] > b \/ (at[c] = b /\ step[c] = "wait") \/ step[c] = "end"

SameEntries(b) == \A i \in Waiting(b) : commands'[b][i] = commands[b][i]
SameQueue(b)   == Waiting(b)' = Waiting(b) /\ SameEntries(b)

Still(b) ==
  /\ SameQueue(b) /\ applied'[b] = applied[b]
  /\ OnWay(b)' \subseteq OnWay(b)
  /\ \A c \in OnWay(b) \ OnWay(b)' : <<b, c>> \in seen'.cutoff

Replays(b) ==
  /\ pos[b] + 1 \in Waiting(b) /\ Waiting(b)' = Waiting(b) \ {pos[b] + 1} /\ SameEntries(b)
  /\ \A i \in Waiting(b) : pos[b] + 1 <= i
  /\ applied'[b] = Append(applied[b], commands[b][pos[b] + 1])
  /\ OnWay(b)' = OnWay(b)

Resets(b) ==
  /\ replay[b] = "reset" /\ Waiting(b)' = {}
  /\ applied'[b] = applied[b] /\ OnWay(b)' = OnWay(b)

Performs(b, c) ==
  /\ c \in OnWay(b) /\ OnWay(b)' = OnWay(b) \ {c}
  /\ SameQueue(b)
  /\ \/ applied'[b] = Append(applied[b], c)
     \/ applied'[b] = Append(applied[b], Garbage) /\ c \in seen'.halved
     \/ applied'[b] = applied[b] /\ <<b, c>> \in seen'.refused

Turns(b, c) == at[c] = b /\ step[c] # "idle" /\ ~Done(b, c) /\ Done(b, c)'

SentTo(b, c) ==
  /\ Turns(b, c)
  /\ OnWay(b)' = OnWay(b) \cup {c} /\ SameQueue(b) /\ applied'[b] = applied[b]
  /\ up[b]
  /\ Reviving(b) \/ OnWay(b) # {} => <<b, c>> \in seen'.overtook

QueuedFor(b, c) ==
  /\ Turns(b, c) /\ step[c] \in Adding
  /\ Waiting(b)' = Waiting(b) \cup {command_count[b] + 1} /\ SameEntries(b)
  /\ commands'[b][command_count[b] + 1] = c
  /\ \A i \in Waiting(b) : i < command_count[b] + 1
  /\ OnWay(b)' = OnWay(b) /\ applied'[b] = applied[b]

Traffic(b) ==
  Still(b) \/ Replays(b) \/ Resets(b) \/ \E c \in Command : Performs(b, c) \/ SentTo(b, c) \/ QueuedFor(b, c)

\* What is done stays done.
LEMMA DoneStays ==
  ASSUME TypeOK, Step, NEW b \in Backup, NEW c \in Command
  PROVE  (Done(b, c) => Done(b, c)') /\ (Past(b, c) => Past(b, c)')
<1>1. step \in [Command -> Steps] /\ at \in [Command -> Server]
  BY DEF TypeOK, Steps
<1>2. CASE Elsewhere
  BY <1>2, OthersMove DEF Done, Past
<1>3. ASSUME NEW d \in Command, Moves(d) PROVE (Done(b, c) => Done(b, c)') /\ (Past(b, c) => Past(b, c)')
  <2>1. CASE c # d
    BY <1>1, <1>3, <2>1, ThreadMoves DEF Done, Past
  <2>2. CASE c = d /\ at'[c] = at[c] + 1
    <3>1. at[c] \in 0..2
      BY <1>1 DEF Server
    <3>2. step[c] # "end"
      BY <1>1, <1>3, <2>2, ThreadMoves
    <3> QED BY <2>2, <3>1, <3>2 DEF Done, Past, Backup
  <2>3. CASE c = d /\ at'[c] = at[c]
    <3>1. step[c] = "wait" => step'[c] = "end"
      <4> SUFFICES ASSUME step[c] = "wait" PROVE step'[c] = "end"
        OBVIOUS
      <4>1. CASE AnswerFail(c)
        BY <1>1, <4>1, ToMoves DEF AnswerFail, Steps
      <4>2. CASE Answer(c)
        BY <1>1, <2>3, <4>2, ProceedMoves DEF Answer, Steps, Server
      <4> QED BY <1>3, <2>3, <4>1, <4>2
          DEF Moves, Begin, Write, Handler, CheckPrimary, ConnectPrimary, Report, ReportFail, CheckBackup,
            ConnectBackup, ConnectBackupFail, AddRead, AddStore, AddOverrun, AddCount, To, Proceed
    <3>2. step[c] # "end"
      BY <1>1, <1>3, <2>3, ThreadMoves
    <3> QED BY <2>3, <3>1, <3>2 DEF Done, Past
  <2> QED BY <1>1, <1>3, <2>1, <2>2, <2>3, ThreadMoves
<1> QED BY <1>2, <1>3, NextSplit

\* Where a step does nothing to a backup's queue or what it has carried out.
LEMMA StillHere ==
  ASSUME NEW b \in Backup, UNCHANGED <<commands, command_count, pos>>, applied'[b] = applied[b],
         OnWay(b)' = OnWay(b)
  PROVE  Still(b)
BY DEF Still, SameQueue, SameEntries, Waiting

\* What the steps outside the handlers do to a backup.
LEMMA ElsewhereTraffic ==
  ASSUME TypeInv, Awake, QueueInv, Elsewhere, NEW b \in Backup, Calm(b)' PROVE Traffic(b)
<1>1. QueueOK /\ TypeOK /\ applied \in [Server -> Seq(Command \cup {Garbage})]
      /\ Backup \subseteq Server /\ sent \subseteq Server \X Command /\ seen \in History
      /\ QueueSize \in Nat
  BY SizeIsNat DEF TypeInv, TypeOK, QueueOK, Backup, Server
<1>2. CASE UNCHANGED <<queue, pos, applied, sent>>
  BY <1>2, StillHere DEF Traffic, OnWay, queue
<1>8. WaitingAre(b)
  BY NextSplit, HistoryGrows, LateStays DEF TypeInv, Calm, QueueInv, QueueOf
<1>3. ASSUME NEW s \in Server, Crash(s) PROVE Traffic(b)
  <2>1. UNCHANGED <<commands, command_count, pos, applied>>
    BY <1>3 DEF Crash, queue, revival
  <2>2. /\ sent' = {m \in sent : m[1] # s}
        /\ \A m \in sent : m[1] = s => m \in seen'.cutoff
    BY <1>1, <1>3 DEF Crash, History
  <2>3. SameQueue(b)
    BY <2>1 DEF SameQueue, SameEntries, Waiting
  <2>4. OnWay(b)' \subseteq OnWay(b) /\ \A c \in OnWay(b) \ OnWay(b)' : <<b, c>> \in seen'.cutoff
    BY <2>2 DEF OnWay
  <2> QED BY <2>1, <2>3, <2>4 DEF Traffic, Still
<1>4. ASSUME NEW s \in Server, Reconnect(s) PROVE Traffic(b)
  <2>1. /\ ~is_active[s] /\ UNCHANGED <<commands, command_count, applied, sent>>
        /\ pos' = [x \in Backup |-> IF x = s THEN 0 ELSE pos[x]]
    BY <1>4 DEF Reconnect, queue
  <2>2. b = s => pos[b] = 0
    BY <2>1 DEF Awake, RevivingIsActive, QueueInv, PosRests
  <2>3. pos'[b] = pos[b]
    BY <2>1, <2>2
  <2>4. SameQueue(b)
    BY <2>1, <2>3 DEF SameQueue, SameEntries, Waiting
  <2>5. OnWay(b)' = OnWay(b)
    BY <2>1 DEF OnWay
  <2> QED BY <2>1, <2>4, <2>5 DEF Traffic, Still
<1>5. ASSUME NEW x \in Backup, ReplaySend(x) PROVE Traffic(b)
  <2>1. /\ UNCHANGED <<commands, command_count, sent>> /\ pos' = [pos EXCEPT ![x] = @ + 1]
        /\ \/ applied' = [applied EXCEPT ![x] = Append(@, Entry(x, pos[x] + 1))]
           \/ pos[x] >= QueueSize /\ UNCHANGED applied
    BY <1>5 DEF ReplaySend, queue, Apply
  <2>2. OnWay(b)' = OnWay(b)
    BY <2>1 DEF OnWay
  <2>3. CASE b # x
    <3>1. applied'[b] = applied[b] /\ pos'[b] = pos[b]
      BY <1>1, <2>1, <2>3 DEF QueueOK
    <3> QED BY <2>1, <2>2, <3>1 DEF Traffic, Still, SameQueue, SameEntries, Waiting
  <2>4. CASE b = x
    <3>1. pos[b] + 1 \in Waiting(b)
      BY <1>1, <1>5, <2>4, NextWaits DEF ReplaySend
    <3>2. pos'[b] = pos[b] + 1 /\ pos[b] \in Nat /\ command_count[b] \in Nat
      BY <1>1, <2>1, <2>4 DEF QueueOK
    <3>3. applied'[b] = Append(applied[b], commands[b][pos[b] + 1])
      <4>1. pos[b] + 1 <= QueueSize
        BY <1>8, <3>1 DEF WaitingAre
      <4> QED BY <1>1, <2>1, <2>4, <3>2, <4>1 DEF Entry
    <3>4. Waiting(b)' = Waiting(b) \ {pos[b] + 1} /\ \A i \in Waiting(b) : pos[b] + 1 <= i
      BY <2>1, <3>2 DEF Waiting
    <3>5. SameEntries(b)
      BY <2>1 DEF SameEntries
    <3>6. Replays(b)
      BY <2>2, <3>1, <3>3, <3>4, <3>5 DEF Replays
    <3> QED BY <3>6 DEF Traffic
  <2> QED BY <2>3, <2>4
<1>6. ASSUME NEW x \in Backup, ReplayReset(x) PROVE Traffic(b)
  <2>1. /\ UNCHANGED <<commands, sent, applied>> /\ replay[x] = "reset"
        /\ command_count' = [command_count EXCEPT ![x] = 0] /\ pos' = [pos EXCEPT ![x] = 0]
    BY <1>6 DEF ReplayReset
  <2>2. OnWay(b)' = OnWay(b)
    BY <2>1 DEF OnWay
  <2>3. CASE b # x
    <3>1. command_count'[b] = command_count[b] /\ pos'[b] = pos[b]
      BY <1>1, <2>1, <2>3 DEF QueueOK
    <3> QED BY <2>1, <2>2, <3>1 DEF Traffic, Still, SameQueue, SameEntries, Waiting
  <2>4. CASE b = x
    <3>1. command_count'[b] = 0
      BY <1>1, <2>1, <2>4 DEF QueueOK
    <3>2. Waiting(b)' = {}
      BY <3>1 DEF Waiting
    <3>3. Resets(b)
      BY <2>1, <2>2, <2>4, <3>2 DEF Resets
    <3> QED BY <3>3 DEF Traffic
  <2> QED BY <2>3, <2>4
<1>7. ASSUME NEW s \in Server, NEW c \in Command, Perform(s, c) PROVE Traffic(b)
  <2>1. UNCHANGED <<commands, command_count, pos>> /\ <<s, c>> \in sent /\ sent' = sent \ {<<s, c>>}
    BY <1>7 DEF Perform, queue, revival
  <2>2. CASE s # b
    <3>1. OnWay(b)' = OnWay(b)
      BY <2>1, <2>2 DEF OnWay
    <3>2. applied'[b] = applied[b]
      BY <1>1, <1>7, <2>2 DEF Perform, Apply
    <3> QED BY <2>1, <3>1, <3>2, StillHere DEF Traffic
  <2>3. CASE s = b
    <3>1. c \in OnWay(b) /\ OnWay(b)' = OnWay(b) \ {c}
      BY <2>1, <2>3 DEF OnWay
    <3>2. SameQueue(b)
      BY <2>1 DEF SameQueue, SameEntries, Waiting
    <3>3. \/ applied'[b] = Append(applied[b], c)
          \/ applied'[b] = Append(applied[b], Garbage) /\ c \in seen'.halved
          \/ applied'[b] = applied[b] /\ <<b, c>> \in seen'.refused
      <4>1. CASE Apply(s, IF c \in seen.halved THEN Garbage ELSE c) /\ UNCHANGED seen
        BY <1>1, <2>3, <4>1 DEF Apply
      <4>2. CASE seen' = [seen EXCEPT !.refused = @ \cup {<<s, c>>}] /\ UNCHANGED applied
        BY <1>1, <2>3, <4>2 DEF History
      <4> QED BY <1>7, <4>1, <4>2 DEF Perform
    <3> QED BY <3>1, <3>2, <3>3 DEF Traffic, Performs
  <2> QED BY <2>2, <2>3
<1> QED
  BY <1>2, <1>3, <1>4, <1>5, <1>6, <1>7
  DEF Elsewhere, MarkInactive, Revive, ReplayEnd, ReplayFail, revival

\* A handler that counts a command has queued it.
LEMMA CountQueues ==
  ASSUME TypeInv, QueueInv, NEW c \in Command, AddCount(c), NEW b \in Backup, at[c] = b, Calm(b)
  PROVE  QueuedFor(b, c)
<1>1. QueueOK /\ step \in [Command -> Steps] /\ at \in [Command -> Server]
  BY DEF TypeInv, TypeOK, QueueOK, Steps
<1>2. FillsNext(b) /\ FilledIs(b)
  BY DEF QueueInv, QueueOf
<1>3. step[c] = "count" /\ ((step'[c] = "end" /\ at'[c] = b) \/ at'[c] = b + 1)
  BY <1>1, ProceedMoves DEF AddCount, Steps, Adding
<1>4. /\ UNCHANGED <<commands, pos, applied, sent>>
      /\ command_count' = [command_count EXCEPT ![b] = @ + 1]
  BY DEF AddCount, revival
<1>5. OnWay(b)' = OnWay(b) /\ SameEntries(b)
  BY <1>4 DEF OnWay, SameEntries
<1>6. Turns(b, c) /\ step[c] \in Adding
  BY <1>3 DEF Turns, Done, Backup, Adding
<1>7. /\ command_count[b] \in Nat /\ pos[b] \in Nat /\ pos[b] <= command_count[b]
      /\ command_count'[b] = command_count[b] + 1 /\ pos'[b] = pos[b]
  BY <1>1, <1>4 DEF QueueOK, TypeInv, Cursor
<1>8. /\ Waiting(b)' = Waiting(b) \cup {command_count[b] + 1}
      /\ \A i \in Waiting(b) : i < command_count[b] + 1
  BY <1>7 DEF Waiting
<1>9. commands'[b][command_count[b] + 1] = c
  <2>1. c \in Filling(b)
    BY <1>3 DEF Filling
  <2> QED BY <1>2, <1>3, <1>4, <2>1 DEF FillsNext, FilledIs
<1> QED BY <1>4, <1>5, <1>6, <1>8, <1>9 DEF QueuedFor

\* A step of a handler, as one backup whose queue is not misused sees it.
LEMMA ThreadTraffic ==
  ASSUME TypeInv, QueueInv, NEW c \in Command, Moves(c), NEW b \in Backup, Calm(b)'
  PROVE  Traffic(b)
<1>1. /\ QueueOK /\ TypeOK /\ QueueSize \in Nat
      /\ step \in [Command -> Steps] /\ at \in [Command -> Server]
      /\ applied \in [Server -> Seq(Command \cup {Garbage})] /\ b \in Server /\ b # 0
      /\ sent \subseteq Server \X Command /\ seen \in History
  BY SizeIsNat DEF TypeInv, TypeOK, QueueOK, Steps, Backup, Server
<1>2. Calm(b)
  BY NextSplit, HistoryGrows, LateStays DEF TypeInv, Calm
<1>3. OneFills(b) /\ FillsNext(b) /\ FilledIs(b) /\ WaitingAre(b)
  BY <1>2 DEF QueueInv, QueueOf
<1>4. CASE UNCHANGED <<commands, command_count, pos>> /\ applied'[b] = applied[b] /\ OnWay(b)' = OnWay(b)
  BY <1>4, StillHere DEF Traffic
<1>5. CASE Begin(c) \/ CheckPrimary(c) \/ Answer(c) \/ AnswerFail(c) \/ Report(c) \/ ReportFail(c)
           \/ CheckBackup(c) \/ ConnectBackupFail(c) \/ AddRead(c)
  <2>1. UNCHANGED <<commands, command_count, pos, applied, sent>>
    BY <1>5 DEF Begin, CheckPrimary, Answer, AnswerFail, Report, ReportFail, CheckBackup,
      ConnectBackupFail, AddRead, queue, revival
  <2> QED BY <1>4, <2>1 DEF OnWay
<1>6. CASE Write(c)
  <2>1. UNCHANGED <<commands, command_count, pos, sent>> /\ applied' = [applied EXCEPT ![0] = Append(@, c)]
    BY <1>6 DEF Write, Apply, queue, revival
  <2> QED BY <1>1, <1>4, <2>1 DEF OnWay
<1>7. CASE ConnectPrimary(c)
  <2>1. /\ UNCHANGED <<commands, command_count, pos, applied>>
        /\ sent' = sent \cup {<<0, c>>} \/ sent' = sent
    BY <1>7 DEF ConnectPrimary, queue, revival
  <2> QED BY <1>1, <1>4, <2>1 DEF OnWay
<1>8. CASE ConnectBackup(c)
  <2>1. /\ UNCHANGED <<commands, command_count, pos, applied>>
        /\ sent' = sent \cup {<<at[c], c>>}
    BY <1>8 DEF ConnectBackup, queue, revival
  <2>2. CASE at[c] # b
    BY <1>4, <2>1, <2>2 DEF OnWay
  <2>3. CASE at[c] = b
    <3>1. OnWay(b)' = OnWay(b) \cup {c}
      BY <2>1, <2>3 DEF OnWay
    <3>2. SameQueue(b)
      BY <2>1 DEF SameQueue, SameEntries, Waiting
    <3>3. up[b]
      BY <1>8, <2>3 DEF ConnectBackup
    <3>4. step[c] = "connect"
          /\ (\/ step'[c] = "wait" /\ at'[c] = b
              \/ step'[c] = "end" /\ at'[c] = b
              \/ at'[c] = b + 1)
      <4>1. CASE To(c, "connect", "wait") /\ UNCHANGED at
        BY <1>1, <2>3, <4>1, ToMoves DEF Steps
      <4>2. CASE Proceed(c, "connect")
        BY <1>1, <2>3, <4>2, ProceedMoves DEF Steps
      <4> QED BY <1>8, <4>1, <4>2 DEF ConnectBackup
    <3>5. Turns(b, c)
      BY <2>3, <3>4 DEF Turns, Done, Backup
    <3>6. seen' = [seen EXCEPT !.overtook = @ \cup
             {m \in {<<b, c>>} : Reviving(b) \/ \E n \in sent : n[1] = b}]
      BY <1>8, <2>3 DEF ConnectBackup
    <3>7. OnWay(b) # {} => \E n \in sent : n[1] = b
      BY DEF OnWay
    <3>8. Reviving(b) \/ OnWay(b) # {} => <<b, c>> \in seen'.overtook
      BY <1>1, <3>6, <3>7 DEF History
    <3>9. SentTo(b, c)
      BY <2>1, <3>1, <3>2, <3>3, <3>5, <3>8 DEF SentTo
    <3> QED BY <3>9 DEF Traffic
  <2> QED BY <2>2, <2>3
<1>9. CASE AddStore(c)
  <2>1. PICK x \in Backup : at[c] = x
    BY <1>9 DEF AddStore, To, TypeInv, Placed, PlacedAt, Adding
  <2>2. /\ UNCHANGED <<command_count, pos, applied, sent>>
        /\ commands' = [commands EXCEPT ![x][z[c] + 1] = c] /\ step[c] = "store"
    BY <1>9, <2>1 DEF AddStore, To, revival
  <2>3. Waiting(b)' = Waiting(b) /\ OnWay(b)' = OnWay(b)
    BY <2>2 DEF Waiting, OnWay
  <2>4. SameEntries(b)
    <3>1. CASE x # b
      BY <1>1, <2>2, <3>1 DEF SameEntries, QueueOK
    <3>2. CASE x = b
      <4>1. z[c] = command_count[b]
        BY <1>3, <2>1, <2>2, <3>2 DEF FillsNext, Filling
      <4>2. command_count[b] \in Nat /\ \A i \in Waiting(b) : i # command_count[b] + 1
        BY <1>1 DEF Waiting, QueueOK
      <4>3. commands'[b] = [commands[b] EXCEPT ![command_count[b] + 1] = c]
        BY <1>1, <2>2, <3>2, <4>1 DEF QueueOK
      <4>4. \A i \in Waiting(b) : i \in 1..QueueSize
        BY <1>1, <1>3 DEF WaitingAre, Waiting, QueueOK
      <4> QED BY <1>1, <4>2, <4>3, <4>4 DEF SameEntries, QueueOK
    <3> QED BY <3>1, <3>2
  <2> QED BY <2>2, <2>3, <2>4 DEF Traffic, Still, SameQueue
<1>10. CASE AddCount(c)
  <2>1. PICK x \in Backup : at[c] = x /\ step[c] = "count"
    BY <1>10 DEF AddCount, Proceed, TypeInv, Placed, PlacedAt, Adding
  <2>2. /\ UNCHANGED <<commands, pos, applied, sent>>
        /\ command_count' = [command_count EXCEPT ![x] = @ + 1]
    BY <1>10, <2>1 DEF AddCount, revival
  <2>3. OnWay(b)' = OnWay(b) /\ SameEntries(b)
    BY <2>2 DEF OnWay, SameEntries
  <2>4. CASE x # b
    <3>1. Waiting(b)' = Waiting(b)
      BY <1>1, <2>2, <2>4 DEF Waiting, QueueOK
    <3> QED BY <2>2, <2>3, <3>1 DEF Traffic, Still, SameQueue
  <2>5. CASE x = b
    BY <1>2, <1>10, <2>1, <2>5, CountQueues DEF Traffic
  <2> QED BY <2>4, <2>5
<1>11. CASE AddOverrun(c)
  BY <1>4, <1>11 DEF AddOverrun, OnWay, queue, revival
<1> QED BY <1>5, <1>6, <1>7, <1>8, <1>9, <1>10, <1>11 DEF Moves, Handler

\* Every step is one of the kinds of traffic.
LEMMA NextTraffic == ASSUME Basis, Step, NEW b \in Backup, Calm(b)' PROVE Traffic(b)
BY NextSplit, ElsewhereTraffic, ThreadTraffic DEF Basis

-----------------------------------------------------------------------------
(* A command is at one place on its way to a backup, and once.             *)
Handled(b)     == \A c \in Command : c \in OnWay(b) \cup Queued(b) \cup Has(b) => Done(b, c)
Apart(b)       == \A c \in Command : /\ c \in OnWay(b) => c \notin Queued(b) \cup Has(b)
                                     /\ c \in Queued(b) => c \notin Has(b)
QueuedOnce(b)  == \A i, j \in Waiting(b) : commands[b][i] = commands[b][j] => i = j
AppliedOnce(b) ==
  \A i, j \in 1..Len(applied[b]) : applied[b][i] = applied[b][j] /\ applied[b][i] # Garbage => i = j
Known(b)       == Has(b) \subseteq Command \cup {Garbage}

FlowOf(b) == Calm(b) => Handled(b) /\ Apart(b) /\ QueuedOnce(b) /\ AppliedOnce(b) /\ Known(b)
Flow      == \A b \in Backup : FlowOf(b)

\* At the start nothing is anywhere.
LEMMA InitFlow == Init => Flow
<1> SUFFICES ASSUME Init, NEW b \in Backup PROVE FlowOf(b)
  BY DEF Flow
<1>1. sent = {} /\ command_count[b] = 0 /\ applied[b] = <<>>
  BY DEF Init, Backup, Server
<1>2. OnWay(b) = {} /\ Waiting(b) = {} /\ 1..Len(applied[b]) = {}
  BY <1>1 DEF OnWay, Waiting
<1>3. Queued(b) = {} /\ Has(b) = {}
  BY <1>2 DEF Queued, Has, Elements
<1> QED BY <1>2, <1>3 DEF FlowOf, Handled, Apart, QueuedOnce, AppliedOnce, Known

\* What is appended comes to the elements.
LEMMA AppendElements ==
  ASSUME NEW S, NEW q \in Seq(S), NEW x \in S
  PROVE  /\ Elements(Append(q, x)) = Elements(q) \cup {x}
         /\ Len(Append(q, x)) = Len(q) + 1 /\ Len(q) \in Nat
         /\ Append(q, x)[Len(q) + 1] = x
         /\ \A i \in 1..Len(q) : Append(q, x)[i] = q[i] /\ q[i] \in Elements(q)
<1>1. /\ Len(Append(q, x)) = Len(q) + 1 /\ Len(q) \in Nat
      /\ Append(q, x)[Len(q) + 1] = x
      /\ \A i \in 1..Len(q) : Append(q, x)[i] = q[i]
  OBVIOUS
<1>2. \A i \in 1..Len(q) : q[i] \in Elements(q)
  BY DEF Elements
<1>3. 1..(Len(q) + 1) = 1..Len(q) \cup {Len(q) + 1}
  BY <1>1
<1>4. Elements(Append(q, x)) = Elements(q) \cup {x}
  BY <1>1, <1>3 DEF Elements
<1> QED BY <1>1, <1>2, <1>4

\* What comes to a backup for the first time keeps it free of doubles.
LEMMA AppendOnce ==
  ASSUME NEW b \in Backup, NEW S, applied[b] \in Seq(S), NEW x \in S, AppliedOnce(b),
         applied'[b] = Append(applied[b], x), x = Garbage \/ x \notin Has(b)
  PROVE  AppliedOnce(b)' /\ Has(b)' = Has(b) \cup {x}
<1>1. Has(b)' = Has(b) \cup {x}
  BY AppendElements DEF Has
<1>2. AppliedOnce(b)'
  <2> SUFFICES ASSUME NEW i \in 1..Len(applied'[b]), NEW j \in 1..Len(applied'[b]),
                      applied'[b][i] = applied'[b][j], applied'[b][i] # Garbage
               PROVE  i = j
    BY DEF AppliedOnce
  <2> DEFINE n == Len(applied[b])
  <2>1. /\ Len(applied'[b]) = n + 1 /\ n \in Nat /\ applied'[b][n + 1] = x
        /\ \A k \in 1..n : applied'[b][k] = applied[b][k] /\ applied[b][k] \in Has(b)
    BY AppendElements DEF Has
  <2>2. i \in 1..n \/ i = n + 1
    BY <2>1
  <2>3. j \in 1..n \/ j = n + 1
    BY <2>1
  <2> HIDE DEF n
  <2>4. CASE i \in 1..n /\ j \in 1..n
    BY <2>1, <2>4 DEF AppliedOnce, n
  <2>5. CASE i \in 1..n /\ j = n + 1
    BY <2>1, <2>5
  <2>6. CASE i = n + 1 /\ j \in 1..n
    BY <2>1, <2>6
  <2> QED BY <2>2, <2>3, <2>4, <2>5, <2>6
<1> QED BY <1>1, <1>2

\* What the kinds of traffic do to the queue as a set.
LEMMA QueueMoves ==
  ASSUME NEW b \in Backup, QueuedOnce(b)
  PROVE  /\ SameQueue(b) => Queued(b)' = Queued(b) /\ QueuedOnce(b)'
         /\ Waiting(b)' = {} => Queued(b)' = {} /\ QueuedOnce(b)'
         /\ Replays(b) => /\ Queued(b)' = Queued(b) \ {commands[b][pos[b] + 1]} /\ QueuedOnce(b)'
                          /\ commands[b][pos[b] + 1] \in Queued(b)
         /\ \A c : QueuedFor(b, c) => /\ Queued(b)' = Queued(b) \cup {c}
                                      /\ c \notin Queued(b) => QueuedOnce(b)'
<1> USE DEF Queued, QueuedOnce
<1>1. ASSUME SameQueue(b) PROVE Queued(b)' = Queued(b) /\ QueuedOnce(b)'
  BY <1>1 DEF SameQueue, SameEntries
<1>2. ASSUME Waiting(b)' = {} PROVE Queued(b)' = {} /\ QueuedOnce(b)'
  BY <1>2
<1>3. ASSUME Replays(b)
      PROVE  /\ Queued(b)' = Queued(b) \ {commands[b][pos[b] + 1]} /\ QueuedOnce(b)'
             /\ commands[b][pos[b] + 1] \in Queued(b)
  <2>1. /\ pos[b] + 1 \in Waiting(b) /\ Waiting(b)' = Waiting(b) \ {pos[b] + 1}
        /\ \A i \in Waiting(b) : commands'[b][i] = commands[b][i]
    BY <1>3 DEF Replays, SameEntries
  <2> QED BY <2>1
<1>4. ASSUME NEW c, QueuedFor(b, c)
      PROVE  /\ Queued(b)' = Queued(b) \cup {c}
             /\ c \notin Queued(b) => QueuedOnce(b)'
  <2>1. /\ Waiting(b)' = Waiting(b) \cup {command_count[b] + 1}
        /\ commands'[b][command_count[b] + 1] = c
        /\ \A i \in Waiting(b) : commands'[b][i] = commands[b][i]
    BY <1>4 DEF QueuedFor, SameEntries
  <2> QED BY <2>1
<1> QED BY <1>1, <1>2, <1>3, <1>4

\* The layer is kept.
LEMMA NextFlow == ASSUME Basis, Flow, Step PROVE Flow'
<1> SUFFICES ASSUME NEW b \in Backup, Calm(b)'
             PROVE  (Handled(b) /\ Apart(b) /\ QueuedOnce(b) /\ AppliedOnce(b) /\ Known(b))'
  BY DEF Flow, FlowOf
<1>1. Calm(b) /\ Traffic(b)
  BY NextTraffic, HistoryGrows, LateStays DEF Basis, TypeInv, Calm
<1>2. Handled(b) /\ Apart(b) /\ QueuedOnce(b) /\ AppliedOnce(b) /\ Known(b) /\ Queued(b) \subseteq Command
  BY <1>1 DEF Flow, FlowOf, Basis, QueueInv, QueueOf, WaitingAre, Queued
<1>3. /\ \A c \in Command : Done(b, c) => Done(b, c)'
      /\ applied[b] \in Seq(Command \cup {Garbage})
      /\ OnWay(b) \subseteq Command /\ Garbage \notin Command
  BY DoneStays, CommandAssumption DEF Basis, TypeInv, TypeOK, OnWay, Backup, Server
<1>4. CASE Still(b) \/ Resets(b)
  <2>1. /\ Has(b)' = Has(b) /\ OnWay(b)' \subseteq OnWay(b)
        /\ Queued(b)' \subseteq Queued(b) /\ QueuedOnce(b)' /\ AppliedOnce(b)'
    BY <1>2, <1>4, QueueMoves DEF Still, Resets, Has, AppliedOnce
  <2> QED BY <1>2, <1>3, <2>1 DEF Handled, Apart, Known
<1>5. CASE Replays(b)
  <2>1. PICK x : x = commands[b][pos[b] + 1]
    OBVIOUS
  <2>2. /\ Queued(b)' = Queued(b) \ {x} /\ QueuedOnce(b)' /\ x \in Queued(b) /\ x \in Command
        /\ OnWay(b)' = OnWay(b) /\ applied'[b] = Append(applied[b], x)
    BY <1>2, <1>5, <2>1, QueueMoves DEF Replays
  <2>3. x \notin Has(b) /\ x \notin OnWay(b)
    BY <1>2, <2>2 DEF Apart
  <2>4. AppliedOnce(b)' /\ Has(b)' = Has(b) \cup {x}
    BY <1>2, <1>3, <2>2, <2>3, AppendOnce
  <2> QED BY <1>2, <1>3, <2>2, <2>3, <2>4 DEF Handled, Apart, Known
<1>6. ASSUME NEW c \in Command, Performs(b, c)
      PROVE  (Handled(b) /\ Apart(b) /\ QueuedOnce(b) /\ AppliedOnce(b) /\ Known(b))'
  <2>1. /\ c \in OnWay(b) /\ OnWay(b)' = OnWay(b) \ {c} /\ Queued(b)' = Queued(b) /\ QueuedOnce(b)'
    BY <1>2, <1>6, QueueMoves DEF Performs
  <2>2. c \notin Has(b) /\ c \notin Queued(b)
    BY <1>2, <2>1 DEF Apart
  <2>3. CASE applied'[b] = Append(applied[b], c)
    <3>1. AppliedOnce(b)' /\ Has(b)' = Has(b) \cup {c}
      BY <1>2, <1>3, <2>2, <2>3, AppendOnce
    <3> QED BY <1>2, <1>3, <2>1, <2>2, <3>1 DEF Handled, Apart, Known
  <2>4. CASE applied'[b] = Append(applied[b], Garbage)
    <3>1. AppliedOnce(b)' /\ Has(b)' = Has(b) \cup {Garbage}
      <4>1. Garbage \in Command \cup {Garbage}
        OBVIOUS
      <4> QED BY <1>2, <1>3, <2>4, <4>1, AppendOnce
    <3> QED BY <1>2, <1>3, <2>1, <3>1 DEF Handled, Apart, Known
  <2>5. CASE applied'[b] = applied[b]
    <3>1. AppliedOnce(b)' /\ Has(b)' = Has(b)
      BY <1>2, <2>5 DEF AppliedOnce, Has
    <3> QED BY <1>2, <1>3, <2>1, <3>1 DEF Handled, Apart, Known
  <2> QED BY <1>6, <2>3, <2>4, <2>5 DEF Performs
<1>7. ASSUME NEW c \in Command, SentTo(b, c) \/ QueuedFor(b, c)
      PROVE  (Handled(b) /\ Apart(b) /\ QueuedOnce(b) /\ AppliedOnce(b) /\ Known(b))'
  <2>1. ~Done(b, c) /\ Done(b, c)' /\ applied'[b] = applied[b]
    BY <1>7 DEF SentTo, QueuedFor, Turns
  <2>2. c \notin OnWay(b) /\ c \notin Queued(b) /\ c \notin Has(b)
    BY <1>2, <2>1 DEF Handled
  <2>3. AppliedOnce(b)' /\ Has(b)' = Has(b)
    BY <1>2, <2>1 DEF AppliedOnce, Has
  <2>4. \/ OnWay(b)' = OnWay(b) \cup {c} /\ Queued(b)' = Queued(b) /\ QueuedOnce(b)'
        \/ OnWay(b)' = OnWay(b) /\ Queued(b)' = Queued(b) \cup {c} /\ QueuedOnce(b)'
    BY <1>2, <1>7, <2>2, QueueMoves DEF SentTo, QueuedFor
  <2> QED BY <1>2, <1>3, <2>1, <2>2, <2>3, <2>4 DEF Handled, Apart, Known
<1> QED BY <1>1, <1>4, <1>5, <1>6, <1>7 DEF Traffic

-----------------------------------------------------------------------------
(* What the primary knows of.  Nothing comes to a backup before the primary *)
(* has carried it out, declined it, or gone down with it.                   *)
Grounded(c) == c \in Elements(applied[0]) \/ <<0, c>> \in seen.refused \cup seen.cutoff

AwayFrom0(c)  == at[c] # 0 \/ step[c] = "report" => Grounded(c)
WaitingAt0(c) == at[c] = 0 /\ step[c] = "wait" => <<0, c>> \in sent \/ Grounded(c)
Passed        == \A c \in Command, b \in Backup : <<b, c>> \in sent => at[c] # 0
Put           == \A c \in Command, b \in Backup, i \in 1..QueueSize : commands[b][i] = c => at[c] # 0
HalvedWrites  == \A c \in Command : c \in seen.halved => kind[c] = "WRITE"
Sent0         == \A c \in Command : <<0, c>> \in sent => kind[c] # "WRITE"

Ground ==
  /\ \A c \in Command : AwayFrom0(c) /\ WaitingAt0(c)
  /\ Passed /\ Put /\ HalvedWrites /\ Sent0

\* At the start nothing has come to the primary.
LEMMA InitGround == Init => Ground
<1> SUFFICES ASSUME Init PROVE Ground
  OBVIOUS
<1>1. Put
  BY CommandAssumption DEF Init, Put
<1> QED BY <1>1 DEF Init, Ground, AwayFrom0, WaitingAt0, Passed, HalvedWrites, Sent0

\* A server that carries something out has it besides what it had, and no
\* other server has anything more.
LEMMA ApplyElements ==
  ASSUME TypeInv, NEW s \in Server, NEW op \in Command \cup {Garbage}, Apply(s, op)
  PROVE  /\ Elements(applied'[s]) = Elements(applied[s]) \cup {op}
         /\ \A x \in Server \ {s} : applied'[x] = applied[x]
<1> DEFINE Ops == Command \cup {Garbage}
<1>1. applied \in [Server -> Seq(Ops)]
  BY DEF TypeInv, TypeOK
<1>2. applied' = [applied EXCEPT ![s] = Append(applied[s], op)]
  BY DEF Apply
<1>3. applied'[s] = Append(applied[s], op) /\ applied[s] \in Seq(Ops) /\ op \in Ops
  BY <1>1, <1>2
<1> HIDE DEF Ops
<1>4. Elements(applied'[s]) = Elements(applied[s]) \cup {op}
  BY <1>3, AppendElements
<1> QED BY <1>1, <1>2, <1>4

\* What the primary has carried out comes there by WRITE, or is carried out
\* after it was sent to it.
LEMMA PrimaryHas ==
  ASSUME TypeInv, Step
  PROVE  /\ \A s \in Server : Elements(applied[s]) \subseteq Elements(applied'[s])
         /\ \A c \in Command : c \in Elements(applied'[0]) \ Elements(applied[0]) =>
              Write(c) \/ <<0, c>> \in sent
<1> DEFINE Ops == Command \cup {Garbage}
<1>1. applied \in [Server -> Seq(Ops)] /\ Garbage \notin Command /\ 0 \in Server /\ Backup \subseteq Server
  BY CommandAssumption DEF TypeInv, TypeOK, Server, Backup
<1> DEFINE Goal == /\ \A s \in Server : Elements(applied[s]) \subseteq Elements(applied'[s])
                   /\ \A c \in Command : c \in Elements(applied'[0]) \ Elements(applied[0]) =>
                        Write(c) \/ <<0, c>> \in sent
<1>2. CASE UNCHANGED applied
  BY <1>2
<1>3. ASSUME NEW b \in Backup, ReplaySend(b) PROVE Goal
  <2>1. CASE UNCHANGED applied
    BY <1>2, <2>1
  <2>2. ASSUME NEW op \in Ops, Apply(b, op) PROVE Goal
    <3>1. b \in Server /\ b # 0
      BY DEF Backup, Server
    <3>2. /\ Elements(applied'[b]) = Elements(applied[b]) \cup {op}
          /\ \A x \in Server \ {b} : applied'[x] = applied[x]
      BY <2>2, <3>1, ApplyElements
    <3>3. applied'[0] = applied[0]
      BY <1>1, <3>1, <3>2
    <3>4. \A x \in Server : Elements(applied[x]) \subseteq Elements(applied'[x])
      BY <3>2
    <3> QED BY <3>3, <3>4
  <2>3. Entry(b, pos[b] + 1) # Nothing => Entry(b, pos[b] + 1) \in Ops
    BY <1>3, NextWaits, WaitingEntries DEF ReplaySend, TypeInv
  <2> QED BY <1>3, <2>1, <2>2, <2>3 DEF ReplaySend
<1>4. ASSUME NEW s \in Server, NEW c \in Command, Perform(s, c) PROVE Goal
  <2>1. PICK op \in {c, Garbage} : Apply(s, op) \/ UNCHANGED applied
    BY <1>4 DEF Perform
  <2>2. CASE Apply(s, op)
    <3>1. op \in Ops /\ <<s, c>> \in sent
      BY <1>4 DEF Perform
    <3>2. /\ Elements(applied'[s]) = Elements(applied[s]) \cup {op}
          /\ \A x \in Server \ {s} : applied'[x] = applied[x]
      BY <1>1, <2>2, <3>1, ApplyElements
    <3>3. \A x \in Server : Elements(applied[x]) \subseteq Elements(applied'[x])
      BY <3>2
    <3>4. ASSUME NEW d \in Command, d \in Elements(applied'[0]) \ Elements(applied[0])
          PROVE  <<0, d>> \in sent
      <4>1. s = 0
        BY <1>1, <3>2, <3>4
      <4>2. d = op
        BY <3>2, <3>4, <4>1
      <4> QED BY <1>1, <2>1, <3>1, <4>1, <4>2
    <3> QED BY <3>3, <3>4
  <2> QED BY <1>2, <2>1, <2>2
<1>5. ASSUME NEW c \in Command, Write(c) PROVE Goal
  <2>1. Apply(0, c) /\ c \in Ops
    BY <1>5 DEF Write
  <2>2. /\ Elements(applied'[0]) = Elements(applied[0]) \cup {c}
        /\ \A x \in Server \ {0} : applied'[x] = applied[x]
    BY <1>1, <2>1, ApplyElements
  <2>3. \A x \in Server : Elements(applied[x]) \subseteq Elements(applied'[x])
    BY <2>2
  <2> QED BY <1>5, <2>2, <2>3
<1> QED
  BY <1>2, <1>3, <1>4, <1>5
  DEF Step, Crash, MarkInactive, Reconnect, Revive, ReplayEnd, ReplayFail, ReplayReset, Begin, Handler,
    CheckPrimary, ConnectPrimary, Answer, AnswerFail, Report, ReportFail, CheckBackup, ConnectBackup,
    ConnectBackupFail, AddRead, AddStore, AddOverrun, AddCount

\* What the primary knows of it does not forget.
LEMMA GroundedStays ==
  ASSUME TypeInv, Step, NEW c \in Command, Grounded(c) PROVE Grounded(c)'
BY PrimaryHas, HistoryGrows DEF Grounded, TypeInv, Grown, Server

\* What was on its way to the primary and is not any more has got somewhere.
LEMMA SentGrounds ==
  ASSUME TypeInv, Ground, Step, NEW c \in Command, <<0, c>> \in sent PROVE <<0, c>> \in sent' \/ Grounded(c)'
<1> SUFFICES ASSUME <<0, c>> \notin sent' PROVE Grounded(c)'
  OBVIOUS
<1>1. /\ seen \in History /\ 0 \in Server
      /\ applied \in [Server -> Seq(Command \cup {Garbage})]
  BY DEF TypeInv, TypeOK, Server
<1>2. c \notin seen.halved
  BY DEF Ground, HalvedWrites, Sent0
<1>3. ASSUME NEW s \in Server, Crash(s) PROVE Grounded(c)'
  <2>1. <<0, c>> \in seen'.cutoff
    BY <1>1, <1>3 DEF Crash, History
  <2> QED BY <2>1 DEF Grounded
<1>4. ASSUME NEW s \in Server, NEW d \in Command, Perform(s, d) PROVE Grounded(c)'
  <2>1. s = 0 /\ d = c
    BY <1>4 DEF Perform
  <2>2. CASE Apply(0, c)
    <3>1. Elements(applied'[0]) = Elements(applied[0]) \cup {c}
      BY <1>1, <2>2, ApplyElements
    <3> QED BY <3>1 DEF Grounded
  <2>3. CASE seen' = [seen EXCEPT !.refused = @ \cup {<<0, c>>}]
    BY <1>1, <2>3 DEF Grounded, History
  <2> QED BY <1>2, <1>4, <2>1, <2>2, <2>3 DEF Perform
<1> QED
  BY <1>3, <1>4
  DEF Step, MarkInactive, Reconnect, Revive, ReplaySend, ReplayEnd, ReplayFail, ReplayReset, Begin, Write,
    Handler, CheckPrimary, ConnectPrimary, Answer, AnswerFail, Report, ReportFail, CheckBackup,
    ConnectBackup, ConnectBackupFail, AddRead, AddStore, AddOverrun, AddCount

\* A handler leaves the primary with its answer, or with a report.
LEMMA ThreadGrounds ==
  ASSUME TypeInv, Ground, NEW c \in Command, Moves(c) PROVE AwayFrom0(c)' /\ WaitingAt0(c)'
<1>1. /\ step \in [Command -> Steps] /\ at \in [Command -> Server]
      /\ applied \in [Server -> Seq(Command \cup {Garbage})] /\ 0 \in Server
  BY DEF TypeInv, TypeOK, Steps, Server
<1>2. AwayFrom0(c) /\ WaitingAt0(c) /\ PlacedAt(c) /\ (Grounded(c) => Grounded(c)')
  BY GroundedStays, NextSplit DEF Ground, TypeInv, Placed
<1>3. CASE Grounded(c)
  BY <1>2, <1>3 DEF AwayFrom0, WaitingAt0
<1>4. CASE at[c] # 0
  BY <1>2, <1>3, <1>4 DEF AwayFrom0
<1>5. CASE at[c] = 0 /\ ~Grounded(c)
  <2>1. step[c] # "report" /\ (step[c] = "wait" => <<0, c>> \in sent)
    BY <1>2, <1>5 DEF AwayFrom0, WaitingAt0
  <2>2. CASE Write(c)
    <3>1. Elements(applied'[0]) = Elements(applied[0]) \cup {c}
      BY <1>1, <2>2, ApplyElements DEF Write
    <3>2. Grounded(c)'
      BY <3>1 DEF Grounded
    <3> QED BY <3>2 DEF AwayFrom0, WaitingAt0
  <2>3. CASE Begin(c) \/ CheckPrimary(c)
    <3>1. at' = at
      BY <2>3 DEF Begin, CheckPrimary
    <3>2. step'[c] = "check" \/ step'[c] = "connect" \/ step'[c] = "end"
      <4>1. CASE To(c, "idle", "check")
        BY <1>1, <4>1, ToMoves DEF Steps
      <4>2. CASE To(c, "check", "connect")
        BY <1>1, <4>2, ToMoves DEF Steps
      <4>3. CASE To(c, "check", "end")
        BY <1>1, <4>3, ToMoves DEF Steps
      <4> QED BY <2>3, <4>1, <4>2, <4>3 DEF Begin, CheckPrimary
    <3> QED BY <1>5, <3>1, <3>2 DEF AwayFrom0, WaitingAt0
  <2>4. CASE ConnectPrimary(c)
    <3>1. at'[c] = 0 /\ step'[c] \in {"wait", "end"} /\ (step'[c] = "wait" => <<0, c>> \in sent')
      <4>1. /\ at' = at
            /\ \/ To(c, "connect", "wait") /\ <<0, c>> \in sent'
               \/ To(c, "connect", "end")
        <5>1. /\ at' = at /\ To(c, "connect", IF up[0] THEN "wait" ELSE "end")
              /\ sent' = IF up[0] THEN sent \cup {<<0, c>>} ELSE sent
          BY <2>4 DEF ConnectPrimary
        <5>2. CASE up[0]
          BY <5>1, <5>2
        <5>3. CASE ~up[0]
          BY <5>1, <5>3
        <5> QED BY <5>2, <5>3
      <4>2. {"connect", "wait", "end"} \subseteq Steps
        BY DEF Steps
      <4>3. (step'[c] = "wait" /\ <<0, c>> \in sent') \/ step'[c] = "end"
        BY <1>1, <4>1, <4>2, ToMoves
      <4> QED BY <1>5, <4>1, <4>3
    <3> QED BY <3>1 DEF AwayFrom0, WaitingAt0
  <2>5. ~(Answer(c) \/ AnswerFail(c) \/ Report(c) \/ ReportFail(c))
    BY <1>5, <2>1 DEF Answer, AnswerFail, Answered, Report, ReportFail, Proceed, To
  <2>6. ~(CheckBackup(c) \/ ConnectBackup(c) \/ ConnectBackupFail(c))
    BY <1>5 DEF CheckBackup, ConnectBackup, ConnectBackupFail
  <2>7. ~(AddRead(c) \/ AddStore(c) \/ AddOverrun(c) \/ AddCount(c))
    BY <1>2, <1>5 DEF AddRead, AddStore, AddOverrun, AddCount, PlacedAt, To, Proceed, Adding, Backup
  <2> QED BY <2>2, <2>3, <2>4, <2>5, <2>6, <2>7 DEF Moves, Handler
<1> QED BY <1>3, <1>4, <1>5

\* A handler that has left the primary does not come back to it.
LEMMA AwayStays ==
  ASSUME TypeInv, Step, NEW c \in Command, at[c] # 0 PROVE at'[c] # 0
<1>1. step \in [Command -> Steps] /\ at \in [Command -> Server]
  BY DEF TypeInv, TypeOK, Steps
<1>2. CASE Elsewhere
  BY <1>2, OthersMove
<1>3. ASSUME NEW d \in Command, Moves(d) PROVE at'[c] # 0
  BY <1>1, <1>3, ThreadMoves
<1> QED BY <1>2, <1>3, NextSplit

\* The layer is kept.
LEMMA NextGround == ASSUME TypeInv, Ground, Step PROVE Ground'
<1>1. /\ seen \in History /\ sent \subseteq Server \X Command /\ Grown
      /\ step \in [Command -> Steps] /\ at \in [Command -> Server]
      /\ commands \in [Backup -> [1..QueueSize -> Command \cup {Nothing}]]
      /\ QueueSize \in Nat /\ Nothing \notin Command
  BY HistoryGrows, SizeIsNat, CommandAssumption DEF TypeInv, TypeOK, Steps
<1>2. \A c \in Command : AwayFrom0(c)' /\ WaitingAt0(c)'
  <2>1. ASSUME NEW c \in Command, step'[c] = step[c], at'[c] = at[c]
        PROVE  AwayFrom0(c)' /\ WaitingAt0(c)'
    BY <2>1, GroundedStays, SentGrounds DEF Ground, AwayFrom0, WaitingAt0
  <2>2. CASE Elsewhere
    BY <2>1, <2>2, OthersMove
  <2>3. ASSUME NEW c \in Command, Moves(c) PROVE \A d \in Command : AwayFrom0(d)' /\ WaitingAt0(d)'
    BY <1>1, <2>1, <2>3, ThreadMoves, ThreadGrounds
  <2> QED BY <2>2, <2>3, NextSplit
<1>3. Passed'
  <2> SUFFICES ASSUME NEW c \in Command, NEW b \in Backup, <<b, c>> \in sent' PROVE at[c] # 0
    BY AwayStays DEF Passed
  <2>1. CASE <<b, c>> \in sent
    BY <2>1 DEF Ground, Passed
  <2>2. ASSUME NEW d \in Command, ConnectBackup(d) PROVE at[c] # 0
    <3>1. sent' = sent \cup {<<at[d], d>>} /\ at[d] # 0
      BY <2>2 DEF ConnectBackup
    <3> QED BY <2>1, <3>1
  <2>3. ASSUME NEW d \in Command, ConnectPrimary(d) PROVE at[c] # 0
    BY <2>1, <2>3 DEF ConnectPrimary, Backup
  <2> QED BY <2>1, <2>2, <2>3
      DEF Step, Crash, MarkInactive, Reconnect, Revive, ReplaySend, ReplayEnd, ReplayFail, ReplayReset,
        Perform, Begin, Write, Handler, CheckPrimary, Answer, AnswerFail, Report, ReportFail,
        CheckBackup, ConnectBackupFail, AddRead, AddStore, AddOverrun, AddCount
<1>4. Put'
  <2> SUFFICES ASSUME NEW c \in Command, NEW b \in Backup, NEW i \in 1..QueueSize, commands'[b][i] = c
               PROVE  at[c] # 0
    BY <1>1, AwayStays DEF Put
  <2>1. CASE UNCHANGED commands
    BY <2>1 DEF Ground, Put
  <2>2. ASSUME NEW d \in Command, AddStore(d) PROVE at[c] # 0
    <3>1. /\ at[d] \in Backup /\ commands' = [commands EXCEPT ![at[d]][z[d] + 1] = d]
      BY <2>2 DEF AddStore, To, TypeInv, Placed, PlacedAt, Adding
    <3>2. commands'[b][i] = commands[b][i] \/ commands'[b][i] = d
      BY <1>1, <3>1
    <3> QED BY <3>1, <3>2 DEF Ground, Put, Backup
  <2> QED BY <2>1, <2>2
      DEF Step, Crash, MarkInactive, Reconnect, Revive, ReplaySend, ReplayEnd, ReplayFail, ReplayReset,
        Perform, Begin, Write, Handler, CheckPrimary, ConnectPrimary, Answer, AnswerFail, Report,
        ReportFail, CheckBackup, ConnectBackup, ConnectBackupFail, AddRead, AddOverrun, AddCount, queue
<1>5. kind' = kind
  <2>1. CASE Elsewhere
    BY <2>1, OthersMove
  <2>2. ASSUME NEW c \in Command, Moves(c) PROVE kind' = kind
    BY <1>1, <2>2, ThreadMoves
  <2> QED BY <2>1, <2>2, NextSplit
<1>6. HalvedWrites'
  <2>1. ASSUME NEW c \in Command, c \in seen'.halved PROVE kind[c] = "WRITE"
    <3>1. CASE c \in seen.halved
      BY <3>1 DEF Ground, HalvedWrites
    <3>2. ASSUME NEW d \in Command, Report(d) PROVE kind[c] = "WRITE"
      <4>1. kind[d] = "WRITE" /\ (seen' = seen \/ seen' = [seen EXCEPT !.halved = @ \cup {d}])
        BY <3>2 DEF Report, Proceed, TypeInv, Placed, PlacedAt
      <4> QED BY <1>1, <2>1, <3>1, <4>1 DEF History
    <3>3. seen'.halved = seen.halved \/ \E d \in Command : Report(d)
      BY <1>1 DEF History, Step, Crash, MarkInactive, Reconnect, Revive, ReplaySend, ReplayEnd, ReplayFail,
        ReplayReset, Perform, Begin, Write, Handler, CheckPrimary, ConnectPrimary, Answer, AnswerFail,
        ReportFail, CheckBackup, ConnectBackup, ConnectBackupFail, AddRead, AddStore, AddOverrun, AddCount
    <3> QED BY <2>1, <3>1, <3>2, <3>3
  <2> QED BY <1>5, <2>1 DEF HalvedWrites
<1>7. Sent0'
  <2>1. ASSUME NEW c \in Command, <<0, c>> \in sent' PROVE kind[c] # "WRITE"
    <3>1. CASE <<0, c>> \in sent
      BY <3>1 DEF Ground, Sent0
    <3>2. ASSUME NEW d \in Command, ConnectPrimary(d) PROVE kind[c] # "WRITE"
      <4>1. kind[d] # "WRITE" /\ (sent' = sent \/ sent' = sent \cup {<<0, d>>})
        BY <3>2 DEF ConnectPrimary, To, TypeInv, Placed, PlacedAt
      <4> QED BY <2>1, <3>1, <4>1
    <3>3. ASSUME NEW d \in Command, ConnectBackup(d) PROVE kind[c] # "WRITE"
      BY <2>1, <3>1, <3>3 DEF ConnectBackup
    <3> QED BY <2>1, <3>1, <3>2, <3>3
        DEF Step, Crash, MarkInactive, Reconnect, Revive, ReplaySend, ReplayEnd, ReplayFail, ReplayReset,
          Perform, Begin, Write, Handler, CheckPrimary, Answer, AnswerFail, Report, ReportFail,
          CheckBackup, ConnectBackupFail, AddRead, AddStore, AddOverrun, AddCount
  <2> QED BY <1>5, <2>1 DEF Sent0
<1> QED BY <1>2, <1>3, <1>4, <1>6, <1>7 DEF Ground

\* What a backup may carry out.
Backed(b, x) ==
  \/ x \in Command /\ Grounded(x)
  \/ x = Garbage /\ seen.halved # {}

\* What a backup may carry out it may carry out later too.
LEMMA BackedStays ==
  ASSUME TypeInv, Step, NEW b \in Backup, NEW x, Backed(b, x) PROVE Backed(b, x)'
BY GroundedStays, HistoryGrows, LateStays DEF Backed, TypeInv, Grown

\* A backup carries out only what the primary knows of.
AllBacked == \A b \in Backup : \A x \in Elements(applied[b]) : Backed(b, x)

\* At the start no backup has carried anything out.
LEMMA InitBacked == Init => AllBacked
<1> SUFFICES ASSUME Init, NEW b \in Backup PROVE Elements(applied[b]) = {}
  BY DEF AllBacked
<1>1. applied[b] = <<>>
  BY DEF Init, Backup, Server
<1> QED BY <1>1 DEF Elements

\* The layer is kept.
LEMMA NextBacked == ASSUME Basis, Ground, AllBacked, Step PROVE AllBacked'
<1>1. /\ TypeInv /\ seen \in History /\ sent \subseteq Server \X Command
      /\ applied \in [Server -> Seq(Command \cup {Garbage})]
      /\ Backup \subseteq Server /\ 0 \notin Backup
  BY DEF Basis, TypeInv, TypeOK, Backup, Server
<1>2. ASSUME NEW s \in Server, NEW op \in Command \cup {Garbage}, Apply(s, op),
             s \in Backup => Backed(s, op)
      PROVE  AllBacked'
  <2>1. /\ Elements(applied'[s]) = Elements(applied[s]) \cup {op}
        /\ \A x \in Server \ {s} : applied'[x] = applied[x]
    BY <1>1, <1>2, ApplyElements
  <2> SUFFICES ASSUME NEW b \in Backup, NEW x \in Elements(applied'[b]) PROVE Backed(b, x)
    BY <1>1, BackedStays DEF AllBacked
  <2> QED BY <1>1, <1>2, <2>1 DEF AllBacked
<1>3. CASE UNCHANGED applied
  BY <1>1, <1>3, BackedStays DEF AllBacked
<1>4. ASSUME NEW b \in Backup, ReplaySend(b) PROVE AllBacked'
  <2>1. PICK i : i = pos[b] + 1
    OBVIOUS
  <2>2. i \in Waiting(b) /\ i \in Nat /\ Entry(b, i) \in Command \cup {Nothing}
    BY <1>1, <1>4, <2>1, NextWaits, WaitingEntries DEF ReplaySend, TypeInv
  <2>3. CASE Entry(b, i) \in Command /\ Apply(b, Entry(b, i))
    <3>1. i \in 1..QueueSize /\ Entry(b, i) = commands[b][i]
      BY <2>2, <2>3, CommandAssumption, SizeIsNat DEF Entry, Waiting, Basis, TypeInv, TypeOK
    <3>2. Grounded(Entry(b, i))
      BY <2>2, <2>3, <3>1 DEF Ground, Put, AwayFrom0
    <3> QED BY <1>1, <1>2, <2>2, <2>3, <3>2 DEF Backed
  <2> QED BY <1>3, <1>4, <2>1, <2>2, <2>3 DEF ReplaySend
<1>5. ASSUME NEW s \in Server, NEW c \in Command, Perform(s, c) PROVE AllBacked'
  <2>1. <<s, c>> \in sent
    BY <1>5 DEF Perform
  <2>2. s \in Backup => Grounded(c)
    BY <2>1 DEF Ground, Passed, AwayFrom0
  <2>3. CASE Apply(s, IF c \in seen.halved THEN Garbage ELSE c)
    <3>1. CASE c \in seen.halved
      BY <1>1, <1>2, <2>3, <3>1 DEF Backed
    <3>2. CASE c \notin seen.halved
      BY <1>1, <1>2, <2>2, <2>3, <3>2 DEF Backed
    <3> QED BY <3>1, <3>2
  <2> QED BY <1>3, <1>5, <2>3 DEF Perform
<1>6. ASSUME NEW c \in Command, Write(c) PROVE AllBacked'
  <2>1. Apply(0, c) /\ 0 \in Server
    BY <1>6 DEF Write, Server
  <2> QED BY <1>1, <1>2, <2>1
<1> QED
  BY <1>3, <1>4, <1>5, <1>6
  DEF Step, Crash, MarkInactive, Reconnect, Revive, ReplayEnd, ReplayFail, ReplayReset, Begin, Handler,
    CheckPrimary, ConnectPrimary, Answer, AnswerFail, Report, ReportFail, CheckBackup, ConnectBackup,
    ConnectBackupFail, AddRead, AddStore, AddOverrun, AddCount

-----------------------------------------------------------------------------
(* What nobody has dropped.  A command the handler is past is with the     *)
(* backup, on its way, or excused, unless the primary never carries it out.*)
Void(c) == c \notin Elements(applied[0]) /\ <<0, c>> \notin sent

Fault(b, c) ==
  \/ <<b, c>> \in seen.refused \cup seen.cutoff \cup seen.unreachable
                    \cup seen.away \cup seen.failed
  \/ c \in seen.unreported \cup seen.halved

Reached(b, c) == c \in Has(b) \cup OnWay(b) \cup Queued(b) \/ Fault(b, c)

NotYet(c)    == at[c] = 0 /\ step[c] \in {"idle", "check", "connect"} => Void(c)
KeptOf(b)    == Calm(b) => \A c \in Command : Past(b, c) => Void(c) \/ Reached(b, c)
FailedAre(b) == Calm(b) /\ replay[b] = "reset" => \A i \in Waiting(b) : <<b, commands[b][i]>> \in seen.failed

Keep == (\A c \in Command : NotYet(c)) /\ \A b \in Backup : KeptOf(b) /\ FailedAre(b)

\* At the start no handler is past anything.
LEMMA InitKeep == Init => Keep
<1> SUFFICES ASSUME Init PROVE Keep
  OBVIOUS
<1>1. \A c \in Command : Void(c)
  BY DEF Init, Void, Elements, Server
<1> QED BY <1>1 DEF Init, Keep, NotYet, KeptOf, FailedAre

\* What the primary has not been asked for it comes to only by a request.
LEMMA VoidStays ==
  ASSUME TypeInv, Step, NEW c \in Command, Void(c), ~Write(c), ~ConnectPrimary(c)
  PROVE  Void(c)'
<1>1. c \notin Elements(applied'[0])
  BY PrimaryHas DEF Void
<1>2. <<0, c>> \notin sent'
  <2>1. ASSUME NEW d \in Command, ConnectPrimary(d) PROVE <<0, c>> \notin sent'
    <3>1. d # c
      BY <2>1
    <3> QED BY <2>1, <3>1 DEF ConnectPrimary, Void
  <2>2. ASSUME NEW d \in Command, ConnectBackup(d) PROVE <<0, c>> \notin sent'
    BY <2>2 DEF ConnectBackup, Void
  <2> QED BY <2>1, <2>2
      DEF Void, Step, Crash, MarkInactive, Reconnect, Revive, ReplaySend, ReplayEnd, ReplayFail,
        ReplayReset, Perform, Begin, Write, Handler, CheckPrimary, Answer, AnswerFail, Report, ReportFail,
        CheckBackup, ConnectBackupFail, AddRead, AddStore, AddOverrun, AddCount
<1> QED BY <1>1, <1>2 DEF Void

\* Before its handler asks the primary nothing has come to it.
LEMMA NextNotYet == ASSUME TypeInv, Keep, Step, NEW c \in Command PROVE NotYet(c)'
<1>1. step \in [Command -> Steps] /\ at \in [Command -> Server] /\ PlacedAt(c)
  BY DEF TypeInv, TypeOK, Steps, Placed
<1>2. NotYet(c)
  BY DEF Keep
<1>3. ASSUME step'[c] = step[c], at'[c] = at[c], ~Write(c), ~ConnectPrimary(c) PROVE NotYet(c)'
  BY <1>2, <1>3, VoidStays DEF NotYet
<1>4. CASE Elsewhere
  <2>1. step' = step /\ at' = at
    BY <1>4, OthersMove
  <2>2. CASE Write(c) \/ ConnectPrimary(c)
    <3>1. step'[c] # step[c]
      BY <1>1, <2>2 DEF Write, ConnectPrimary, To
    <3> QED BY <2>1, <3>1
  <2> QED BY <1>3, <2>1, <2>2
<1>5. ASSUME NEW d \in Command, Moves(d), d # c PROVE NotYet(c)'
  <2>1. step'[c] = step[c] /\ at'[c] = at[c]
    BY <1>1, <1>5, ThreadMoves
  <2>2. CASE Write(c) \/ ConnectPrimary(c)
    <3>1. step'[c] # step[c]
      BY <1>1, <2>2 DEF Write, ConnectPrimary, To
    <3> QED BY <2>1, <3>1
  <2> QED BY <1>3, <2>1, <2>2
<1>6. ASSUME Moves(c) PROVE NotYet(c)'
  <2>1. CASE Write(c) \/ ConnectPrimary(c)
    <3>1. CASE Write(c)
      <4>1. step'[c] = "report"
        BY <1>1, <3>1, ToMoves DEF Write, Steps
      <4> QED BY <4>1 DEF NotYet
    <3>2. CASE ConnectPrimary(c) /\ up[0]
      <4>1. To(c, "connect", "wait")
        BY <3>2 DEF ConnectPrimary
      <4>2. step'[c] = "wait"
        BY <1>1, <4>1, ToMoves DEF Steps
      <4> QED BY <4>2 DEF NotYet
    <3>3. CASE ConnectPrimary(c) /\ ~up[0]
      <4>1. To(c, "connect", "end")
        BY <3>3 DEF ConnectPrimary
      <4>2. step'[c] = "end"
        BY <1>1, <4>1, ToMoves DEF Steps
      <4> QED BY <4>2 DEF NotYet
    <3> QED BY <2>1, <3>1, <3>2, <3>3
  <2>2. CASE ~Write(c) /\ ~ConnectPrimary(c)
    <3>1. SUFFICES ASSUME at'[c] = 0, step'[c] \in {"idle", "check", "connect"} PROVE Void(c)
      BY <2>2, VoidStays DEF NotYet
    <3>2. at[c] = 0
      BY <3>1, AwayStays
    <3>3. CASE Begin(c) \/ CheckPrimary(c)
      BY <1>2, <3>2, <3>3 DEF Begin, CheckPrimary, To, NotYet
    <3>4. ~(Answer(c) \/ Report(c) \/ AddCount(c))
      BY <1>1, <3>1, <3>2, ProceedMoves DEF Answer, Report, AddCount, Steps, Adding
    <3>5. ~(CheckBackup(c) \/ ConnectBackup(c) \/ ConnectBackupFail(c))
      BY <3>2 DEF CheckBackup, ConnectBackup, ConnectBackupFail
    <3>6. ~(AddRead(c) \/ AddStore(c) \/ AddOverrun(c))
      BY <1>1, <3>2 DEF AddRead, AddStore, AddOverrun, PlacedAt, To, Adding, Backup
    <3>7. ASSUME AnswerFail(c) \/ ReportFail(c) PROVE FALSE
      <4>1. step'[c] = "end"
        BY <1>1, <3>7, ToMoves DEF AnswerFail, ReportFail, Steps
      <4> QED BY <3>1, <4>1
    <3> QED BY <1>6, <2>2, <3>3, <3>4, <3>5, <3>6, <3>7 DEF Moves, Handler
  <2> QED BY <2>1, <2>2
<1> QED BY <1>4, <1>5, <1>6, NextSplit

\* What a replay that fails has not sent is noted.
LEMMA NextFailedAre ==
  ASSUME Basis, Keep, Step, NEW b \in Backup PROVE FailedAre(b)'
<1> SUFFICES ASSUME Calm(b)', replay'[b] = "reset"
             PROVE  \A i \in Waiting(b)' : <<b, commands'[b][i]>> \in seen'.failed
  BY DEF FailedAre
<1>1. Calm(b) /\ Traffic(b) /\ Grown /\ FailedAre(b) /\ seen \in History
  BY NextTraffic, HistoryGrows, LateStays DEF Basis, TypeInv, TypeOK, Calm, Keep
<1>2. CASE replay[b] = "reset"
  <2>1. \A i \in Waiting(b) : <<b, commands[b][i]>> \in seen'.failed
    BY <1>1, <1>2 DEF FailedAre, Grown
  <2>2. ASSUME NEW c \in Command, QueuedFor(b, c) PROVE FALSE
    <3>1. is_active[b] /\ at[c] = b /\ step[c] \in Adding
      BY <1>2, <2>2 DEF QueuedFor, Turns, Basis, Awake, RevivingIsActive, Reviving
    <3>2. IsLate(b)
      BY <3>1 DEF Basis, Awake, AddersAreLate, IsLate
    <3> QED BY <1>1, <3>2 DEF Calm, Confused, IsLate
  <2>3. Waiting(b)' \subseteq Waiting(b) /\ \A i \in Waiting(b)' : commands'[b][i] = commands[b][i]
    BY <1>1, <2>2 DEF Traffic, Still, Replays, Resets, Performs, SentTo, SameQueue, SameEntries
  <2> QED BY <2>1, <2>3
<1>3. CASE replay[b] # "reset"
  <2>1. ASSUME NEW x \in Backup, ReplayEnd(x) \/ ReplayFail(x)
        PROVE  \A i \in Waiting(b)' : <<b, commands'[b][i]>> \in seen'.failed
    <3>1. UNCHANGED <<commands, command_count, pos>> /\ replay' = [replay EXCEPT ![x] = "reset"]
      BY <2>1 DEF ReplayEnd, ReplayFail, queue
    <3>2. x = b
      BY <1>3, <3>1 DEF Basis, TypeInv, TypeOK
    <3>3. Waiting(b)' = Waiting(b)
      BY <3>1 DEF Waiting
    <3>4. CASE ReplayEnd(b)
      BY <3>3, <3>4 DEF ReplayEnd
    <3>5. CASE ReplayFail(b)
      <4>1. PICK lost : lost = {<<b, Entry(b, i)>> : i \in Waiting(b)}
        OBVIOUS
      <4>2. seen' = [seen EXCEPT !.failed = @ \cup lost]
        BY <3>5, <4>1 DEF ReplayFail
      <4>4. \A i \in Waiting(b) : Entry(b, i) = commands[b][i]
        BY <1>1 DEF Basis, QueueInv, QueueOf, WaitingAre, Entry
      <4>3. lost \subseteq seen'.failed
        BY <1>1, <4>2 DEF History
      <4> QED BY <3>1, <3>3, <4>1, <4>3, <4>4
    <3> QED BY <2>1, <3>2, <3>4, <3>5
  <2>2. ASSUME NEW x \in Backup, ReplayReset(x) PROVE FALSE
    BY <1>3, <2>2 DEF ReplayReset, Basis, TypeInv, TypeOK
  <2>3. ASSUME NEW s \in Server, Reconnect(s) PROVE FALSE
    BY <1>3, <2>3 DEF Reconnect
  <2>4. replay'[b] # replay[b]
    BY <1>3
  <2> QED BY <2>1, <2>2, <2>3, <2>4
      DEF Step, Crash, MarkInactive, Revive, ReplaySend, Perform, Begin, Write, Handler, CheckPrimary,
        ConnectPrimary, Answer, AnswerFail, Report, ReportFail, CheckBackup, ConnectBackup,
        ConnectBackupFail, AddRead, AddStore, AddOverrun, AddCount, revival
<1> QED BY <1>2, <1>3

\* What has reached a backup, or never will, stays so.
LEMMA ReachedStays ==
  ASSUME Basis, Flow, Keep, Step, NEW b \in Backup, Calm(b)', NEW c \in Command, Reached(b, c)
  PROVE  Reached(b, c)'
<1>1. /\ Calm(b) /\ Traffic(b) /\ Grown /\ FailedAre(b)
      /\ applied[b] \in Seq(Command \cup {Garbage})
  BY NextTraffic, HistoryGrows, LateStays DEF Basis, TypeInv, TypeOK, Calm, Keep, Backup, Server
<1>2. QueuedOnce(b) /\ Queued(b) \subseteq Command
  BY <1>1 DEF Flow, FlowOf, Basis, QueueInv, QueueOf, WaitingAre, Queued
<1>3. Fault(b, c) => Fault(b, c)'
  BY <1>1 DEF Fault, Grown
<1>4. Has(b) \subseteq Has(b)'
  BY PrimaryHas DEF Basis, Has, Backup, Server
<1>5. ASSUME c \in OnWay(b) PROVE Reached(b, c)'
  <2>1. CASE Still(b)
    BY <1>5, <2>1 DEF Still, Reached, Fault
  <2>2. ASSUME NEW d \in Command, Performs(b, d) PROVE Reached(b, c)'
    <3>1. CASE c # d
      BY <1>5, <2>2, <3>1 DEF Performs, Reached
    <3>2. CASE c = d /\ applied'[b] = Append(applied[b], c)
      <4>1. c \in Command \cup {Garbage}
        OBVIOUS
      <4>2. Has(b)' = Has(b) \cup {c}
        BY <1>1, <3>2, <4>1, AppendElements DEF Has
      <4> QED BY <4>2 DEF Reached
    <3> QED BY <2>2, <3>1, <3>2 DEF Performs, Reached, Fault
  <2>3. CASE c \in OnWay(b)'
    BY <2>3 DEF Reached
  <2> QED BY <1>1, <1>5, <2>1, <2>2, <2>3 DEF Traffic, Replays, Resets, SentTo, QueuedFor
<1>6. ASSUME c \in Queued(b) PROVE Reached(b, c)'
  <2>1. CASE c \in Queued(b)'
    BY <2>1 DEF Reached
  <2>2. CASE Replays(b)
    <3>1. PICK x : x = commands[b][pos[b] + 1]
      OBVIOUS
    <3>2. /\ Queued(b)' = Queued(b) \ {x} /\ x \in Queued(b)
          /\ applied'[b] = Append(applied[b], x)
      BY <1>2, <2>2, <3>1, QueueMoves DEF Replays
    <3>3. x \in Command \cup {Garbage}
      BY <1>2, <3>2
    <3>4. Has(b)' = Has(b) \cup {x}
      BY <1>1, <3>2, <3>3, AppendElements DEF Has
    <3> QED BY <1>6, <3>2, <3>4 DEF Reached
  <2>3. CASE Resets(b)
    <3>1. \A i \in Waiting(b) : <<b, commands[b][i]>> \in seen.failed
      BY <1>1, <2>3 DEF Resets, FailedAre
    <3>2. <<b, c>> \in seen.failed
      BY <1>6, <3>1 DEF Queued
    <3> QED BY <1>3, <3>2 DEF Reached, Fault
  <2>4. CASE SameQueue(b)
    <3>1. c \in Queued(b)'
      BY <1>2, <1>6, <2>4, QueueMoves
    <3> QED BY <2>1, <3>1
  <2>5. ASSUME NEW d \in Command, QueuedFor(b, d) PROVE Reached(b, c)'
    <3>1. c \in Queued(b)'
      BY <1>2, <1>6, <2>5, QueueMoves
    <3> QED BY <2>1, <3>1
  <2> QED BY <1>1, <2>2, <2>3, <2>4, <2>5 DEF Traffic, Still, Performs, SentTo
<1> QED BY <1>3, <1>4, <1>5, <1>6 DEF Reached

\* A handler gets past a backup only after it has sent or queued its command,
\* or with an excuse.
LEMMA PassesKept ==
  ASSUME Basis, Keep, NEW c \in Command, Moves(c), NEW b \in Backup, Calm(b), ~Past(b, c), Past(b, c)'
  PROVE  Void(c)' \/ Reached(b, c)'
<1>1. /\ step \in [Command -> Steps] /\ at \in [Command -> Server] /\ at[c] \in 0..2
      /\ seen \in History /\ PlacedAt(c) /\ b \in 1..2 /\ TypeInv /\ QueueInv /\ Step
  BY NextSplit DEF Basis, TypeInv, TypeOK, Steps, Placed, Server, Backup
<1>2. ~(at[c] > b) /\ ~(at[c] = b /\ step[c] = "wait") /\ step[c] # "end"
  BY DEF Past
<1>3. at'[c] > b \/ (at'[c] = b /\ step'[c] = "wait") \/ step'[c] = "end"
  BY DEF Past
<1>4. CASE Begin(c) \/ Write(c)
  <2>1. at[c] = 0 /\ at'[c] = 0 /\ step'[c] \in {"check", "report"}
    BY <1>1, <1>4, ToMoves DEF Begin, Write, PlacedAt, Steps, To
  <2> QED BY <1>1, <1>3, <2>1
<1>5. CASE CheckPrimary(c)
  <2>1. Void(c)
    BY <1>5 DEF CheckPrimary, To, Keep, NotYet
  <2>2. ~Write(c) /\ ~ConnectPrimary(c)
    BY <1>5 DEF CheckPrimary, Write, ConnectPrimary, To
  <2> QED BY <1>1, <2>1, <2>2, VoidStays
<1>6. CASE ConnectPrimary(c)
  <2>1. CASE up[0]
    <3>1. To(c, "connect", "wait") /\ at' = at /\ at[c] = 0
      BY <1>6, <2>1 DEF ConnectPrimary
    <3>2. step'[c] = "wait"
      BY <1>1, <3>1, ToMoves DEF Steps
    <3> QED BY <1>1, <1>3, <3>1, <3>2
  <2>2. CASE ~up[0]
    <3>1. Void(c) /\ UNCHANGED <<applied, sent>>
      BY <1>6, <2>2 DEF ConnectPrimary, To, Keep, NotYet
    <3> QED BY <3>1 DEF Void
  <2> QED BY <2>1, <2>2
<1>7. ASSUME Answer(c) \/ Report(c) PROVE FALSE
  <2>1. PICK from \in Steps : Proceed(c, from) /\ (from = "wait" \/ (from = "report" /\ at[c] = 0))
    BY <1>1, <1>7 DEF Answer, Report, Proceed, PlacedAt, Steps
  <2>2. step[c] = from
    BY <2>1 DEF Proceed
  <2>3. CASE at[c] = 2 /\ step'[c] = "end" /\ at'[c] = at[c]
    BY <1>1, <1>2, <2>1, <2>2, <2>3
  <2>4. CASE at[c] \in 0..1 /\ step'[c] = "check" /\ at'[c] = at[c] + 1
    BY <1>1, <1>2, <1>3, <2>1, <2>2, <2>4
  <2> QED BY <1>1, <2>1, <2>3, <2>4, ProceedMoves
<1>8. CASE AnswerFail(c)
  <2>1. at[c] < b
    BY <1>1, <1>2, <1>8 DEF AnswerFail, To
  <2>2. seen' = [seen EXCEPT !.unreachable = @ \cup {<<x, c>> : x \in {y \in Backup : y > at[c]}}]
    BY <1>8 DEF AnswerFail
  <2>3. <<b, c>> \in {<<x, c>> : x \in {y \in Backup : y > at[c]}}
    BY <1>1, <2>1
  <2>4. <<b, c>> \in seen'.unreachable
    BY <1>1, <2>2, <2>3 DEF History
  <2> QED BY <2>4 DEF Reached, Fault
<1>9. CASE ReportFail(c)
  <2>1. c \in seen'.unreported
    BY <1>1, <1>9 DEF ReportFail, History
  <2> QED BY <2>1 DEF Reached, Fault
<1>10. CASE CheckBackup(c)
  <2>1. CASE at' = at /\ (To(c, "check", "connect") \/ To(c, "check", "read"))
    <3>1. step'[c] \in {"connect", "read"} /\ at'[c] = at[c]
      BY <1>1, <2>1, ToMoves DEF Steps, Adding
    <3> QED BY <1>2, <1>3, <3>1
  <2>2. CASE Proceed(c, "check") /\ seen' = [seen EXCEPT !.away = @ \cup {<<at[c], c>>}]
    <3>1. \/ at[c] = 2 /\ step'[c] = "end" /\ at'[c] = at[c]
          \/ at[c] \in 0..1 /\ step'[c] = "check" /\ at'[c] = at[c] + 1
      BY <1>1, <2>2, ProceedMoves DEF Steps
    <3>2. at[c] = b
      BY <1>1, <1>2, <1>3, <3>1
    <3>3. <<b, c>> \in seen'.away
      BY <1>1, <2>2, <3>2 DEF History
    <3> QED BY <3>3 DEF Reached, Fault
  <2> QED BY <1>10, <2>1, <2>2 DEF CheckBackup
<1>11. CASE ConnectBackup(c)
  <2>1. <<at[c], c>> \in sent'
    BY <1>11 DEF ConnectBackup
  <2>2. at[c] = b
    <3>1. CASE To(c, "connect", "wait") /\ at' = at
      <4>1. step'[c] = "wait" /\ at'[c] = at[c]
        BY <1>1, <3>1, ToMoves DEF Steps
      <4> QED BY <1>2, <1>3, <4>1
    <3>2. CASE Proceed(c, "connect")
      <4>1. \/ at[c] = 2 /\ step'[c] = "end" /\ at'[c] = at[c]
            \/ at[c] \in 0..1 /\ step'[c] = "check" /\ at'[c] = at[c] + 1
        BY <1>1, <3>2, ProceedMoves DEF Steps
      <4> QED BY <1>1, <1>2, <1>3, <4>1
    <3> QED BY <1>11, <3>1, <3>2 DEF ConnectBackup
  <2>3. c \in OnWay(b)'
    BY <2>1, <2>2 DEF OnWay
  <2> QED BY <2>3 DEF Reached
<1>12. CASE ConnectBackupFail(c)
  <2>1. CASE Proceed(c, "connect") /\ seen' = [seen EXCEPT !.unreachable = @ \cup {<<at[c], c>>}]
    <3>1. \/ at[c] = 2 /\ step'[c] = "end" /\ at'[c] = at[c]
          \/ at[c] \in 0..1 /\ step'[c] = "check" /\ at'[c] = at[c] + 1
      BY <1>1, <2>1, ProceedMoves DEF Steps
    <3>2. at[c] = b
      BY <1>1, <1>2, <1>3, <3>1
    <3>3. <<b, c>> \in seen'.unreachable
      BY <1>1, <2>1, <3>2 DEF History
    <3> QED BY <3>3 DEF Reached, Fault
  <2>2. CASE seen' = [seen EXCEPT !.unreachable = @ \cup {<<x, c>> : x \in {y \in Backup : y >= at[c]}}]
    <3>1. <<b, c>> \in {<<x, c>> : x \in {y \in Backup : y >= at[c]}}
      BY <1>1, <1>2
    <3>2. <<b, c>> \in seen'.unreachable
      BY <1>1, <2>2, <3>1 DEF History
    <3> QED BY <3>2 DEF Reached, Fault
  <2> QED BY <1>12, <2>1, <2>2 DEF ConnectBackupFail
<1>13. ASSUME AddRead(c) \/ AddStore(c) \/ AddOverrun(c) PROVE FALSE
  <2>1. step'[c] \in {"store", "count", "torn"} /\ at'[c] = at[c]
    BY <1>1, <1>13, ToMoves DEF AddRead, AddStore, AddOverrun, Steps, Adding
  <2> QED BY <1>2, <1>3, <2>1
<1>14. CASE AddCount(c)
  <2>1. \/ at[c] = 2 /\ step'[c] = "end" /\ at'[c] = at[c]
        \/ at[c] \in 0..1 /\ step'[c] = "check" /\ at'[c] = at[c] + 1
    BY <1>1, <1>14, ProceedMoves DEF AddCount, Steps, Adding
  <2>2. at[c] = b
    <3>1. step[c] = "count" /\ at[c] # 0
      BY <1>1, <1>14 DEF AddCount, Proceed, PlacedAt, Adding, Backup
    <3> QED BY <1>1, <1>2, <1>3, <2>1, <3>1
  <2>3. QueuedFor(b, c)
    BY <1>1, <1>14, <2>2, CountQueues
  <2>4. c \in Queued(b)'
    BY <2>3 DEF QueuedFor, Queued
  <2> QED BY <2>4 DEF Reached
<1> QED
  BY <1>4, <1>5, <1>6, <1>7, <1>8, <1>9, <1>10, <1>11, <1>12, <1>13, <1>14 DEF Moves, Handler

\* The layer is kept.
LEMMA NextKeep == ASSUME Basis, Flow, Keep, Step PROVE Keep'
<1>1. ASSUME NEW b \in Backup PROVE KeptOf(b)'
  <2> SUFFICES ASSUME Calm(b)', NEW c \in Command, Past(b, c)' PROVE Void(c)' \/ Reached(b, c)'
    BY DEF KeptOf
  <2>1. /\ Calm(b) /\ TypeInv /\ PlacedAt(c)
        /\ step \in [Command -> Steps] /\ at \in [Command -> Server]
    BY HistoryGrows, LateStays DEF Basis, TypeInv, TypeOK, Calm, Placed, Steps
  <2>2. CASE Past(b, c)
    <3>1. Void(c) \/ Reached(b, c)
      BY <2>1, <2>2 DEF Keep, KeptOf
    <3>2. ~Write(c) /\ ~ConnectPrimary(c)
      BY <2>1, <2>2 DEF Past, Write, ConnectPrimary, To, PlacedAt, Backup
    <3> QED BY <2>1, <3>1, <3>2, VoidStays, ReachedStays
  <2>3. CASE ~Past(b, c)
    <3>1. CASE Elsewhere
      BY <2>3, <3>1, OthersMove DEF Past
    <3>2. ASSUME NEW d \in Command, Moves(d), d # c PROVE FALSE
      <4>1. step'[c] = step[c] /\ at'[c] = at[c]
        BY <2>1, <3>2, ThreadMoves
      <4> QED BY <2>3, <4>1 DEF Past
    <3>3. CASE Moves(c)
      BY <2>1, <2>3, <3>3, PassesKept
    <3> QED BY <3>1, <3>2, <3>3, NextSplit
  <2> QED BY <2>2, <2>3
<1> QED BY <1>1, NextNotYet, NextFailedAre DEF Keep, Basis

-----------------------------------------------------------------------------
(* The order.  What was over when a command began is neither on its way to *)
(* a backup nor waits there behind it.                                     *)
AfterAreOver == \A c \in Command : \A d \in after[c] : step[d] = "end"

Follows(b) ==
  \A c \in OnWay(b) \cup Has(b) : c \in Command /\ <<b, c>> \notin seen.overtook =>
    \A d \in after[c] : d \notin OnWay(b) \cup Queued(b)

WaitsBehind(b) ==
  \A i \in Waiting(b) : \A d \in after[commands[b][i]] :
    d \notin OnWay(b) /\ \A j \in Waiting(b) : commands[b][j] = d => j < i

InOrder(b) ==
  \A i, j \in 1..Len(applied[b]) :
    LET c == applied[b][i]
        d == applied[b][j]
    IN  c \in Command /\ d \in Command /\ i < j /\ <<b, c>> \notin seen.overtook => d \notin after[c]

OrderOf(b) == Calm(b) => Follows(b) /\ WaitsBehind(b) /\ InOrder(b)
Order      == AfterAreOver /\ \A b \in Backup : OrderOf(b)

\* At the start nothing is behind anything.
LEMMA InitOrder == Init => Order
<1> SUFFICES ASSUME Init PROVE Order
  OBVIOUS
<1>1. ASSUME NEW b \in Backup PROVE OrderOf(b)
  <2>1. sent = {} /\ command_count[b] = 0 /\ applied[b] = <<>>
    BY DEF Init, Backup, Server
  <2>2. OnWay(b) = {} /\ Waiting(b) = {} /\ 1..Len(applied[b]) = {}
    BY <2>1 DEF OnWay, Waiting
  <2>3. Has(b) = {}
    BY <2>2 DEF Has, Elements
  <2> QED BY <2>2, <2>3 DEF OrderOf, Follows, WaitsBehind, InOrder
<1> QED BY <1>1 DEF Init, Order, AfterAreOver

\* What a command comes after is settled when its handler begins.
LEMMA AfterSettles ==
  ASSUME TypeInv, Order, Step
  PROVE  /\ AfterAreOver'
         /\ \A b \in Backup, c \in Command : Done(b, c)' => after'[c] = after[c]
<1>1. /\ step \in [Command -> Steps] /\ at \in [Command -> Server] /\ Placed
      /\ after \in [Command -> SUBSET Command]
  BY DEF TypeInv, TypeOK, Steps
<1>2. \A d \in Command : step[d] = "end" => step'[d] = "end"
  <2>1. CASE Elsewhere
    BY <2>1, OthersMove
  <2>2. ASSUME NEW c \in Command, Moves(c) PROVE \A d \in Command : step[d] = "end" => step'[d] = "end"
    BY <1>1, <2>2, ThreadMoves
  <2> QED BY <2>1, <2>2, NextSplit
<1>3. CASE UNCHANGED after
  BY <1>1, <1>2, <1>3 DEF Order, AfterAreOver
<1>4. ASSUME NEW c \in Command, Begin(c) \/ Write(c)
      PROVE  /\ AfterAreOver'
             /\ \A b \in Backup, d \in Command : Done(b, d)' => after'[d] = after[d]
  <2>1. after' = [after EXCEPT ![c] = Ended] /\ at' = at
    BY <1>4 DEF Begin, Write
  <2>2. step[c] = "idle" /\ at[c] = 0
    BY <1>1, <1>4 DEF Begin, Write, To, Placed, PlacedAt
  <2>3. \A b \in Backup : ~Done(b, c)'
    BY <2>1, <2>2 DEF Done, Backup
  <2>4. \A d \in after'[c] : d \in Command /\ step[d] = "end"
    BY <1>1, <2>1 DEF Ended
  <2>5. \A d \in Command \ {c} : after'[d] = after[d]
    BY <1>1, <2>1
  <2> QED BY <1>1, <1>2, <2>3, <2>4, <2>5 DEF Order, AfterAreOver
<1> QED
  BY <1>3, <1>4
  DEF Step, Crash, MarkInactive, Reconnect, Revive, ReplaySend, ReplayEnd, ReplayFail, ReplayReset,
    Perform, Handler, CheckPrimary, ConnectPrimary, Answer, AnswerFail, Report, ReportFail, CheckBackup,
    ConnectBackup, ConnectBackupFail, AddRead, AddStore, AddOverrun, AddCount

\* One more command at the end of what a backup has carried out.
LEMMA OrderGrows ==
  ASSUME NEW b \in Backup, NEW S, applied[b] \in Seq(S), NEW x \in S, InOrder(b),
         applied'[b] = Append(applied[b], x), Garbage \notin Command,
         \A c \in Command \cap Has(b) : after'[c] = after[c],
         \A c : <<b, c>> \in seen.overtook => <<b, c>> \in seen'.overtook,
         x \in Command =>
           \A c \in Command \cap Has(b) : <<b, c>> \notin seen.overtook => x \notin after[c]
  PROVE  InOrder(b)'
<1> DEFINE n == Len(applied[b])
<1>1. /\ Len(applied'[b]) = n + 1 /\ n \in Nat /\ applied'[b][n + 1] = x
      /\ \A k \in 1..n : applied'[b][k] = applied[b][k] /\ applied[b][k] \in Has(b)
  BY AppendElements DEF Has
<1> SUFFICES ASSUME NEW i \in 1..Len(applied'[b]), NEW j \in 1..Len(applied'[b]),
                    applied'[b][i] \in Command, applied'[b][j] \in Command, i < j,
                    <<b, applied'[b][i]>> \notin seen'.overtook
             PROVE  applied'[b][j] \notin after'[applied'[b][i]]
  BY DEF InOrder
<1>2. i \in 1..n /\ (j \in 1..n \/ j = n + 1)
  BY <1>1
<1> HIDE DEF n
<1>3. /\ applied'[b][i] = applied[b][i] /\ applied[b][i] \in Command \cap Has(b)
      /\ after'[applied[b][i]] = after[applied[b][i]]
      /\ <<b, applied[b][i]>> \notin seen.overtook
  BY <1>1, <1>2
<1>4. CASE j \in 1..n
  <2>1. applied'[b][j] = applied[b][j]
    BY <1>1, <1>4
  <2> QED BY <1>2, <1>3, <1>4, <2>1 DEF InOrder, n
<1>5. CASE j = n + 1
  BY <1>1, <1>3, <1>5
<1> QED BY <1>2, <1>4, <1>5

\* The layer is kept.
LEMMA NextOrder == ASSUME Basis, Flow, Order, Step PROVE Order'
<1> SUFFICES ASSUME NEW b \in Backup, Calm(b)' PROVE (Follows(b) /\ WaitsBehind(b) /\ InOrder(b))'
  BY AfterSettles DEF Order, OrderOf, Basis
<1>1. /\ Calm(b) /\ Traffic(b) /\ TypeInv
      /\ \A c : <<b, c>> \in seen.overtook => <<b, c>> \in seen'.overtook
  BY NextTraffic, HistoryGrows, LateStays DEF Basis, TypeInv, Calm, Grown
<1>2. /\ Handled(b) /\ Apart(b) /\ QueuedOnce(b) /\ Known(b) /\ Queued(b) \subseteq Command
      /\ Follows(b) /\ WaitsBehind(b) /\ InOrder(b)
  BY <1>1 DEF Flow, FlowOf, Basis, QueueInv, QueueOf, WaitingAre, Queued, Order, OrderOf
<1>3. /\ applied[b] \in Seq(Command \cup {Garbage})
      /\ OnWay(b) \subseteq Command /\ Garbage \notin Command
  BY CommandAssumption DEF Basis, TypeInv, TypeOK, OnWay, Backup, Server
<1>4. \A c \in Command : Done(b, c) => after'[c] = after[c]
  BY <1>1, AfterSettles, DoneStays DEF TypeInv
<1>5. /\ \A c \in Command : c \in OnWay(b) \cup Queued(b) \cup Has(b) => after'[c] = after[c]
      /\ \A c \in Command : \A d \in after[c] : step[d] = "end"
  BY <1>2, <1>4 DEF Handled, Order, AfterAreOver
<1>6. \A i \in Waiting(b) : commands[b][i] \in Queued(b) /\ commands[b][i] \in Command
                            /\ after'[commands[b][i]] = after[commands[b][i]]
  BY <1>2, <1>5 DEF Queued
<1>7. CASE Still(b) \/ Resets(b)
  <2>1. /\ applied'[b] = applied[b] /\ Has(b)' = Has(b) /\ OnWay(b)' \subseteq OnWay(b)
        /\ Queued(b)' \subseteq Queued(b) /\ Waiting(b)' \subseteq Waiting(b)
        /\ \A i \in Waiting(b)' : commands'[b][i] = commands[b][i]
    BY <1>2, <1>7, QueueMoves DEF Still, Resets, Has, SameQueue, SameEntries
  <2>2. Follows(b)'
    BY <1>1, <1>2, <1>5, <2>1 DEF Follows
  <2>3. WaitsBehind(b)'
    BY <1>2, <1>6, <2>1 DEF WaitsBehind
  <2>4. InOrder(b)'
    <3>1. \A i \in 1..Len(applied[b]) : applied[b][i] \in Has(b)
      BY DEF Has, Elements
    <3> QED BY <1>1, <1>2, <1>5, <2>1, <3>1 DEF InOrder
  <2> QED BY <2>2, <2>3, <2>4
<1>8. CASE Replays(b)
  <2>1. PICK n : n = pos[b] + 1
    OBVIOUS
  <2>2. PICK x : x = commands[b][n]
    OBVIOUS
  <2>3. /\ n \in Waiting(b) /\ Waiting(b)' = Waiting(b) \ {n} /\ \A i \in Waiting(b) : n <= i
        /\ \A i \in Waiting(b) : commands'[b][i] = commands[b][i]
        /\ Queued(b)' = Queued(b) \ {x} /\ x \in Queued(b) /\ x \in Command
        /\ OnWay(b)' = OnWay(b) /\ applied'[b] = Append(applied[b], x)
    BY <1>2, <1>8, <2>1, <2>2, QueueMoves DEF Replays, SameEntries
  <2>4. Has(b)' = Has(b) \cup {x} /\ x \in Command \cup {Garbage}
    <3>1. x \in Command \cup {Garbage}
      BY <2>3
    <3> QED BY <1>3, <2>3, <3>1, AppendElements DEF Has
  <2>5. \A d \in after[x] : d \notin OnWay(b) /\ d \notin Queued(b)'
    <3>1. SUFFICES ASSUME NEW d \in after[x] PROVE d \notin OnWay(b) /\ d \notin Queued(b)'
      OBVIOUS
    <3>2. d \notin OnWay(b) /\ \A j \in Waiting(b) : commands[b][j] = d => j < n
      BY <1>2, <2>2, <2>3 DEF WaitsBehind
    <3>3. \A j \in Waiting(b)' : commands'[b][j] # d
      <4> SUFFICES ASSUME NEW j \in Waiting(b)', commands'[b][j] = d PROVE FALSE
        OBVIOUS
      <4>1. j \in Waiting(b) /\ commands[b][j] = d /\ n <= j
        BY <2>3
      <4>2. n \in Int /\ j \in Int
        BY <2>3, <4>1 DEF Waiting
      <4> QED BY <3>2, <4>1, <4>2
    <3> QED BY <3>2, <3>3 DEF Queued
  <2>6. Follows(b)'
    BY <1>1, <1>2, <1>5, <2>3, <2>4, <2>5 DEF Follows
  <2>7. WaitsBehind(b)'
    BY <1>2, <1>6, <2>3 DEF WaitsBehind
  <2>8. \A c \in Command \cap Has(b) : <<b, c>> \notin seen.overtook => x \notin after[c]
    BY <1>2, <2>3 DEF Follows
  <2>9. InOrder(b)'
    BY <1>1, <1>2, <1>3, <1>5, <2>3, <2>4, <2>8, OrderGrows
  <2> QED BY <2>6, <2>7, <2>9
<1>9. ASSUME NEW c \in Command, Performs(b, c)
      PROVE  (Follows(b) /\ WaitsBehind(b) /\ InOrder(b))'
  <2>1. /\ c \in OnWay(b) /\ OnWay(b)' = OnWay(b) \ {c} /\ Queued(b)' = Queued(b)
        /\ Waiting(b)' = Waiting(b) /\ \A i \in Waiting(b) : commands'[b][i] = commands[b][i]
    BY <1>2, <1>9, QueueMoves DEF Performs, SameQueue, SameEntries
  <2>2. WaitsBehind(b)'
    BY <1>2, <1>6, <2>1 DEF WaitsBehind
  <2>3. CASE applied'[b] = applied[b]
    <3>1. Has(b)' = Has(b)
      BY <2>3 DEF Has
    <3>2. Follows(b)'
      BY <1>1, <1>2, <1>5, <2>1, <3>1 DEF Follows
    <3>3. \A i \in 1..Len(applied[b]) : applied[b][i] \in Has(b)
      BY DEF Has, Elements
    <3>4. InOrder(b)'
      BY <1>1, <1>2, <1>5, <2>3, <3>3 DEF InOrder
    <3> QED BY <2>2, <3>2, <3>4
  <2>4. ASSUME NEW x \in {c, Garbage}, applied'[b] = Append(applied[b], x)
        PROVE  Follows(b)' /\ InOrder(b)'
    <3>1. x \in Command \cup {Garbage}
      OBVIOUS
    <3>2. Has(b)' = Has(b) \cup {x}
      BY <1>3, <2>4, <3>1, AppendElements DEF Has
    <3>3. Follows(b)'
      BY <1>1, <1>2, <1>3, <1>5, <2>1, <3>2 DEF Follows
    <3>4. x \in Command => \A d \in Command \cap Has(b) : <<b, d>> \notin seen.overtook => x \notin after[d]
      BY <1>2, <1>3, <2>1 DEF Follows
    <3>5. InOrder(b)'
      BY <1>1, <1>2, <1>3, <1>5, <2>4, <3>1, <3>4, OrderGrows
    <3> QED BY <3>3, <3>5
  <2> QED BY <1>9, <2>2, <2>3, <2>4 DEF Performs
<1>10. ASSUME NEW c \in Command, SentTo(b, c) \/ QueuedFor(b, c)
       PROVE  step[c] # "end" /\ ~Done(b, c) /\ after'[c] = after[c] /\ c \notin after[c]
  <2>1. at[c] = b /\ ~Done(b, c) /\ Done(b, c)'
    BY <1>10 DEF SentTo, QueuedFor, Turns
  <2>2. step[c] # "end"
    BY <2>1 DEF Done
  <2> QED BY <1>1, <1>5, <2>1, <2>2, AfterSettles
<1>11. ASSUME NEW c \in Command, SentTo(b, c)
       PROVE  (Follows(b) /\ WaitsBehind(b) /\ InOrder(b))'
  <2>1. /\ OnWay(b)' = OnWay(b) \cup {c} /\ Queued(b)' = Queued(b) /\ applied'[b] = applied[b]
        /\ Waiting(b)' = Waiting(b) /\ \A i \in Waiting(b) : commands'[b][i] = commands[b][i]
        /\ Has(b)' = Has(b)
    BY <1>2, <1>11, QueueMoves DEF SentTo, SameQueue, SameEntries, Has
  <2>2. ASSUME <<b, c>> \notin seen'.overtook PROVE OnWay(b) = {} /\ Queued(b) = {}
    <3>1. ~Reviving(b) /\ OnWay(b) = {} /\ up[b]
      BY <1>11, <2>2 DEF SentTo
    <3>2. is_active[b] /\ ~IsLate(b)
      BY <1>1, <3>1 DEF Basis, Awake, UpIsActive, Calm, Confused, IsLate, Backup, Server
    <3>3. command_count[b] = 0
      BY <3>1, <3>2 DEF Basis, Awake, Emptied
    <3>4. Waiting(b) = {}
      BY <3>3 DEF Waiting
    <3> QED BY <3>1, <3>4 DEF Queued
  <2>3. \A x \in Command : \A d \in after[x] : d # c
    BY <1>5, <1>10, <1>11
  <2>4. Follows(b)'
    BY <1>1, <1>2, <1>3, <1>5, <1>10, <1>11, <2>1, <2>2, <2>3 DEF Follows
  <2>5. WaitsBehind(b)'
    BY <1>2, <1>6, <2>1, <2>3 DEF WaitsBehind
  <2>6. \A i \in 1..Len(applied[b]) : applied[b][i] \in Has(b)
    BY DEF Has, Elements
  <2>7. InOrder(b)'
    BY <1>1, <1>2, <1>5, <2>1, <2>6 DEF InOrder
  <2> QED BY <2>4, <2>5, <2>7
<1>12. ASSUME NEW c \in Command, QueuedFor(b, c)
       PROVE  (Follows(b) /\ WaitsBehind(b) /\ InOrder(b))'
  <2>1. PICK n : n = command_count[b] + 1
    OBVIOUS
  <2>2. /\ OnWay(b)' = OnWay(b) /\ Queued(b)' = Queued(b) \cup {c} /\ applied'[b] = applied[b]
        /\ Waiting(b)' = Waiting(b) \cup {n} /\ \A i \in Waiting(b) : commands'[b][i] = commands[b][i]
        /\ commands'[b][n] = c /\ \A i \in Waiting(b) : i < n
        /\ Has(b)' = Has(b)
    BY <1>2, <1>12, <2>1, QueueMoves DEF QueuedFor, SameEntries, Has
  <2>3. OnWay(b) = {}
    <3>1. ~is_active[b]
      <4>1. at[c] = b /\ step[c] \in Adding /\ ~IsLate(b)
        BY <1>1, <1>12 DEF QueuedFor, Turns, Calm, Confused, IsLate
      <4> QED BY <4>1 DEF Basis, Awake, AddersAreLate, IsLate
    <3> QED BY <3>1 DEF Basis, Awake, UpIsActive, SentToUp, OnWay, Backup, Server
  <2>4. \A x \in Command : \A d \in after[x] : d # c
    BY <1>5, <1>10, <1>12
  <2>5. Follows(b)'
    BY <1>1, <1>2, <1>5, <2>2, <2>3, <2>4 DEF Follows
  <2>6. WaitsBehind(b)'
    <3> SUFFICES ASSUME NEW i \in Waiting(b)', NEW d \in after'[commands'[b][i]]
                 PROVE  d \notin OnWay(b)' /\ \A j \in Waiting(b)' : commands'[b][j] = d => j < i
      BY DEF WaitsBehind
    <3>1. CASE i \in Waiting(b)
      <4>1. d \in after[commands[b][i]] /\ commands[b][i] \in Command
        BY <1>6, <2>2, <3>1
      <4>2. d # c
        BY <2>4, <4>1
      <4> QED BY <1>2, <2>2, <3>1, <4>1, <4>2 DEF WaitsBehind
    <3>2. CASE i = n
      <4>1. d \in after[c]
        BY <1>10, <1>12, <2>2, <3>2
      <4>2. d # c
        BY <2>4, <4>1
      <4> QED BY <2>2, <2>3, <3>2, <4>2
    <3> QED BY <2>2, <3>1, <3>2
  <2>7. \A i \in 1..Len(applied[b]) : applied[b][i] \in Has(b)
    BY DEF Has, Elements
  <2>8. InOrder(b)'
    BY <1>1, <1>2, <1>5, <2>2, <2>7 DEF InOrder
  <2> QED BY <2>5, <2>6, <2>8
<1> QED BY <1>1, <1>7, <1>8, <1>9, <1>11, <1>12 DEF Traffic

-----------------------------------------------------------------------------
(* All the layers together.                                                *)
CopyInv == Basis /\ Flow /\ Ground /\ AllBacked /\ Keep /\ Order

\* A step in which nothing happens changes nothing of it.
LEMMA CopyRests == ASSUME CopyInv, UNCHANGED vars PROVE CopyInv'
<1>1. UNCHANGED <<kind, up, is_active, crashes, commands, command_count, replay, pos, step, at, z,
                  sent, applied, after, seen>>
  BY DEF vars, servers, queue, revival, thread
<1>2. Basis'
  BY BasisRests DEF CopyInv
<1>3. \A b \in Backup : /\ (Calm(b)' => Calm(b)) /\ Waiting(b)' = Waiting(b) /\ OnWay(b)' = OnWay(b)
                        /\ Queued(b)' = Queued(b) /\ Has(b)' = Has(b)
  BY <1>1 DEF Calm, Confused, Waiting, OnWay, Queued, Has
<1>4. Flow'
  BY <1>1, <1>3 DEF CopyInv, Flow, FlowOf, Handled, Apart, QueuedOnce, AppliedOnce, Known, Done
<1>5. Ground'
  BY <1>1 DEF CopyInv, Ground, AwayFrom0, WaitingAt0, Passed, Put, HalvedWrites, Sent0, Grounded
<1>6. AllBacked'
  BY <1>1 DEF CopyInv, AllBacked, Backed, Grounded, Confused
<1>7. Keep'
  BY <1>1, <1>3 DEF CopyInv, Keep, NotYet, KeptOf, FailedAre, Void, Reached, Fault, Past
<1>8. Order'
  BY <1>1, <1>3 DEF CopyInv, Order, AfterAreOver, OrderOf, Follows, WaitsBehind, InOrder
<1> QED BY <1>2, <1>4, <1>5, <1>6, <1>7, <1>8 DEF CopyInv

\* The layers hold in every reachable state.
THEOREM CopyInvHolds == Spec => []CopyInv
<1>1. Init => CopyInv
  BY InitType, InitAwake, InitQueue, InitFlow, InitGround, InitBacked, InitKeep, InitOrder,
    InitEarned
  DEF CopyInv, Basis
<1>2. CopyInv /\ [Next]_vars => CopyInv'
  <2>1. CopyInv /\ Next => CopyInv'
    <3> SUFFICES ASSUME CopyInv, Next PROVE CopyInv'
      OBVIOUS
    <3>1. Step
      BY DEF Next
    <3>2. Basis'
      BY <3>1, NextType, NextAwake, NextQueueInv, NextEarned DEF CopyInv, Basis
    <3> QED BY <3>1, <3>2, NextFlow, NextGround, NextBacked, NextKeep, NextOrder DEF CopyInv, Basis
  <2> QED BY <2>1, CopyRests
<1> QED BY <1>1, <1>2, PTL DEF Spec

\* A backup carries no command out twice, for any commands, as long as its
\* queue is not misused (addcommand, naming_server.c:86-96).
THEOREM OnceEach == Spec => []EachOnce
<1>1. CopyInv => EachOnce
  BY DEF CopyInv, Flow, FlowOf, Calm, AppliedOnce, EachOnce
<1> QED BY <1>1, CopyInvHolds, PTL

\* A backup carries out nothing that the primary has not carried out, declined
\* or gone down with (naming_server.c:97-349, 1442-1544).
THEOREM NothingBesides == Spec => []NothingElse
<1>1. CopyInv => NothingElse
  BY DEF CopyInv, AllBacked, Backed, Grounded, NothingElse
<1> QED BY <1>1, CopyInvHolds, PTL

\* What the primary has carried out an active backup has too, or one of the
\* faults of the history befell it (naming_server.c:97-349, 1128-1172).
THEOREM CopiesComplete == Spec => []CopiesKeepUp
<1>1. CopyInv => CopiesKeepUp
  <2> SUFFICES ASSUME CopyInv, NEW b \in Backup, NEW c \in Command, step[c] = "end",
                      c \in Elements(applied[0]), is_active[b], ~Reviving(b), Calm(b)
               PROVE  c \in Elements(applied[b]) \/ <<b, c>> \in sent \/ Excused(b, c)
    BY DEF CopiesKeepUp, Ended, Excused, Calm
  <2>1. Reached(b, c)
    BY DEF CopyInv, Keep, KeptOf, Past, Void
  <2>2. command_count[b] = 0
    BY DEF CopyInv, Basis, Awake, Emptied, Calm, Confused, IsLate
  <2>3. Queued(b) = {}
    BY <2>2 DEF Queued, Waiting
  <2> QED BY <2>1, <2>3 DEF Reached, Fault, Excused, Has, OnWay
<1> QED BY <1>1, CopyInvHolds, PTL

\* A backup carries a command out after those that were over when it began,
\* unless it overtook them (naming_server.c:1206).
THEOREM InOrderKept == Spec => []OrderKept
<1>1. CopyInv => OrderKept
  BY DEF CopyInv, Order, OrderOf, InOrder, Calm, OrderKept
<1> QED BY <1>1, CopyInvHolds, PTL
=============================================================================
