----------------------------- MODULE FolderCopy -----------------------------
(***************************************************************************)
(* COPY of a folder from one storage server to another (copy_from_folder   *)
(* of storage_server/storage_server.c, paste_to_folder and extract_path of *)
(* storage_server/file_manager.c).  The source packs the folder with zip,  *)
(* in the directory the folder is in, and sends the archive; the           *)
(* destination unpacks it.                                                 *)
(*                                                                         *)
(* Every request has a thread of its own, but the working directory, by    *)
(* which all relative paths are found, belongs to the process, and so does *)
(* the buffer extract_path returns.                                        *)
(***************************************************************************)
EXTENDS Integers, FiniteSets

CONSTANTS
  Server,
  Copy,
  Folder,   \* the folders there are; a copy is of one, from From to To, into Into
  From, To, Of, Into,
  Parent,   \* the directory a folder is in
  Home,     \* the directory a server is started in
  Torn,     \* a path put together of two
  Large,    \* copies whose archive may not come in one read
  Taken,    \* copies that find files of theirs where they go
  Frail     \* copies that a send or unzip may fail for

ASSUME CopyAssumption ==
  /\ From \in [Copy -> Server] /\ To \in [Copy -> Server]
  /\ Of \in [Copy -> Folder]
  /\ Torn \notin {Into[j] : j \in Copy}
  /\ {Large, Taken, Frail} \subseteq SUBSET Copy

VARIABLES
  cwd,      \* the working directory of a server
  copying,  \* what the thread of a copy at the source has done
  original_dir,
  archive,  \* the archives at the sources, by server and folder
  pasting,  \* what the thread of a copy at the destination has done
  result,   \* the buffer of extract_path
  landed,   \* where unzip has put a copy, or waits to
  short,    \* copies whose archive came cut
  gone,     \* servers that have crashed
  hampered, \* history: copies whose unzip failed, or had to ask
  met,      \* history: pairs of copies that were at one server at once
  stuck     \* history: servers where zip failed

source == <<copying, original_dir, archive>>
dest   == <<pasting, result, landed, short, gone, hampered>>
vars   == <<cwd, source, dest, met, stuck>>

Dirs   == {Home} \cup {Parent[f] : f \in Folder}
Places == {Into[j] : j \in Copy} \cup {Torn}

Copying == {"no", "saved", "moved", "zipped", "back", "read", "sending", "sent",
            "removed", "completed", "failed"}
Pasting == {"no", "touched", "received", "written", "copied", "asking", "ended"}

Init ==
  /\ cwd = [s \in Server |-> Home]
  /\ copying = [j \in Copy |-> "no"]
  /\ original_dir = [j \in Copy |-> Home]
  /\ archive = {}
  /\ pasting = [j \in Copy |-> "no"]
  /\ result = [s \in Server |-> Torn]
  /\ landed = [j \in Copy |-> {}]
  /\ short = {} /\ gone = {} /\ hampered = {}
  /\ met = {}
  /\ stuck = {}

AtHome(s) == cwd[s] = Home
Local(j)  == From[j] = To[j]
Zip(j)    == <<From[j], Of[j]>>

\* Is a copy under way at s, as its source or as its destination?
AtSource(i, s) == From[i] = s /\ ~Local(i) /\ copying[i] \notin {"no", "completed", "failed"}
AtDest(i, s)   == To[i] = s /\ pasting[i] \notin {"no", "ended"}
Met(j, s) == {{i, j} : i \in {k \in Copy \ {j} : AtSource(k, s) \/ AtDest(k, s)}}

Goes(j, from, to) == copying[j] = from /\ copying' = [copying EXCEPT ![j] = to]
Fails(j, from) == Goes(j, from, "failed")

-----------------------------------------------------------------------------
(* The source.                                                             *)

\* To a folder of the same server it is cp, and no answer.
CopyLocal(j) ==
  /\ Local(j)
  /\ Goes(j, "no", IF AtHome(From[j]) THEN "completed" ELSE "failed")
  /\ landed' = [landed EXCEPT ![j] = IF AtHome(From[j]) THEN {Into[j]} ELSE @]
  /\ UNCHANGED <<cwd, original_dir, archive, pasting, result, short, gone, hampered, met, stuck>>

Save(j) ==
  /\ ~Local(j)
  /\ Goes(j, "no", "saved")
  /\ original_dir' = [original_dir EXCEPT ![j] = cwd[From[j]]]
  /\ met' = met \cup Met(j, From[j])
  /\ UNCHANGED <<cwd, archive, dest, stuck>>

\* A folder at the top is packed from where the server is; for any other the
\* server goes to the folder's parent, by a relative path.
Move(j) ==
  /\ IF Parent[Of[j]] = Home
     THEN Goes(j, "saved", "moved") /\ UNCHANGED cwd
     ELSE \/ /\ AtHome(From[j]) /\ Goes(j, "saved", "moved")
             /\ cwd' = [cwd EXCEPT ![From[j]] = Parent[Of[j]]]
          \/ ~AtHome(From[j]) /\ Fails(j, "saved") /\ UNCHANGED cwd
  /\ UNCHANGED <<original_dir, archive, dest, met, stuck>>

Pack(j) ==
  /\ cwd[From[j]] = Parent[Of[j]]
  /\ Goes(j, "moved", "zipped")
  /\ archive' = archive \cup {Zip(j)}
  /\ UNCHANGED <<cwd, original_dir, dest, met, stuck>>

\* zip finds no folder, or fails; the server stays where it is.
PackFail(j) ==
  /\ Fails(j, "moved")
  /\ stuck' = stuck \cup {From[j]}
  /\ UNCHANGED <<cwd, original_dir, archive, dest, met>>

\* Mutation: the server stays.
ReturnNot(j) ==
  /\ Goes(j, "zipped", "back")
  /\ UNCHANGED <<cwd, original_dir, archive, dest, met, stuck>>

\* Back to where the server was, moved or not.
Return(j) ==
  /\ Goes(j, "zipped", "back")
  /\ cwd' = [cwd EXCEPT ![From[j]] = original_dir[j]]
  /\ UNCHANGED <<original_dir, archive, dest, met, stuck>>

\* The archive is read whole, if it is found.
Open(j) ==
  /\ IF AtHome(From[j]) /\ Zip(j) \in archive
     THEN Goes(j, "back", "read") ELSE Fails(j, "back")
  /\ UNCHANGED <<cwd, original_dir, archive, dest, met, stuck>>

\* Mutation: a connection that fails is not noticed.
ConnectAnyway(j) ==
  /\ \/ /\ Goes(j, "read", "sending")
        /\ pasting' = [pasting EXCEPT ![j] = "touched"]
        /\ met' = met \cup Met(j, To[j])
     \/ Goes(j, "read", "sent") /\ UNCHANGED <<pasting, met>>
  /\ UNCHANGED <<cwd, original_dir, archive, result, landed, short, gone, hampered, stuck>>

\* The request to paste; the other server may be away.
Connect(j) ==
  /\ \/ /\ Goes(j, "read", "sending")
        /\ pasting' = [pasting EXCEPT ![j] = "touched"]
        /\ met' = met \cup Met(j, To[j])
     \/ Fails(j, "read") /\ UNCHANGED <<pasting, met>>
  /\ UNCHANGED <<cwd, original_dir, archive, result, landed, short, gone, hampered, stuck>>

SendArchive(j) ==
  /\ Goes(j, "sending", "sent")
  /\ UNCHANGED <<cwd, original_dir, archive, dest, met, stuck>>

\* One of the sends fails, and the archive stays.
SendArchiveFail(j) ==
  /\ j \in Frail
  /\ Fails(j, "sending")
  /\ UNCHANGED <<cwd, original_dir, archive, dest, met, stuck>>

Remove(j) ==
  /\ Goes(j, "sent", "removed")
  /\ archive' = IF AtHome(From[j]) THEN archive \ {Zip(j)} ELSE archive
  /\ UNCHANGED <<cwd, original_dir, dest, met, stuck>>

\* "completed copying"
Answer(j) ==
  /\ Goes(j, "removed", "completed")
  /\ UNCHANGED <<cwd, original_dir, archive, dest, met, stuck>>

CopyFrom(j) ==
  /\ From[j] \notin gone
  /\ \/ CopyLocal(j) \/ Save(j) \/ Move(j) \/ Pack(j) \/ PackFail(j) \/ Return(j) \/ Open(j)
     \/ Connect(j) \/ SendArchive(j) \/ SendArchiveFail(j) \/ Remove(j) \/ Answer(j)

-----------------------------------------------------------------------------
(* The destination.                                                        *)
Pastes(j, from, to) == pasting[j] = from /\ pasting' = [pasting EXCEPT ![j] = to]

\* Mutation: the read is for less than any archive has.
ReceivePiece(j) ==
  /\ copying[j] \in {"sending", "sent", "removed", "completed"}
  /\ Pastes(j, "touched", "received")
  /\ short' = short \cup {j}
  /\ UNCHANGED <<cwd, source, result, landed, gone, hampered, met, stuck>>

\* One read takes what there is by then.
Receive(j) ==
  /\ copying[j] \in {"sending", "sent", "removed", "completed"}
  /\ Pastes(j, "touched", "received")
  /\ \/ UNCHANGED short
     \/ j \in Large /\ short' = short \cup {j}
  /\ UNCHANGED <<cwd, source, result, landed, gone, hampered, met, stuck>>

Broken(j) == copying[j] = "failed" \/ (copying[j] = "sending" /\ From[j] \in gone)

\* Of a connection that has broken off a part is taken, or nothing, or the read
\* fails; and where the size has not come, memory for whatever number was there
\* may not be had, and the server crashes.
ReceiveBroken(j) ==
  /\ Broken(j)
  /\ \/ Pastes(j, "touched", "received") /\ short' = short \cup {j} /\ UNCHANGED gone
     \/ Pastes(j, "touched", "ended") /\ UNCHANGED <<short, gone>>
     \/ Pastes(j, "touched", "ended") /\ gone' = gone \cup {To[j]} /\ UNCHANGED short
  /\ UNCHANGED <<cwd, source, result, landed, hampered, met, stuck>>

\* The archive is written where the path leads from here.
Store(j) ==
  /\ Pastes(j, "received", IF AtHome(To[j]) THEN "written" ELSE "ended")
  /\ UNCHANGED <<cwd, source, result, landed, short, gone, hampered, met, stuck>>

\* Mutation: the buffer is filled once.
ExtractPathOnce(j) ==
  /\ Pastes(j, "written", "copied")
  /\ result' = [result EXCEPT ![To[j]] = IF @ = Torn THEN Into[j] ELSE @]
  /\ UNCHANGED <<cwd, source, landed, short, gone, hampered, met, stuck>>

\* extract_path copies into the buffer, which another thread that copies into it
\* or reads it meanwhile may find torn.
ExtractPath(j) ==
  /\ Pastes(j, "written", "copied")
  /\ \E path \in {Into[j]} \cup
         {Torn : i \in {k \in Copy \ {j} : To[k] = To[j] /\ pasting[k] = "copied"}} :
       result' = [result EXCEPT ![To[j]] = path]
  /\ UNCHANGED <<cwd, source, landed, short, gone, hampered, met, stuck>>

\* Does unzip find files of the copy where it goes?
Occupied(j) ==
  \/ j \in Taken
  \/ \E i \in Copy \ {j} : Of[i] = Of[j] /\ To[i] = To[j] /\ result[To[j]] \in landed[i]

\* unzip into the path the buffer holds; an archive that is cut, or is not found
\* from here, gives nothing.  Either way it is removed.
Unpack(j) ==
  /\ AtHome(To[j]) /\ j \notin short => ~Occupied(j)
  /\ Pastes(j, "copied", "ended")
  /\ landed' = [landed EXCEPT ![j] =
       IF AtHome(To[j]) /\ j \notin short THEN @ \cup {result[To[j]]} ELSE @]
  /\ UNCHANGED <<cwd, source, result, short, gone, hampered, met, stuck>>

\* It fails, and no one looks at how it went.
UnpackFail(j) ==
  /\ j \in Frail
  /\ Pastes(j, "copied", "ended")
  /\ hampered' = hampered \cup {j}
  /\ UNCHANGED <<cwd, source, result, landed, short, gone, met, stuck>>

\* Without -o it asks before it replaces a file.
UnpackAsk(j) ==
  /\ AtHome(To[j]) /\ j \notin short /\ Occupied(j)
  /\ Pastes(j, "copied", "asking")
  /\ landed' = [landed EXCEPT ![j] = @ \cup {result[To[j]]}]
  /\ hampered' = hampered \cup {j}
  /\ UNCHANGED <<cwd, source, result, short, gone, met, stuck>>

\* Someone at the server's terminal answers.
Reply(j) ==
  /\ Pastes(j, "asking", "ended")
  /\ UNCHANGED <<cwd, source, result, landed, short, gone, hampered, met, stuck>>

PasteTo(j) ==
  /\ To[j] \notin gone
  /\ \/ Receive(j) \/ ReceiveBroken(j) \/ Store(j) \/ ExtractPath(j)
     \/ Unpack(j) \/ UnpackFail(j) \/ UnpackAsk(j) \/ Reply(j)

Next == \E j \in Copy : CopyFrom(j) \/ PasteTo(j)

Spec == Init /\ [][Next]_vars

\* Threads that have begun are scheduled; as each of them takes a few steps only,
\* it is enough that some thread does.  Whether a copy is asked for, or unzip's
\* question answered, is not known.
Fairness ==
  WF_vars(\E j \in Copy : \/ (copying[j] # "no" /\ CopyFrom(j))
                           \/ (pasting[j] # "asking" /\ PasteTo(j)))

FairSpec == Spec /\ Fairness

-----------------------------------------------------------------------------
TypeOK ==
  /\ cwd \in [Server -> Dirs]
  /\ copying \in [Copy -> Copying]
  /\ original_dir \in [Copy -> Dirs]
  /\ archive \subseteq Server \X Folder
  /\ pasting \in [Copy -> Pasting]
  /\ result \in [Server -> Places]
  /\ landed \in [Copy -> SUBSET Places]
  /\ short \subseteq Large \cup {j \in Copy : Broken(j)}
  /\ gone \subseteq Server
  /\ hampered \subseteq Copy
  /\ met \subseteq SUBSET Copy
  /\ stuck \subseteq Server

Overlapped(s) == \E i, j \in Copy : i # j /\ {i, j} \in met /\ From[i] = s /\ From[j] = s

\* A server is back home once no copy has it elsewhere, unless zip failed there or
\* two copies from it were under way at once: then every relative path of every
\* later request is looked for in the wrong directory (storage_server.c:447-472).
CwdComesHome ==
  \A s \in Server :
    ~AtHome(s) =>
      \/ \E j \in Copy : From[j] = s /\ copying[j] \in {"moved", "zipped"}
      \/ s \in stuck \/ Overlapped(s)

\* A copy is unpacked in the folder it is for and nowhere else, unless another
\* was pasted at the server at the same time (file_manager.c:262-287, 339-347).
LandsInPlace ==
  \A j \in Copy :
    landed[j] \subseteq {Into[j]} \/ \E i \in Copy \ {j} : {i, j} \in met /\ To[i] = To[j]

\* What was answered with "completed copying" ends up in the folder it is for,
\* unless its archive came cut, unzip failed or had to ask before it replaced a
\* file, another copy was at one of its servers, or the destination has lost its
\* way home or crashed (storage_server.c:532-563, file_manager.c:345-351).
CompletedLands ==
  []<>\A j \in Copy :
    copying[j] = "completed" =>
      \/ Into[j] \in landed[j]
      \/ j \in short \cup hampered \/ (\E i \in Copy \ {j} : {i, j} \in met)
      \/ To[j] \in stuck \cup gone \/ Overlapped(To[j])
=============================================================================
