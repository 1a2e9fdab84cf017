-------------------------- MODULE FolderCopyProofs --------------------------
(***************************************************************************)
(* What FolderCopy keeps, for any servers, copies and folders: its type,   *)
(* that a server's working directory comes home, and that a copy lands     *)
(* where it is to.                                                         *)
(***************************************************************************)
EXTENDS FolderCopy, TLAPS

-----------------------------------------------------------------------------
(* The type invariant.                                                     *)

\* Nothing has been copied at first.
LEMMA InitType == Init => TypeOK
BY CopyAssumption DEF Init, TypeOK, Copying, Pasting, Places, Dirs

\* Copies that meet are pairs of copies.
LEMMA MetType == ASSUME NEW j \in Copy, NEW s PROVE Met(j, s) \subseteq SUBSET Copy
BY DEF Met

\* Each step of a source keeps the type.
LEMMA SourceType ==
  ASSUME TypeOK, NEW j \in Copy, CopyFrom(j) PROVE TypeOK'
<1> USE CopyAssumption DEF TypeOK, Copying, Pasting, Places, Dirs, Goes, Fails, dest, Broken
<1>1. CASE CopyLocal(j) BY <1>1 DEF CopyLocal
<1>2. CASE Save(j) BY <1>2, MetType DEF Save
<1>3. CASE Move(j) BY <1>3 DEF Move
<1>4. CASE Pack(j) BY <1>4 DEF Pack, Zip
<1>5. CASE PackFail(j) BY <1>5 DEF PackFail
<1>6. CASE Return(j) BY <1>6 DEF Return
<1>7. CASE Open(j) BY <1>7 DEF Open
<1>8. CASE Connect(j) BY <1>8, MetType DEF Connect
<1>9. CASE SendArchive(j)
  <2>1. From[j] \notin gone
    BY DEF CopyFrom
  <2> QED BY <1>9, <2>1 DEF SendArchive
<1>10. CASE Remove(j) BY <1>10 DEF Remove
<1>11. CASE Answer(j) BY <1>11 DEF Answer
<1>12. CASE SendArchiveFail(j) BY <1>12 DEF SendArchiveFail
<1> QED BY <1>1, <1>2, <1>3, <1>4, <1>5, <1>6, <1>7, <1>8, <1>9, <1>10, <1>11, <1>12 DEF CopyFrom

\* Each step of a destination does too.
LEMMA DestType ==
  ASSUME TypeOK, NEW j \in Copy, PasteTo(j) PROVE TypeOK'
<1> USE CopyAssumption DEF TypeOK, Copying, Pasting, Places, Dirs, Pastes, source, Broken
<1>1. CASE Receive(j) BY <1>1 DEF Receive
<1>2. CASE Store(j) BY <1>2 DEF Store
<1>3. CASE ExtractPath(j) BY <1>3 DEF ExtractPath
<1>4. CASE Unpack(j) BY <1>4 DEF Unpack
<1>5. CASE ReceiveBroken(j) BY <1>5 DEF ReceiveBroken
<1>6. CASE UnpackFail(j) BY <1>6 DEF UnpackFail
<1>7. CASE UnpackAsk(j) BY <1>7 DEF UnpackAsk
<1>8. CASE Reply(j) BY <1>8 DEF Reply
<1> QED BY <1>1, <1>2, <1>3, <1>4, <1>5, <1>6, <1>7, <1>8 DEF PasteTo

\* The state keeps its shape, whatever is copied from where to where.
THEOREM TypeCorrect == Spec => []TypeOK
<1>1. TypeOK /\ [Next]_vars => TypeOK'
  <2> SUFFICES ASSUME TypeOK, [Next]_vars PROVE TypeOK'
    OBVIOUS
  <2>1. CASE UNCHANGED vars
    BY <2>1 DEF vars, source, dest, TypeOK, Broken
  <2>2. CASE Next
    BY <2>2, SourceType, DestType DEF Next
  <2> QED BY <2>1, <2>2
<1> QED BY InitType, <1>1, PTL DEF Spec

-----------------------------------------------------------------------------
(* The working directory.  Where no two copies met at their source and zip *)
(* did not fail, a server is away from home only while a copy has it away, *)
(* and what each copy has saved to return to is home.                      *)
Away(j)    == copying[j] \in {"moved", "zipped"}
Clean(s)   == s \notin stuck /\ ~Overlapped(s)
LocalEnds  == \A j \in Copy : Local(j) => copying[j] \in {"no", "completed", "failed"}
AwayByOne(s) == ~AtHome(s) => \E j \in Copy : From[j] = s /\ Away(j)
SavedHome(s) ==
  \A j \in Copy : From[j] = s /\ (copying[j] = "saved" \/ Away(j)) => original_dir[j] = Home

CwdInv ==
  /\ TypeOK
  /\ LocalEnds
  /\ \A s \in Server : Clean(s) => AwayByOne(s) /\ SavedHome(s)

\* A server starts at home.
LEMMA InitCwd == Init => CwdInv
BY InitType, CopyAssumption DEF Init, CwdInv, LocalEnds, AwayByOne, SavedHome, AtHome, Away

\* What spoils a server, a meeting or a failed zip, is never undone.
LEMMA CleanBefore ==
  ASSUME NEW s \in Server, met \subseteq met', stuck \subseteq stuck', Clean(s)' PROVE Clean(s)
BY DEF Clean, Overlapped

\* A copy that saves the directory meets whichever copy has its server away.
LEMMA SaveMeets ==
  ASSUME NEW j \in Copy, NEW i \in Copy, LocalEnds, Save(j), From[i] = From[j], Away(i)
  PROVE ~Clean(From[j])'
<1>1. i # j /\ AtSource(i, From[j])
  BY DEF Save, Goes, Away, AtSource, LocalEnds
<1>2. {i, j} \in met'
  BY <1>1 DEF Save, Met
<1> QED BY <1>1, <1>2 DEF Clean, Overlapped

\* Only the steps of a source move it.
LEMMA SourceCwd ==
  ASSUME CwdInv, NEW j \in Copy, CopyFrom(j) PROVE CwdInv'
<1>1. TypeOK /\ TypeOK' /\ LocalEnds
  BY SourceType DEF CwdInv
<1>2. LocalEnds'
  BY <1>1 DEF CopyFrom, CopyLocal, Save, Move, Pack, PackFail, Return, Open, Connect, SendArchive,
    SendArchiveFail, Remove, Answer, Goes, Fails, LocalEnds, Local, TypeOK
<1>3. met \subseteq met' /\ stuck \subseteq stuck'
  BY DEF CopyFrom, CopyLocal, Save, Move, Pack, PackFail, Return, Open, Connect, SendArchive,
    SendArchiveFail, Remove, Answer
<1>4. ASSUME NEW s \in Server, Clean(s)' PROVE AwayByOne(s)' /\ SavedHome(s)'
  <2>1. Clean(s) /\ AwayByOne(s) /\ SavedHome(s)
    BY <1>3, <1>4, CleanBefore DEF CwdInv
  <2>2. CASE Save(j)
    <3>1. From[j] = s => cwd[s] = Home
      BY <1>1, <1>4, <2>1, <2>2, SaveMeets DEF AwayByOne, AtHome
    <3>2. AwayByOne(s)'
      BY <1>1, <2>1, <2>2 DEF Save, Goes, AwayByOne, AtHome, Away, TypeOK
    <3>3. SavedHome(s)'
      BY <1>1, <2>1, <2>2, <3>1 DEF Save, Goes, SavedHome, Away, TypeOK
    <3> QED BY <3>2, <3>3
  <2>3. CASE Move(j)
    <3>1. AwayByOne(s)'
      BY <1>1, <2>1, <2>3, CopyAssumption DEF Move, Goes, Fails, AwayByOne, AtHome, Away, TypeOK
    <3>2. SavedHome(s)'
      BY <1>1, <2>1, <2>3 DEF Move, Goes, Fails, SavedHome, Away, TypeOK
    <3> QED BY <3>1, <3>2
  <2>4. CASE Pack(j)
    BY <1>1, <2>1, <2>4 DEF Pack, Goes, SavedHome, AwayByOne, AtHome, Away, TypeOK
  <2>5. CASE PackFail(j)
    <3>1. From[j] # s
      BY <1>4, <2>5 DEF PackFail, Clean
    <3> QED
      BY <1>1, <2>1, <2>5, <3>1 DEF PackFail, Fails, Goes, SavedHome, AwayByOne, AtHome, Away, TypeOK
  <2>6. CASE Return(j)
    <3>1. AwayByOne(s)'
      <4>1. CASE From[j] = s
        BY <1>1, <2>1, <2>6, <4>1 DEF Return, Goes, SavedHome, AwayByOne, AtHome, Away, TypeOK
      <4>2. CASE From[j] # s
        BY <1>1, <2>1, <2>6, <4>2, CopyAssumption DEF Return, Goes, AwayByOne, AtHome, Away, TypeOK
      <4> QED BY <4>1, <4>2
    <3>2. SavedHome(s)'
      BY <1>1, <2>1, <2>6 DEF Return, Goes, SavedHome, Away, TypeOK
    <3> QED BY <3>1, <3>2
  <2>7. CASE CopyLocal(j) \/ Open(j) \/ Connect(j) \/ SendArchive(j)
         \/ SendArchiveFail(j) \/ Remove(j) \/ Answer(j)
    <3>1. UNCHANGED <<cwd, original_dir>>
      BY <2>7 DEF CopyLocal, Open, Connect, SendArchive, SendArchiveFail, Remove, Answer
    <3>2. \A i \in Copy : (Away(i)' <=> Away(i)) /\ (copying'[i] = "saved" <=> copying[i] = "saved")
      BY <1>1, <2>7 DEF CopyLocal, Open, Connect, SendArchive, SendArchiveFail, Remove, Answer, Goes, Fails, Away, TypeOK
    <3> QED BY <2>1, <3>1, <3>2 DEF AwayByOne, SavedHome, AtHome
  <2> QED BY <2>2, <2>3, <2>4, <2>5, <2>6, <2>7 DEF CopyFrom
<1> QED BY <1>1, <1>2, <1>4 DEF CwdInv

\* A server is back home once no copy has it elsewhere, unless zip failed there
\* or two copies from it were under way at once.
THEOREM CwdHome == Spec => []CwdComesHome
<1>1. CwdInv /\ [Next]_vars => CwdInv'
  <2> SUFFICES ASSUME CwdInv, [Next]_vars PROVE CwdInv'
    OBVIOUS
  <2>1. ASSUME UNCHANGED <<cwd, copying, original_dir, met, stuck>>, TypeOK' PROVE CwdInv'
    <3>1. \A i \in Copy : Away(i)' <=> Away(i)
      BY <2>1 DEF Away
    <3>2. \A s \in Server : (Clean(s)' <=> Clean(s)) /\ (SavedHome(s) => SavedHome(s)')
      BY <2>1, <3>1 DEF Clean, Overlapped, SavedHome
    <3>3. \A s \in Server : AwayByOne(s) => AwayByOne(s)'
      BY <2>1, <3>1 DEF AwayByOne, AtHome
    <3>4. LocalEnds'
      BY <2>1 DEF CwdInv, LocalEnds
    <3> QED BY <2>1, <3>2, <3>3, <3>4 DEF CwdInv
  <2>2. CASE UNCHANGED vars
    BY <2>1, <2>2 DEF vars, source, dest, CwdInv, TypeOK, Broken
  <2>3. ASSUME NEW j \in Copy, PasteTo(j) PROVE CwdInv'
    BY <2>1, <2>3, DestType DEF CwdInv, PasteTo, Receive, ReceiveBroken, Store, ExtractPath, Unpack,
      UnpackFail, UnpackAsk, Reply, source
  <2> QED BY <2>2, <2>3, SourceCwd DEF Next
<1>2. CwdInv => CwdComesHome
  BY DEF CwdInv, CwdComesHome, AwayByOne, Clean, Away
<1> QED BY InitCwd, <1>1, <1>2, PTL DEF Spec

-----------------------------------------------------------------------------
(* The place.  Two copies that are pasted at one server at once have met,  *)
(* so the buffer a copy reads that met none is as it filled it.            *)
Apart(j) == ~\E i \in Copy \ {j} : {i, j} \in met /\ To[i] = To[j]

PastingMeet ==
  \A i, j \in Copy :
    i # j /\ To[i] = To[j] /\ AtDest(i, To[i]) /\ AtDest(j, To[j]) => {i, j} \in met

BufferOwn == \A j \in Copy : pasting[j] = "copied" /\ Apart(j) => result[To[j]] = Into[j]

PlaceInv ==
  /\ TypeOK
  /\ PastingMeet
  /\ BufferOwn
  /\ LandsInPlace

\* Nothing is pasted at first.
LEMMA InitPlace == Init => PlaceInv
BY InitType DEF Init, PlaceInv, PastingMeet, BufferOwn, LandsInPlace, AtDest

\* Of the steps of a source only the connection concerns the destination: the
\* copy meets whatever is pasted there.
LEMMA SourcePlace ==
  ASSUME PlaceInv, NEW j \in Copy, CopyFrom(j) PROVE PlaceInv'
<1>1. TypeOK /\ TypeOK'
  BY SourceType DEF PlaceInv
<1>2. met \subseteq met' /\ result' = result
  BY DEF CopyFrom, CopyLocal, Save, Move, Pack, PackFail, Return, Open, Connect, SendArchive,
    SendArchiveFail, Remove, Answer, dest
<1>3. \A i \in Copy : Apart(i)' => Apart(i)
  BY <1>2 DEF Apart
<1>4. LandsInPlace'
  <2>1. \A i \in Copy : landed'[i] \subseteq landed[i] \cup {Into[i]}
    BY <1>1 DEF CopyFrom, CopyLocal, Save, Move, Pack, PackFail, Return, Open, Connect, SendArchive,
      SendArchiveFail, Remove, Answer, dest, TypeOK
  <2> QED BY <1>2, <2>1 DEF PlaceInv, LandsInPlace
<1>5. CASE Connect(j) /\ pasting' # pasting
  <2>1. pasting' = [pasting EXCEPT ![j] = "touched"] /\ met' = met \cup Met(j, To[j])
    BY <1>5 DEF Connect
  <2>2. PastingMeet'
    <3> SUFFICES ASSUME NEW i \in Copy, NEW k \in Copy, i # k, To[i] = To[k],
                        AtDest(i, To[i])', AtDest(k, To[k])'
                 PROVE {i, k} \in met'
      BY DEF PastingMeet
    <3>1. CASE i # j /\ k # j
      BY <1>1, <1>2, <2>1, <3>1 DEF PlaceInv, PastingMeet, AtDest, TypeOK
    <3>2. CASE i = j
      <4>1. AtDest(k, To[j])
        BY <1>1, <2>1, <3>2 DEF AtDest, TypeOK
      <4>2. {k, j} \in Met(j, To[j])
        BY <3>2, <4>1 DEF Met
      <4> QED BY <2>1, <3>2, <4>2
    <3>3. CASE k = j
      <4>1. AtDest(i, To[j])
        BY <1>1, <2>1, <3>3 DEF AtDest, TypeOK
      <4>2. {i, j} \in Met(j, To[j])
        BY <3>3, <4>1 DEF Met
      <4> QED BY <2>1, <3>3, <4>2
    <3> QED BY <3>1, <3>2, <3>3
  <2>3. BufferOwn'
    BY <1>1, <1>2, <1>3, <2>1 DEF PlaceInv, BufferOwn, TypeOK
  <2> QED BY <1>1, <1>4, <2>2, <2>3 DEF PlaceInv
<1>6. CASE pasting' = pasting
  BY <1>1, <1>2, <1>3, <1>4, <1>6 DEF PlaceInv, PastingMeet, BufferOwn, AtDest
<1> QED
  BY <1>5, <1>6 DEF CopyFrom, CopyLocal, Save, Move, Pack, PackFail, Return, Open, SendArchive,
    SendArchiveFail, Remove, Answer, dest

\* A destination fills the buffer while another copy that has met it may, and
\* unpacks from it.
LEMMA DestPlace ==
  ASSUME PlaceInv, NEW j \in Copy, PasteTo(j) PROVE PlaceInv'
<1>1. TypeOK /\ TypeOK' /\ PastingMeet /\ BufferOwn /\ LandsInPlace
  BY DestType DEF PlaceInv
<1>2. met' = met
  BY DEF PasteTo, Receive, ReceiveBroken, Store, ExtractPath, Unpack,
      UnpackFail, UnpackAsk, Reply
<1>3. PastingMeet'
  <2>1. \A i \in Copy : AtDest(i, To[i])' => AtDest(i, To[i])
    BY <1>1 DEF PasteTo, Receive, ReceiveBroken, Store, ExtractPath, Unpack,
      UnpackFail, UnpackAsk, Reply, Pastes, AtDest, TypeOK
  <2> QED BY <1>1, <1>2, <2>1 DEF PastingMeet
<1>4. CASE Receive(j) \/ ReceiveBroken(j) \/ Store(j) \/ UnpackFail(j) \/ Reply(j)
  <2>1. BufferOwn'
    BY <1>1, <1>2, <1>4 DEF Receive, ReceiveBroken, Store, UnpackFail, Reply, Pastes, BufferOwn, Apart, TypeOK
  <2>2. LandsInPlace'
    BY <1>1, <1>2, <1>4 DEF Receive, ReceiveBroken, Store, UnpackFail, Reply, LandsInPlace
  <2> QED BY <1>1, <1>3, <2>1, <2>2 DEF PlaceInv
<1>5. CASE ExtractPath(j)
  <2>1. ASSUME NEW i \in Copy, pasting'[i] = "copied", Apart(i)' PROVE result'[To[i]] = Into[i]
    <3>1. Apart(i)
      BY <1>2, <2>1 DEF Apart
    <3>2. CASE i = j
      <4>1. pasting[j] = "written"
        BY <1>5 DEF ExtractPath, Pastes
      <4>2. ~\E k \in Copy \ {j} : To[k] = To[j] /\ pasting[k] = "copied"
        BY <1>1, <3>1, <3>2, <4>1 DEF PastingMeet, AtDest, Apart
      <4>3. result' = [result EXCEPT ![To[j]] = Into[j]]
        BY <1>5, <4>2 DEF ExtractPath
      <4> QED BY <1>1, <3>2, <4>3, CopyAssumption DEF TypeOK
    <3>3. CASE i # j
      <4>1. pasting[i] = "copied" /\ pasting[j] = "written"
        BY <1>1, <1>5, <2>1, <3>3 DEF ExtractPath, Pastes, TypeOK
      <4>2. To[i] # To[j]
        BY <1>1, <3>1, <3>3, <4>1 DEF PastingMeet, AtDest, Apart
      <4>3. result'[To[i]] = result[To[i]]
        BY <1>1, <1>5, <4>2, CopyAssumption DEF ExtractPath, TypeOK
      <4> QED BY <1>1, <3>1, <4>1, <4>3 DEF BufferOwn
    <3> QED BY <3>2, <3>3
  <2>2. BufferOwn'
    BY <2>1 DEF BufferOwn
  <2>3. LandsInPlace'
    BY <1>1, <1>2, <1>5 DEF ExtractPath, LandsInPlace
  <2> QED BY <1>1, <1>3, <2>2, <2>3 DEF PlaceInv
<1>6. CASE Unpack(j) \/ UnpackAsk(j)
  <2>1. BufferOwn'
    BY <1>1, <1>2, <1>6 DEF Unpack, UnpackAsk, Pastes, BufferOwn, Apart, TypeOK
  <2>2. ASSUME NEW i \in Copy, Apart(i) PROVE landed'[i] \subseteq {Into[i]}
    <3>1. landed[i] \subseteq {Into[i]}
      BY <1>1, <2>2 DEF LandsInPlace, Apart
    <3>2. CASE i = j
      <4>1. result[To[j]] = Into[j]
        BY <1>1, <1>6, <2>2, <3>2 DEF Unpack, UnpackAsk, Pastes, BufferOwn
      <4> QED BY <1>1, <1>6, <3>1, <3>2, <4>1 DEF Unpack, UnpackAsk, TypeOK
    <3>3. CASE i # j
      BY <1>1, <1>6, <3>1, <3>3 DEF Unpack, UnpackAsk, TypeOK
    <3> QED BY <3>2, <3>3
  <2>3. LandsInPlace'
    BY <1>2, <2>2 DEF LandsInPlace, Apart
  <2> QED BY <1>1, <1>3, <2>1, <2>3 DEF PlaceInv
<1> QED BY <1>4, <1>5, <1>6 DEF PasteTo

\* A copy is unpacked in the folder it is for and nowhere else, unless another
\* was pasted at the server at the same time.
THEOREM CopiesLandInPlace == Spec => []LandsInPlace
<1>1. PlaceInv /\ [Next]_vars => PlaceInv'
  <2> SUFFICES ASSUME PlaceInv, [Next]_vars PROVE PlaceInv'
    OBVIOUS
  <2>1. CASE UNCHANGED vars
    BY <2>1 DEF vars, source, dest, PlaceInv, TypeOK, Broken, PastingMeet, BufferOwn, LandsInPlace, AtDest, Apart
  <2> QED BY <2>1, SourcePlace, DestPlace DEF Next
<1>2. PlaceInv => LandsInPlace
  BY DEF PlaceInv
<1> QED BY InitPlace, <1>1, <1>2, PTL DEF Spec
=============================================================================
