--------------------------- MODULE MCFileManager ---------------------------
(***************************************************************************)
(* Instances of FileManager for TLC.  The directory dirA holds fileA, and  *)
(* dirB, whose path the path of dirA is a string prefix of, holds fileB:   *)
(* neither is below the other, but DELETE of dirA looks at fileB as well.  *)
(***************************************************************************)
EXTENDS FileManager, TLC

CONSTANTS c1, c2, c3, fileA, fileB, dirA, dirB

TwoConns   == {c1, c2}
ThreeConns == {c1, c2, c3}

OneFile  == {fileA}
TwoFiles == {fileA, fileB}
OneDir   == {dirA}
TwoDirs  == {dirA, dirB}
OneDirOf == fileA :> dirA
TwoDirOf == fileA :> dirA @@ fileB :> dirB

OnePrefixOf == fileA :> {fileA} @@ dirA :> {fileA}
TwoPrefixOf ==
  fileA :> {fileA} @@ fileB :> {fileB} @@ dirA :> {fileA, fileB} @@ dirB :> {fileB}

Rq(op, p)     == [op |-> op, path |-> p, flag |-> "none"]
WriteSync(p)  == [op |-> "WRITE", path |-> p, flag |-> "--sync"]

\* The requests that consult the lists, on one file and its directory.
ListRequests ==
  {Rq("READ", fileA), Rq("WRITE", fileA), WriteSync(fileA),
   Rq("DELETE", fileA), Rq("DELETE", dirA)}

\* Every request there is.
AllRequests == AnyRequest

\* Readers and everything that changes a file beneath them.
DiskRequests ==
  {Rq("READ", fileA), Rq("WRITE", fileA), WriteSync(fileA), Rq("COPY_FILE", fileA),
   Rq("Backup", fileA), Rq("DELETE", fileA), Rq("CREATE", fileA)}

WriteRequests == {Rq("WRITE", fileA), WriteSync(fileA), Rq("DELETE", fileA)}

SymmetricConns == Permutations(Conn)
=============================================================================
