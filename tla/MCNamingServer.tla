--------------------------- MODULE MCNamingServer ---------------------------
(***************************************************************************)
(* Instances of NamingServer for TLC.  Server s1 comes with a directory d  *)
(* and a file in it, s2 with a directory e, whose file may be there, be    *)
(* created, or appear when d is copied onto e.                             *)
(***************************************************************************)
EXTENDS NamingServer, TLC

CONSTANTS t1, t2, s1, s2

dirD  == <<"d">>
fileD == <<"d", ".f">>
dirE  == <<"e">>
fileE == <<"e", ".f">>

OneThread  == {t1}
TwoThreads == {t1, t2}

TwoServers == {s1, s2}

Paths       == {dirD, fileD, dirE, fileE}
Dirs        == {dirD, dirE}
Files       == {fileD, fileE}
Contents    == dirD :> {dirD, fileD} @@ dirE :> {dirE, fileE}
                 @@ fileD :> {fileD} @@ fileE :> {fileE}

\* With a directory that may be made in e.
dirF         == <<"e", "f">>
MorePaths    == Paths \cup {dirF}
MoreDirs     == Dirs \cup {dirF}
MoreContents == (dirE :> {dirE, fileE, dirF} @@ dirF :> {dirF}) @@ Contents

TwoListings == s1 :> {dirD, fileD} @@ s2 :> {dirE}

Ask(name, p) == [op |-> name, path |-> p, to |-> NoPath]
Make(p)      == [op |-> "CREATE", path |-> dirE, to |-> p]
Clone(p, q)  == [op |-> "COPY", path |-> p, to |-> q]

Lookups == {Ask(name, p) : name \in {"READ", "WRITE", "INFO"}, p \in Files}
Deletes == {Ask("DELETE", fileD), Ask("DELETE", fileE), Ask("DELETE", dirD)}
Copies  == {Clone(dirD, dirE), Clone(fileD, fileE), Clone(dirD, fileE), Clone(fileD, dirE)}

Streams == {Ask("STREAM", p) : p \in Files}

AllCommands ==
  Lookups \cup Streams \cup Deletes \cup {Make(fileE), Make(dirF)} \cup Copies

\* For two clients: what makes, removes and replaces a file that others look up.
PairCommands ==
  {Ask("READ", fileD), Ask("READ", fileE), Ask("DELETE", fileE), Make(fileE),
   Clone(dirD, dirE), Clone(fileD, fileE)}

SymmetricThreads == Permutations(Thread)
=============================================================================
