---------------------------- MODULE MCFolderCopy ----------------------------
(***************************************************************************)
(* Two servers: two folders of the first go to the second, one folder of   *)
(* the second to the first, and one stays on the first.                    *)
(***************************************************************************)
EXTENDS FolderCopy, TLC

CONSTANTS s1, s2, deep, top, back, near, d, e, p, q

Copies    == {deep, top, back, near}
Froms     == deep :> s1 @@ top :> s1 @@ back :> s2 @@ near :> s1
Tos       == deep :> s2 @@ top :> s2 @@ back :> s1 @@ near :> s1
Ofs       == deep :> "p/f" @@ top :> "g" @@ back :> "q/h" @@ near :> "g"
Targets   == deep :> d @@ top :> e @@ back :> d @@ near :> e
Parents   == "p/f" :> p @@ "g" :> Home @@ "q/h" :> q
=============================================================================
