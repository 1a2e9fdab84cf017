-------------------------- MODULE MCClientSession --------------------------
(* Two clients, room for two entries, and a folder's copy among the files.  *)
EXTENDS ClientSession, TLC

CONSTANTS c1, c2, f1, f2

\* f2 is a copy of f1 in another folder.
FromFolder == (f1 :> f1) @@ (f2 :> f1)

\* One client changes, copies, lists or writes, twice; the other looks up or writes.
Choices == (c1 :> {"change", "copy", "list", "write"}) @@ (c2 :> {"lookup", "write"})
Bounds  == (c1 :> 2) @@ (c2 :> 1)
=============================================================================
