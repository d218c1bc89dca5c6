----------------------------- MODULE MCInotify -----------------------------
(* A small instance of Inotify: three watch objects, w1 and w2 for the same  *)
(* path and w3 for another path of the same file, so that Add meets a path   *)
(* that is taken, a file that is taken under another name, and neither.      *)
EXTENDS Inotify, TLC

CONSTANTS w1, w2, w3, path1, path2, file1

MCPathOf == (w1 :> path1 @@ w2 :> path1 @@ w3 :> path2)
MCResolve == (path1 :> file1 @@ path2 :> file1)

\* w1 and w2 are alike: same path, and no order among the watches.
Alike == Permutations({w1, w2})
=============================================================================
