------------------------------ MODULE MCHelpIndex ------------------------------
(* Model values and symmetry for checking HelpIndex with TLC. *)
EXTENDS HelpIndex, TLC

CONSTANTS p1, p2, platform, designer

OneProc == {p1}
TwoProcs == {p1, p2}
OneFile == {platform}
TwoFiles == {platform, designer}

\* A whole file, a file that breaks off, a file without pages, in turn.
MCPageCount == [v \in Versions |-> CASE v % 3 = 1 -> 2 [] v % 3 = 2 -> 1 [] OTHER -> 0]

Symmetry == Permutations({p1, p2}) \cup Permutations({platform, designer})
================================================================================
