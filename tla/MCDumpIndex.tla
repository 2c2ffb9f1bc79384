----------------------------- MODULE MCDumpIndex -----------------------------
(* Model values and symmetry for checking DumpIndex with TLC. *)
EXTENDS DumpIndex, TLC

CONSTANTS p1, p2, plain, nested

MCPaths == {p1, p2}
MCRoots == {plain, nested}

PathSymmetry == Permutations({p1, p2})

CloseFault == {"close", "kill"}
================================================================================
