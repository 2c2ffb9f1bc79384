------------------------------- MODULE MCExtRoots -------------------------------
(* Model values for checking ExtRoots with TLC. *)
EXTENDS ExtRoots

MCTops == <<"a", "b">>
================================================================================
