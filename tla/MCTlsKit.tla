------------------------------- MODULE MCTlsKit -------------------------------
(* Model values for checking TlsKit with TLC. *)
EXTENDS TlsKit

CONSTANT p1

OneProc == {p1}
================================================================================
