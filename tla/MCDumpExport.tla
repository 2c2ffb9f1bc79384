----------------------------- MODULE MCDumpExport -----------------------------
(* Names of extensions for checking DumpExport with TLC. *)
EXTENDS DumpExport

\* Two names that differ in case from the standard directory Ext and from each
\* other.
MCNamesToo == {"Pos", "Ext", "ext"}
MCFold == [n \in MCNamesToo |-> IF n = "Pos" THEN "pos" ELSE "ext"]
================================================================================
