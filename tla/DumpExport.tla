------------------------------- MODULE DumpExport -------------------------------
(***************************************************************************)
(* `mcp-baf --install BASE --dump DIR`: main() of src/mcp_baf/__main__.py  *)
(* checks the names of --dump-extensions, installs, and exports; dump() of *)
(* src/mcp_baf/installer.py has DESIGNER write the configuration to DIR    *)
(* and every extension to a directory of its own below it.                 *)
(*                                                                         *)
(* Abstractions.                                                           *)
(*  - The content of a directory is a set of <<owner, run, part>>: whose   *)
(*    export left the part there, and in which run of the command.         *)
(*  - install() is modelled by Installer; here it succeeds or fails.       *)
(*  - Whether DESIGNER clears the directory it exports to is left open, as *)
(*    the code leaves it; a failed export may write some of its parts.     *)
(*  - Directory names are compared without case, as on Windows.            *)
(***************************************************************************)
EXTENDS Naturals, Sequences

CONSTANTS
    ExtNames,      \* spellings of extension names
    Fold,          \* their casefold
    RejectedNames, \* spellings _safe_extension_name refuses
    StandardDirs,  \* casefolded standard directories of a dump
    MaxRuns        \* bound on the number of commands

ASSUME ExportAssumption ==
    MaxRuns \in Nat /\ RejectedNames \subseteq ExtNames /\ {"base", "all"} \cap ExtNames = {}

Parts2 == {"x", "y"}
Dirs == StandardDirs \cup {Fold[n] : n \in ExtNames}
Whole(owner, r) == {owner} \X {r} \X Parts2

All == <<"all">>
NoExtensions == <<>>

\* The argument of --dump-extensions: at most two names in a list.
Requests == {All, NoExtensions} \cup {<<n>> : n \in ExtNames}
                \cup {<<n, m>> : n \in ExtNames, m \in ExtNames}

VARIABLES
    extensions, \* the extensions of the base
    command,    \* the argument of --dump-extensions
    runs,       \* number of the command
    out,        \* content of the directories below DIR
    tmp,        \* content of the temporary directory of -AllExtensions
    todo,       \* extensions still to move or to export
    report,     \* result["extensions"]: the ones that are done and those in error
    stage,
    code        \* exit code: "none" while it runs, "0", "1" or "killed"

exportVars == <<extensions, command, runs, out, tmp, todo, report, stage, code>>

NoReport == [done |-> {}, failed |-> {}]

\* Names of extensions in a base differ in more than case.
Bases1C == {E \in SUBSET ExtNames : \A n, m \in E : Fold[n] = Fold[m] => n = m}

ExportInit ==
    /\ extensions = {}
    /\ command = NoExtensions /\ runs = 0
    /\ out = [d \in Dirs |-> {}] /\ tmp = {} /\ todo = {}
    /\ report = NoReport /\ stage = "stopped" /\ code = "0"

Exit(c) == stage' = "stopped" /\ code' = c

\* A later spelling of a name replaces an earlier one.
Distinct(names) ==
    {names[i] : i \in {k \in DOMAIN names :
        \A j \in DOMAIN names : j > k => Fold[names[j]] # Fold[names[k]]}}

--------------------------------------------------------------------------------
(* main() *)

\* The names are checked before anything is installed.
Command ==
    /\ stage = "stopped" /\ runs < MaxRuns
    /\ runs' = runs + 1
    /\ command' \in Requests
    /\ extensions' \in Bases1C
    /\ report' = NoReport /\ tmp' = {}
    /\ IF command' \in {All, NoExtensions}
       THEN todo' = {} /\ stage' = "install" /\ code' = "none"
       ELSE /\ todo' = Distinct(command')
            /\ IF \E i \in DOMAIN command' : command'[i] \in RejectedNames
               THEN Exit("1") ELSE stage' = "install" /\ code' = "none"
    /\ UNCHANGED out

Install ==
    /\ stage = "install"
    /\ \/ stage' = "base" /\ UNCHANGED code
       \/ Exit("1")
    /\ UNCHANGED <<extensions, command, runs, out, tmp, todo, report>>

--------------------------------------------------------------------------------
(* dump() *)

\* What a directory holds after DESIGNER has exported there, or failed to.
Exported(old, owner, clears) == (IF clears THEN {} ELSE old) \cup Whole(owner, runs)
HalfExported(old, owner) ==
    {old \cup written : written \in SUBSET Whole(owner, runs)}

\* /DumpConfigToFiles of the main configuration; without it dump() gives up.
ExportBase ==
    /\ stage = "base"
    /\ \/ /\ \E clears \in BOOLEAN :
              out' = [d \in Dirs |-> IF d \in StandardDirs
                                     THEN Exported(out[d], "base", clears) ELSE out[d]]
          /\ stage' = (IF command = All THEN "export all" ELSE "list")
          /\ UNCHANGED code
       \/ /\ \E d \in StandardDirs : \E content \in HalfExported(out[d], "base") :
              out' = [out EXCEPT ![d] = content]
          /\ Exit("1")
    /\ UNCHANGED <<extensions, command, runs, tmp, todo, report>>

\* -AllExtensions, into the temporary directory.
ExportAll ==
    /\ stage = "export all"
    /\ \/ /\ tmp' = extensions /\ todo' = extensions
          /\ stage' = "next" /\ UNCHANGED code
       \/ Exit("1") /\ UNCHANGED <<tmp, todo>>
    /\ UNCHANGED <<extensions, command, runs, out, report>>

Fails(n) == report' = [report EXCEPT !.failed = @ \cup {n}]

\* A directory whose name is refused stays in the temporary directory.
RefuseName(n) ==
    /\ stage = "next" /\ n \in todo \cap RejectedNames
    /\ Fails(n) /\ todo' = todo \ {n}
    /\ UNCHANGED <<extensions, command, runs, out, tmp, stage, code>>

\* Mutant: the error of rmtree goes unnoticed, and move puts the new export
\* inside the old directory.
MoveIntoOld(n) ==
    /\ stage = "next" /\ n \in todo \ RejectedNames
    /\ out' = [out EXCEPT ![Fold[n]] = @ \cup Whole(Fold[n], runs)]
    /\ report' = [report EXCEPT !.done = @ \cup {n}]
    /\ todo' = todo \ {n} /\ tmp' = tmp \ {n}
    /\ UNCHANGED <<extensions, command, runs, stage, code>>

\* rmtree(ignore_errors=True) and move: what cannot be removed is reported and
\* the new export is dropped.
Replace(n) ==
    /\ stage = "next" /\ n \in todo \ RejectedNames
    /\ todo' = todo \ {n}
    /\ \/ /\ out' = [out EXCEPT ![Fold[n]] = Whole(Fold[n], runs)]
          /\ report' = [report EXCEPT !.done = @ \cup {n}]
          /\ tmp' = tmp \ {n} /\ UNCHANGED <<stage, code>>
       \/ /\ \E left \in SUBSET out[Fold[n]] \ {{}} : out' = [out EXCEPT ![Fold[n]] = left]
          /\ Fails(n) /\ UNCHANGED <<tmp, stage, code>>
       \/ \* move itself fails half-way: an OSError nobody handles
          /\ \E part \in SUBSET Whole(Fold[n], runs) : out' = [out EXCEPT ![Fold[n]] = part]
          /\ tmp' = {} /\ Exit("1") /\ UNCHANGED report
    /\ UNCHANGED <<extensions, command, runs>>

\* -Extension NAME, straight into the directory of the extension.
ExportOne(n) ==
    /\ stage = "list" /\ n \in todo
    /\ todo' = todo \ {n}
    /\ \/ /\ \E e \in extensions : Fold[e] = Fold[n]
          /\ \E clears \in BOOLEAN :
              out' = [out EXCEPT ![Fold[n]] = Exported(@, Fold[n], clears)]
          /\ report' = [report EXCEPT !.done = @ \cup {n}]
       \/ /\ \E content \in HalfExported(out[Fold[n]], Fold[n]) :
              out' = [out EXCEPT ![Fold[n]] = content]
          /\ Fails(n)
    /\ UNCHANGED <<extensions, command, runs, tmp, stage, code>>

\* _run_dump: an extension in error makes the exit code 1.
Finish ==
    /\ stage \in {"next", "list"} /\ todo = {}
    /\ tmp' = {} /\ Exit(IF report.failed = {} THEN "0" ELSE "1")
    /\ UNCHANGED <<extensions, command, runs, out, todo, report>>

--------------------------------------------------------------------------------
KillCommand ==
    /\ stage # "stopped" /\ Exit("killed")
    /\ UNCHANGED <<extensions, command, runs, out, tmp, todo, report>>

ExportNext ==
    \/ Command \/ Install \/ ExportBase \/ ExportAll
    \/ \E n \in ExtNames : RefuseName(n) \/ Replace(n) \/ ExportOne(n)
    \/ Finish \/ KillCommand

ExportSpec == ExportInit /\ [][ExportNext]_exportVars

--------------------------------------------------------------------------------
(* Properties *)

Owners == {"base"} \cup {Fold[n] : n \in ExtNames}
Items == Owners \X (1 .. MaxRuns) \X Parts2

ExportTypeOK ==
    /\ extensions \in Bases1C /\ command \in Requests /\ runs \in 0 .. MaxRuns
    /\ out \in [Dirs -> SUBSET Items]
    /\ tmp \subseteq ExtNames /\ todo \subseteq ExtNames
    /\ report \in [done : SUBSET ExtNames, failed : SUBSET ExtNames]
    /\ report.done \cap report.failed = {} /\ todo \cap (report.done \cup report.failed) = {}
    /\ stage \in {"stopped", "install", "base", "export all", "next", "list"}
    /\ code \in {"none", "0", "1", "killed"}

Asked == IF command = All THEN extensions ELSE Distinct(command)

\* Exit code 0 means that the search has everything to build on: the directories
\* of the main configuration and of every extension asked for hold the whole
\* export of this run, whatever was locked, refused or left over before.
ExitZeroIsComplete ==
    stage = "stopped" /\ code = "0" /\ runs > 0 =>
        /\ \A d \in StandardDirs : Whole("base", runs) \subseteq out[d]
        /\ \A n \in Asked : Whole(Fold[n], runs) \subseteq out[Fold[n]]

\* With -AllExtensions an extension without an error has exactly its new export:
\* no module that was deleted in the base survives in the dump to be found.
AllReplacesWhole ==
    command = All => \A n \in report.done : out[Fold[n]] = Whole(Fold[n], runs)

\* What the command reports of the dump is true of the directory.
ReportIsTrue == ExitZeroIsComplete /\ AllReplacesWhole

\* "We do not let an extension overwrite the directories of the main
\* configuration", says the branch of -AllExtensions: once exported they stay
\* whole to the end of the command.
BaseSurvives ==
    command = All /\ stage \in {"export all", "next"} =>
        \A d \in StandardDirs : Whole("base", runs) \subseteq out[d]

================================================================================
