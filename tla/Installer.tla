------------------------------- MODULE Installer -------------------------------
(***************************************************************************)
(* The installer of src/mcp_baf/installer.py: install() copies the         *)
(* extension to a temporary directory, patches the copy for the platform,  *)
(* loads it into the base with DESIGNER, answers the errors it knows with  *)
(* a patch and another load, and applies what was loaded.                  *)
(*                                                                         *)
(* Abstractions.                                                           *)
(*  - A copy is what the chain of retries can still change in it; format   *)
(*    versions, synonyms and file names are left out.                      *)
(*  - An error text is the set of the phrases the chain looks for that     *)
(*    occur in it, with "other" for any text around them.                  *)
(*  - DESIGNER refuses a load for the reasons the comments of the chain    *)
(*    give, tells all of them or some, may fail for any other reason, and  *)
(*    may exit with 0 although it refused a part of the copy; its log then *)
(*    has one of the messages that _DESIGNER_FATAL_LOG_RE looks for.       *)
(***************************************************************************)
EXTENDS Naturals, Sequences

CONSTANTS
    None,      \* the base has no extension
    Previous,  \* the one of an earlier version
    Half       \* one that was loaded in part

Versions == {"8.3.9", "8.3.10", "8.3.14", "8.3.15", "unknown"}
Modes == {"own", "8_3_10", "DontUse"}  \* compatibility modes of the extension
Phrases == {"exists", "elements", "runmode", "compat", "inherited", "other"}

Parts == {"elements",   \* KeepMapping, InternalInfo, ContainedObject
          "runmode",    \* DefaultRunMode
          "inherited"}  \* the other properties of _INHERITED_TAGS

Copies == [parts : SUBSET Parts, compat : Modes]

Marks == {None, Previous, Half}

ASSUME MarksAssumption == Marks \cap Copies = {} /\ None # Previous /\ Half # None

Bases == [refuses : SUBSET Parts, \* parts the platform or the base does not take
          late : BOOLEAN,         \* inherited properties are refused at the update
          modes : SUBSET Modes,   \* compatibility modes it accepts
          keeps : BOOLEAN]        \* a load does not replace an extension

VARIABLES
    version,   \* what parse_platform_version finds
    base,      \* what the base and its platform object to
    reporting, \* whether DESIGNER tells "all" its reasons or "some"
    stored,    \* the extension in the base: a copy or a mark
    applied,   \* the extension the database was last updated to
    pc,
    copy,      \* the temporary copy
    error,     \* phrases of the last error, {} when there is none
    step,      \* position in the chain of retries
    note,      \* role_note_needed
    foreign    \* history: DESIGNER has failed for a reason of its own

world == <<version, base, reporting>>
onec == <<stored, applied>>
vars == <<world, onec, pc, copy, error, step, note, foreign>>

Source == [parts |-> Parts, compat |-> "own"]

\* The patches of the chain, in its order, and the phrases that call for them.
Chain == <<"elements", "runmode", "compat", "compat", "inherited">>

--------------------------------------------------------------------------------
(* DESIGNER *)

Late == IF base.late THEN {"inherited"} ELSE {}

Objections ==
    ((copy.parts \cap base.refuses) \ Late)
        \cup {phrase \in {"exists"} : stored # None /\ base.keeps}
        \cup {phrase \in {"compat"} : copy.compat \notin base.modes}

ObjectionsToUpdate == copy.parts \cap base.refuses \cap Late

Told(reasons) ==
    IF reporting = "all" THEN {reasons} ELSE SUBSET reasons

\* Texts of errors of another kind; some of them mention InternalInfo.
OtherErrors == {{"other"}, {"other", "elements"}}

Refused(text) == error' = text /\ foreign' = (foreign \/ "other" \in text)

\* Mutant: the exit code alone decides.
HalfLoadedUnnoticed ==
    stored' = Half /\ error' = {} /\ UNCHANGED foreign

\* Exit code 0 with a fatal message in the log is an error too. (That every message of
\* a load that was only half done is one that _DESIGNER_FATAL_LOG_RE knows is assumed.)
HalfLoaded == stored' = Half /\ \E text \in OtherErrors : Refused(text)

\* /LoadConfigFromFiles, and what _run_designer makes of it.
Load ==
    /\ UNCHANGED applied
    /\ \/ /\ Objections = {}
          /\ stored' = copy /\ error' = {} /\ UNCHANGED foreign
       \/ /\ \E text \in OtherErrors \cup Told(Objections) : text # {} /\ Refused(text)
          /\ UNCHANGED stored
       \/ HalfLoaded

\* /UpdateDBCfg
Update ==
    /\ UNCHANGED stored
    /\ \/ /\ ObjectionsToUpdate = {}
          /\ applied' = stored /\ error' = {} /\ UNCHANGED foreign
       \/ /\ ObjectionsToUpdate # {}
          /\ Refused(ObjectionsToUpdate) /\ UNCHANGED applied
       \/ (\E text \in OtherErrors : Refused(text)) /\ UNCHANGED applied

--------------------------------------------------------------------------------
(* install() *)

Strip(c, parts) == [c EXCEPT !.parts = @ \ parts]
StripInherited(c) == Strip(c, {"inherited", "runmode"})

Prepatched == [parts |-> {}, compat |-> "8_3_10"]

\* Mutant: the second attempt repeats the first compatibility mode.
PatchedTwice(i) ==
    CASE i = 1 -> Strip(copy, {"elements"})
      [] i = 2 -> Strip(copy, {"runmode"})
      [] i \in {3, 4} -> [copy EXCEPT !.compat = "8_3_10"]
      [] i = 5 -> StripInherited(copy)

Patched(i) ==
    CASE i = 1 -> Strip(copy, {"elements"})
      [] i = 2 -> Strip(copy, {"runmode"})
      [] i = 3 -> [copy EXCEPT !.compat = "8_3_10"]
      [] i = 4 -> [copy EXCEPT !.compat = "DontUse"]
      [] i = 5 -> StripInherited(copy)

StripAllowed == version \in {"8.3.10", "8.3.14", "unknown"}

Goto(label) == pc' = label

Init ==
    /\ version \in Versions
    /\ base \in Bases
    /\ version = "8.3.15" => "elements" \notin base.refuses
    /\ version = "8.3.10" => "own" \notin base.modes
    /\ reporting \in {"all", "some"}
    /\ stored \in {None, Previous} /\ applied = stored
    /\ pc = "idle" /\ copy = Source /\ error = {} /\ step = 1
    /\ note = FALSE /\ foreign = FALSE

\* A new copy of the sources, and the patches that need no error.
Prepare ==
    /\ pc \in {"idle", "failed", "installed"}
    /\ IF version = "8.3.9"
       THEN Goto("failed") /\ UNCHANGED copy
       ELSE Goto("load") /\ copy' = IF version = "8.3.10" THEN Prepatched ELSE Source
    /\ note' = (version = "8.3.10")
    /\ error' = {} /\ step' = 1 /\ foreign' = FALSE
    /\ UNCHANGED <<world, onec>>

\* The optimistic load.
LoadFirst ==
    /\ pc = "load"
    /\ Load
    /\ Goto(IF "exists" \in error' THEN "delete" ELSE "chain")
    /\ UNCHANGED <<world, copy, step, note>>

\* /ManageCfgExtensions -delete
Delete ==
    /\ pc = "delete"
    /\ \/ stored' = None /\ error' = {} /\ Goto("again") /\ UNCHANGED foreign
       \/ /\ \E text \in OtherErrors : Refused(text)
          /\ Goto("failed") /\ UNCHANGED stored
    /\ UNCHANGED <<world, applied, copy, step, note>>

LoadAgain ==
    /\ pc = "again"
    /\ Load
    /\ Goto("chain")
    /\ UNCHANGED <<world, copy, step, note>>

Applies(i) == Chain[i] \in error /\ (Chain[i] = "elements" => StripAllowed)

\* A known error: patch the copy for another load.
Patch ==
    /\ pc = "chain" /\ step <= 5 /\ Applies(step)
    /\ copy' = Patched(step)
    /\ Goto("retry")
    /\ UNCHANGED <<world, onec, error, step, note, foreign>>

\* The load of the patched copy.
Retry ==
    /\ pc = "retry"
    /\ Load
    /\ note' = (note \/ (step = 5 /\ error' = {}))
    /\ step' = step + 1
    /\ Goto("chain")
    /\ UNCHANGED <<world, copy>>

\* The error is none of this step.
Skip ==
    /\ pc = "chain" /\ step <= 5 /\ ~Applies(step)
    /\ step' = step + 1
    /\ UNCHANGED <<world, onec, pc, copy, error, note, foreign>>

EndChain ==
    /\ pc = "chain" /\ step > 5
    /\ Goto(IF error = {} THEN "update" ELSE "failed")
    /\ UNCHANGED <<world, onec, copy, error, step, note, foreign>>

UpdateFirst ==
    /\ pc = "update"
    /\ Update
    /\ IF error' = {} THEN Goto("installed") /\ UNCHANGED copy
       ELSE IF "inherited" \in error' THEN Goto("reload") /\ copy' = StripInherited(copy)
       ELSE Goto("failed") /\ UNCHANGED copy
    /\ UNCHANGED <<world, step, note>>

Reload ==
    /\ pc = "reload"
    /\ Load
    /\ Goto(IF error' = {} THEN "update again" ELSE "failed")
    /\ UNCHANGED <<world, copy, step, note>>

\* Mutant: this path returns without the note.
UpdateAgainSilent ==
    /\ pc = "update again"
    /\ Update
    /\ Goto(IF error' = {} THEN "installed" ELSE "failed")
    /\ UNCHANGED <<world, copy, step, note>>

\* The note is printed on this path in any case.
UpdateAgain ==
    /\ pc = "update again"
    /\ Update
    /\ Goto(IF error' = {} THEN "installed" ELSE "failed")
    /\ note' = (note \/ error' = {})
    /\ UNCHANGED <<world, copy, step>>

Kill ==
    /\ pc \notin {"idle", "installed", "failed"}
    /\ Goto("idle")
    /\ UNCHANGED <<world, onec, copy, error, step, note, foreign>>

Next ==
    \/ Prepare \/ LoadFirst \/ Delete \/ LoadAgain \/ Patch \/ Retry \/ Skip
    \/ EndChain \/ UpdateFirst \/ Reload \/ UpdateAgain \/ Kill

Spec == Init /\ [][Next]_vars

--------------------------------------------------------------------------------
(* Properties *)

TypeOK ==
    /\ version \in Versions /\ base \in Bases /\ reporting \in {"all", "some"}
    /\ {stored, applied} \subseteq Copies \cup Marks
    /\ pc \in {"idle", "load", "delete", "again", "chain", "retry", "update", "reload",
               "update again", "installed", "failed"}
    /\ copy \in Copies
    /\ error \subseteq Phrases
    /\ step \in 1 .. 6
    /\ note \in BOOLEAN /\ foreign \in BOOLEAN

\* install() returns normally only when the database runs exactly the copy that
\* was patched last, whole: not the previous extension, not one that was loaded
\* in part with exit code 0, not a copy from before the last patch.
InstalledIsApplied == pc = "installed" => applied = copy /\ stored = copy

\* The user is told to assign the role by hand exactly when DefaultRoles had to
\* go from the copy that was installed, on whichever of the paths it went.
NoteWhenRolesDropped == pc = "installed" => (note <=> "inherited" \notin copy.parts)

\* The chain cures what it knows: when DESIGNER names all its reasons at once and has
\* none of its own, install() fails only on a platform that is too old or a base that
\* accepts no compatibility mode of an extension. The exception is a base that
\* keeps extensions and refuses inherited properties at the update: the reload
\* then meets the extension this run has loaded itself. (Reasons told one at a time
\* may come in an order in which the chain, which is gone through once, misses one.)
KnownErrorsAreCured ==
    pc = "failed" /\ reporting = "all" /\ ~foreign
        => \/ version = "8.3.9" \/ base.modes = {}
           \/ base.keeps /\ base.late

================================================================================
