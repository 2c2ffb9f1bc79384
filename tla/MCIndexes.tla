-------------------------------- MODULE MCIndexes --------------------------------
(***************************************************************************)
(* The two indexes of a server, HelpIndex and DumpIndex, for TLC. They     *)
(* share no state, so that a behaviour is one of one of them: `part` says  *)
(* of which; the other stands still in one state, where its fairness asks  *)
(* for nothing.                                                            *)
(***************************************************************************)
EXTENDS MCHelpIndex

CONSTANTS
    NoRow, NoRoots, path1, path2, plain, nested,  \* those of DumpIndex
    DumpPaths, DumpClock, DumpFaults

VARIABLES
    part,
    dumpDisk, diskRoots, dumpClock, db, pc, reindex, extRoots, fromCache, todo, walked,
    draft, conn, ready, buildError, moduleCount, closer, searcher, dirty, rootsDirty

Dump == INSTANCE DumpIndex WITH
            Paths <- DumpPaths, Roots <- {plain, nested}, MaxClock <- DumpClock,
            Faults <- DumpFaults, disk <- dumpDisk, clock <- dumpClock

TwoPaths == {path1, path2}
OnePath == {path1}
DumpFileFaults == {"io", "unlink", "kill", "tamper"}
AllDumpFaults == {"io", "sqlite", "unlink", "stderr", "close", "kill", "tamper"}

dumpVars == <<dumpDisk, diskRoots, dumpClock, db, pc, reindex, extRoots, fromCache, todo,
              walked, draft, conn, ready, buildError, moduleCount, closer, searcher, dirty,
              rootsDirty>>
indexVars == <<part, vars, dumpVars>>

IndexesInit ==
    /\ part \in {"help", "dump"} /\ Init /\ Dump!Init
    /\ part = "help" => diskRoots = plain
    /\ part = "dump" => \A f \in Files : disk[f] = Absent

IndexesNext ==
    \/ part = "help" /\ Next /\ UNCHANGED <<part, dumpVars>>
    \/ part = "dump" /\ Dump!Next /\ UNCHANGED <<part, vars>>

IndexesSpec == IndexesInit /\ [][IndexesNext]_indexVars

FairIndexesSpec == IndexesSpec /\ Fairness /\ Dump!Fairness

--------------------------------------------------------------------------------

\* The properties of DumpIndex, see there: ready means a whole index, and only a broken
\* cache is discarded; a build ends, and an admitted search returns.
ReadyHasWholeIndex == Dump!ReadyHasWholeIndex
DiscardsOnlyBrokenCache == Dump!DiscardsOnlyBrokenCache
DumpBuildSettles == Dump!BuildSettles
AdmittedSearchReturns == Dump!AdmittedSearchReturns

================================================================================
