------------------------------- MODULE HelpCache -------------------------------
(***************************************************************************)
(* What the help index promises: the file under the name of the cache is   *)
(* replaced in one step, by an index that is complete for the .hbk files   *)
(* of the build, and a process serves one published index from the moment  *)
(* it is ready until it is closed or dies.                                 *)
(***************************************************************************)
EXTENDS Naturals

CONSTANTS Procs, Files, PageCount, MaxClock, None

VARIABLES
    published,  \* the index under the name of the cache, or None
    serving     \* the index each process has open, or None

vars == <<published, serving>>

Stamps == [Files -> 0 .. MaxClock]

AllPages(v) ==
    IF v = 0 \/ PageCount[v] = 0 THEN <<0, 0>> ELSE <<v, PageCount[v]>>

\* An index of versions that are no older than its manifest says: every file of
\* the manifest with all its readable pages, and no other file.
Complete(manifest, read) ==
    \A f \in Files :
        IF manifest[f] = 0 THEN read[f] = 0 ELSE read[f] >= manifest[f]

IndexOf(manifest, read) ==
    [manifest |-> manifest, pages |-> [f \in Files |-> AllPages(read[f])], sound |-> TRUE]

Init == published = None /\ serving = [p \in Procs |-> None]

Publish ==
    \E manifest, read \in Stamps :
        /\ Complete(manifest, read)
        /\ published' = IndexOf(manifest, read)
        /\ UNCHANGED serving

\* The disk or a user damages or deletes the file.
Spoil ==
    /\ published # None
    /\ published' \in {None, [published EXCEPT !.sound = FALSE]}
    /\ UNCHANGED serving

Adopt(p) ==
    /\ serving[p] = None
    /\ published # None /\ published.sound
    /\ serving' = [serving EXCEPT ![p] = published]
    /\ UNCHANGED published

Release(p) ==
    /\ serving' = [serving EXCEPT ![p] = None]
    /\ UNCHANGED published

Next == Publish \/ Spoil \/ \E p \in Procs : Adopt(p) \/ Release(p)

Spec == Init /\ [][Next]_vars

================================================================================
