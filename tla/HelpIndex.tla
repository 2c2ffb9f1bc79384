------------------------------- MODULE HelpIndex -------------------------------
(***************************************************************************)
(* The platform help index of src/mcp_baf/helpindex/__init__.py: a thread  *)
(* of each server process accepts the SQLite file an earlier run left for  *)
(* these .hbk files, or builds a new one under a temporary name and moves  *)
(* it into place; close() stops the thread and waits for it.  Processes    *)
(* started with one --help-dir and one cache directory share the file.     *)
(*                                                                         *)
(* Abstractions.                                                           *)
(*  - A .hbk file is its version, fresh for every edit, which stands for   *)
(*    its stamp and its content; PageCount says how many pages can be read *)
(*    from a version before the file ends or turns out to be broken.       *)
(*  - The pages and the full-text rows of a file are written together; an  *)
(*    index holds <<v, n>> per file: the first n pages of version v.       *)
(*  - A connection is bound to the file it opened, also after the path has *)
(*    been replaced: it is the index itself.                               *)
(*  - search() and get() hold the lock for their whole query: what they    *)
(*    see is Served(p).                                                    *)
(***************************************************************************)
EXTENDS Naturals

CONSTANTS
    Procs,      \* the server processes
    Files,      \* the paths .hbk files may have
    PageCount,  \* pages that can be read from each version
    MaxClock,   \* bound on the number of edits
    None,       \* no index, no file
    Faults      \* what the environment may do

\* "io"     a file, a directory or SQLite raises
\* "locked" os.replace raises because the target is open (Windows)
\* "kill"   a process dies or exits
\* "close"  the lifespan of the server ends
\* "tamper" the cache file is damaged or deleted while nobody runs
FaultKinds == {"io", "locked", "kill", "close", "tamper"}

Versions == 1 .. MaxClock
Absent == 0

ASSUME BoundAssumption == MaxClock \in Nat \ {0}
ASSUME PagesAssumption == PageCount \in [Versions -> Nat]
ASSUME NoneAssumption == None \notin Files
ASSUME FaultsAssumption == Faults \subseteq FaultKinds

Manifests == [Files -> Versions \cup {Absent}]
Pages == [Files -> (Versions \cup {Absent}) \X Nat]
Indexes == [manifest : Manifests, pages : Pages, sound : BOOLEAN]

ASSUME IndexAssumption == None \notin Indexes

VARIABLES
    disk,   \* version of the .hbk file at each path, or Absent
    clock,  \* the last version handed out
    cache,  \* the index at self.database, or None
    proc    \* the HelpIndex object and the builder thread of each process

vars == <<disk, clock, cache, proc>>

Labels == {"off", "glob", "stat", "check", "create", "read", "page", "replace",
           "connect", "settle", "done"}

NoFiles == [f \in Files |-> Absent]
NoPages == [f \in Files |-> <<0, 0>>]

Process == [
    pc       : Labels,
    reindex  : BOOLEAN,
    manifest : Manifests,          \* what stat() said
    todo     : SUBSET Files,       \* files the current loop has left
    file     : Files \cup {None},  \* the file being read
    version  : Versions \cup {Absent}, \* the version that was read
    draft    : Pages,              \* what the temporary database holds
    temp     : BOOLEAN,            \* the temporary file exists
    open     : BOOLEAN,            \* the builder has a connection of its own open
    conn     : Indexes \cup {None},\* self._connection
    ready    : BOOLEAN,
    error    : BOOLEAN,
    stop     : BOOLEAN,            \* self._stop
    closer   : {"idle", "joining", "done", "raised"},
    dirty    : SUBSET Files]       \* history: edited since the process started

NoProcess == [
    pc |-> "off", reindex |-> FALSE, manifest |-> NoFiles, todo |-> {}, file |-> None,
    version |-> Absent, draft |-> NoPages, temp |-> FALSE, open |-> FALSE,
    conn |-> None, ready |-> FALSE, error |-> FALSE, stop |-> FALSE, closer |-> "idle",
    dirty |-> {}]

--------------------------------------------------------------------------------
At(p, label) == proc[p].pc = label
Running(p) == ~At(p, "off")
Present == {f \in Files : disk[f] # Absent}

\* All that can be read from a file.
WholeFile(v) ==
    IF v = Absent THEN <<0, 0>>
    ELSE IF PageCount[v] = 0 THEN <<0, 0>> ELSE <<v, PageCount[v]>>

PagesLeft(p) ==
    proc[p].file # None
       /\ proc[p].draft[proc[p].file][2] < PageCount[proc[p].version]

Init ==
    /\ disk \in [Files -> {Absent, 1}]
    /\ clock = 1
    /\ cache = None
    /\ proc = [p \in Procs |-> NoProcess]

--------------------------------------------------------------------------------
(* The environment *)

Touch(f) == [p \in Procs |->
    IF Running(p) THEN [proc[p] EXCEPT !.dirty = @ \cup {f}] ELSE proc[p]]

Edit(f) ==
    /\ clock < MaxClock
    /\ clock' = clock + 1
    /\ disk' = [disk EXCEPT ![f] = clock + 1]
    /\ proc' = Touch(f)
    /\ UNCHANGED cache

Remove(f) ==
    /\ disk[f] # Absent
    /\ disk' = [disk EXCEPT ![f] = Absent]
    /\ proc' = Touch(f)
    /\ UNCHANGED <<clock, cache>>

Tamper ==
    /\ "tamper" \in Faults
    /\ \A p \in Procs : ~Running(p)
    /\ cache # None
    /\ cache' \in {None, [cache EXCEPT !.sound = FALSE]}
    /\ UNCHANGED <<disk, clock, proc>>

\* HelpIndex.__init__ in a new process.
Start(p, again) ==
    /\ ~Running(p)
    /\ proc' = [proc EXCEPT ![p] = [NoProcess EXCEPT !.pc = "glob", !.reindex = again]]
    /\ UNCHANGED <<disk, clock, cache>>

\* A temporary file the process leaves behind is never looked at again.
Kill(p) ==
    /\ "kill" \in Faults
    /\ Running(p)
    /\ proc' = [proc EXCEPT ![p] = NoProcess]
    /\ UNCHANGED <<disk, clock, cache>>

--------------------------------------------------------------------------------
(* The builder thread *)

\* An exception reaches the outer `except` of _build: self.error is set.
Fail(p) == proc' = [proc EXCEPT ![p].pc = "settle", ![p].error = TRUE]

\* is_dir and rglob.
Glob(p) ==
    /\ At(p, "glob")
    /\ IF Present = {}
       THEN Fail(p)
       ELSE proc' = [proc EXCEPT ![p].pc = "stat", ![p].todo = Present]
    /\ UNCHANGED <<disk, clock, cache>>

\* One entry of the manifest.
Stat(p, f) ==
    /\ At(p, "stat") /\ f \in proc[p].todo
    /\ IF disk[f] = Absent
       THEN Fail(p)
       ELSE proc' = [proc EXCEPT ![p].todo = @ \ {f}, ![p].manifest[f] = disk[f]]
    /\ UNCHANGED <<disk, clock, cache>>

\* self.database.exists() and not reindex
Consult(p) ==
    /\ At(p, "stat") /\ proc[p].todo = {}
    /\ proc' = [proc EXCEPT ![p].pc =
                   IF cache # None /\ ~proc[p].reindex THEN "check" ELSE "create"]
    /\ UNCHANGED <<disk, clock, cache>>

\* Mutant: any sound cache file is taken, whatever it was built from.
AcceptedUnread(p) == cache # None /\ cache.sound

\* quick_check, the manifest in `state`, and as many pages as full-text rows.
Accepted(p) ==
    cache # None /\ cache.sound /\ cache.manifest = proc[p].manifest

\* The cached index is taken over, or a new one is to be built. An error of
\* SQLite counts as a broken cache.
Check(p) ==
    /\ At(p, "check")
    /\ \/ /\ Accepted(p)
          /\ proc' = [proc EXCEPT ![p].pc = "settle", ![p].conn = cache]
       \/ /\ ~Accepted(p) \/ "io" \in Faults
          /\ proc' = [proc EXCEPT ![p].pc = "create"]
    /\ UNCHANGED <<disk, clock, cache>>

\* Mutant: the new database is built under its final name.
CreateInPlace(p) ==
    /\ At(p, "create")
    /\ cache' = [manifest |-> proc[p].manifest, pages |-> NoPages, sound |-> TRUE]
    /\ proc' = [proc EXCEPT ![p].pc = "read", ![p].temp = TRUE, ![p].open = TRUE,
                            ![p].todo = {f \in Files : proc[p].manifest[f] # Absent}]
    /\ UNCHANGED <<disk, clock>>

\* mkstemp, and the tables of the new database.
Create(p) ==
    /\ At(p, "create")
    /\ proc' = [proc EXCEPT ![p].pc = "read", ![p].temp = TRUE, ![p].open = TRUE,
                            ![p].todo = {f \in Files : proc[p].manifest[f] # Absent}]
    /\ UNCHANGED <<disk, clock, cache>>

\* read_pages reads the whole file before it yields. A file that is gone raises
\* FileNotFoundError, which is not among the errors that skip one file.
Read(p, f) ==
    /\ At(p, "read") /\ f \in proc[p].todo
    /\ IF disk[f] = Absent
       THEN Fail(p)
       ELSE proc' = [proc EXCEPT ![p].pc = "page", ![p].todo = @ \ {f},
                                 ![p].file = f, ![p].version = disk[f]]
    /\ UNCHANGED <<disk, clock, cache>>

\* Mutant: the loop is left at the request to stop and what there is is published.
PageBreaks(p) ==
    /\ At(p, "page") /\ PagesLeft(p)
    /\ proc' = IF proc[p].stop
               THEN [proc EXCEPT ![p].pc = "read", ![p].todo = {}, ![p].file = None,
                                 ![p].version = Absent]
               ELSE [proc EXCEPT ![p].draft[proc[p].file] = <<proc[p].version, @[2] + 1>>]
    /\ UNCHANGED <<disk, clock, cache>>

\* The next page, unless close() has asked to stop: then the thread returns.
Page(p) ==
    /\ At(p, "page") /\ PagesLeft(p)
    /\ proc' = IF proc[p].stop
               THEN [proc EXCEPT ![p].pc = "settle"]
               ELSE [proc EXCEPT ![p].draft[proc[p].file] = <<proc[p].version, @[2] + 1>>]
    /\ UNCHANGED <<disk, clock, cache>>

\* The file ends, or it is broken from here on and its rest is skipped.
EndFile(p) ==
    /\ At(p, "page") /\ ~PagesLeft(p)
    /\ proc' = [proc EXCEPT ![p].pc = "read", ![p].file = None, ![p].version = Absent]
    /\ UNCHANGED <<disk, clock, cache>>

\* Without a page the build fails; otherwise commit and close.
Commit(p) ==
    /\ At(p, "read") /\ proc[p].todo = {}
    /\ IF proc[p].draft = NoPages
       THEN Fail(p)
       ELSE proc' = [proc EXCEPT ![p].pc = "replace", ![p].open = FALSE]
    /\ UNCHANGED <<disk, clock, cache>>

\* Mutant: `temporary` is not cleared after the move.
ReplaceKeepsTemporary(p) ==
    /\ At(p, "replace")
    /\ cache' = [manifest |-> proc[p].manifest, pages |-> proc[p].draft, sound |-> TRUE]
    /\ proc' = [proc EXCEPT ![p].pc = "connect", ![p].draft = NoPages]
    /\ UNCHANGED <<disk, clock>>

\* os.replace(temporary, self.database)
Replace(p) ==
    /\ At(p, "replace")
    /\ cache' = [manifest |-> proc[p].manifest, pages |-> proc[p].draft, sound |-> TRUE]
    /\ proc' = [proc EXCEPT ![p].pc = "connect", ![p].temp = FALSE,
                            ![p].draft = NoPages]
    /\ UNCHANGED <<disk, clock>>

ReplaceFails(p) ==
    /\ "locked" \in Faults
    /\ At(p, "replace")
    /\ \E q \in Procs : proc[q].conn # None \/ At(q, "check")
    /\ Fail(p)
    /\ UNCHANGED <<disk, clock, cache>>

\* Mutant: close() joins the thread with the lock held.
ConnectWaitsForClose(p) ==
    /\ At(p, "connect") /\ proc[p].closer # "joining"
    /\ proc' = [proc EXCEPT ![p].pc = "settle", ![p].conn = cache]
    /\ UNCHANGED <<disk, clock, cache>>

\* sqlite3.connect(self.database): whatever has that name now.
Connect(p) ==
    /\ At(p, "connect")
    /\ proc' = [proc EXCEPT ![p].pc = "settle", ![p].conn = cache]
    /\ UNCHANGED <<disk, clock, cache>>

\* The same, with what of the connection and the temporary file the exception leaves.
FailHolding(p, held) ==
    proc' = [proc EXCEPT ![p].pc = "settle", ![p].error = TRUE,
                         ![p].open = held[1], ![p].temp = held[2]]

\* What an exception finds open: the connection and the temporary file. At the
\* check the inner `finally` may have failed to close the connection, and the new
\* database comes in three steps: mkstemp, connect, tables.
Held(p) ==
    CASE At(p, "check")  -> BOOLEAN \X {FALSE}
      [] At(p, "create") -> (BOOLEAN \X BOOLEAN) \ {<<TRUE, FALSE>>}
      [] OTHER           -> {proc[p].open} \X {proc[p].temp}

\* Any other statement of _build may raise.
Raises(p) ==
    /\ "io" \in Faults
    /\ proc[p].pc \in {"glob", "stat", "check", "create", "read", "page", "replace",
                       "connect"}
    /\ \E held \in Held(p) : FailHolding(p, held)
    /\ UNCHANGED <<disk, clock, cache>>

\* Mutant: only a successful build releases its waiters.
SettleOnSuccess(p) ==
    /\ At(p, "settle")
    /\ proc' = [proc EXCEPT ![p].pc = "done", ![p].open = FALSE, ![p].temp = FALSE,
                            ![p].ready = ~proc[p].error]
    /\ UNCHANGED <<disk, clock, cache>>

\* The thread is over. What is left of connection and temporary file is what the
\* `finally` failed at; only past them are the waiters released.
Clean == <<FALSE, FALSE>>

Ended(p, left) ==
    proc' = [proc EXCEPT ![p].pc = "done", ![p].open = left[1], ![p].temp = left[2],
                         ![p].ready = (left = Clean), ![p].todo = {}, ![p].file = None,
                         ![p].version = Absent, ![p].draft = NoPages]

\* The outer `finally`: the connection is closed, the temporary file is removed
\* and waiters are released.
Settle(p) ==
    /\ At(p, "settle")
    /\ Ended(p, Clean)
    /\ UNCHANGED <<disk, clock, cache>>

\* The same `finally`, cut short: connection.close() raises, or it does not and
\* unlink() raises. The thread ends there: the file stays and nobody is released.
SettleFails(p) ==
    /\ "io" \in Faults
    /\ At(p, "settle")
    /\ \E left \in {FALSE, proc[p].open} \X {proc[p].temp} \ {Clean} : Ended(p, left)
    /\ UNCHANGED <<disk, clock, cache>>

--------------------------------------------------------------------------------
(* close(), on a thread of the lifespan *)

CloseBegin(p) ==
    /\ "close" \in Faults
    /\ Running(p) /\ proc[p].closer = "idle"
    /\ proc' = [proc EXCEPT ![p].stop = TRUE, ![p].closer = "joining"]
    /\ UNCHANGED <<disk, clock, cache>>

\* Mutant: the thread is not waited for.
CloseUnjoined(p) ==
    /\ proc[p].closer = "joining"
    /\ proc' = [proc EXCEPT ![p].conn = None, ![p].closer = "done"]
    /\ UNCHANGED <<disk, clock, cache>>

\* join() has returned; the connection is closed under the lock.
CloseEnd(p) ==
    /\ proc[p].closer = "joining" /\ At(p, "done")
    /\ proc' = [proc EXCEPT ![p].conn = None, ![p].closer = "done"]
    /\ UNCHANGED <<disk, clock, cache>>

\* connection.close() raises under the lock: close() raises and the process keeps
\* its connection.
CloseFails(p) ==
    /\ "io" \in Faults
    /\ proc[p].closer = "joining" /\ At(p, "done") /\ proc[p].conn # None
    /\ proc' = [proc EXCEPT ![p].closer = "raised"]
    /\ UNCHANGED <<disk, clock, cache>>

--------------------------------------------------------------------------------
Builder(p) ==
    \/ \E f \in Files : Stat(p, f) \/ Read(p, f)
    \/ Glob(p) \/ Consult(p) \/ Check(p) \/ Create(p) \/ Page(p) \/ EndFile(p)
    \/ Commit(p) \/ Replace(p) \/ Connect(p) \/ Settle(p)

Failure(p) == ReplaceFails(p) \/ Raises(p) \/ SettleFails(p) \/ CloseFails(p)

Environment ==
    \/ \E f \in Files : Edit(f) \/ Remove(f)
    \/ Tamper
    \/ \E p \in Procs : Kill(p) \/ \E again \in BOOLEAN : Start(p, again)

Next ==
    \/ \E p \in Procs : Builder(p) \/ Failure(p) \/ CloseBegin(p) \/ CloseEnd(p)
    \/ Environment

Spec == Init /\ [][Next]_vars

\* The scheduler runs the builder thread and the thread in close().
Fairness == \A p \in Procs : WF_vars(Builder(p)) /\ WF_vars(CloseEnd(p))

FairSpec == Spec /\ Fairness

--------------------------------------------------------------------------------
(* Properties *)

\* Each process is in its type, with the temporary file, the builder's connection,
\* the file being read and the served connection only where the code has them.
\* After the builder's end its resources are those of a cleanup that failed.
ProcessType(p) ==
    /\ proc[p] \in Process
    /\ proc[p].temp => proc[p].pc \in {"read", "page", "replace", "settle", "done"}
    /\ proc[p].open => proc[p].pc \in {"read", "page", "settle", "done"}
    /\ proc[p].pc = "done" /\ (proc[p].temp \/ proc[p].open) => ~proc[p].ready
    /\ proc[p].file # None => proc[p].pc \in {"page", "settle"}
    /\ proc[p].conn # None => proc[p].pc \in {"settle", "done"}

TypeOK ==
    /\ clock \in Versions
    /\ disk \in [Files -> 0 .. clock]
    /\ cache \in Indexes \cup {None}
    /\ DOMAIN proc = Procs /\ \A p \in Procs : ProcessType(p)

\* What _check lets search() and get() see.
Served(p) == IF proc[p].ready /\ ~proc[p].error THEN proc[p].conn ELSE None

\* The file under the name of the cache is never half an index and never hides
\* an edit: if it would be accepted for the .hbk files as they are, it has all
\* the pages that can be read from them, whoever was killed, stopped or
\* overtaken by another process, and whatever was edited during a build.
CacheFaithful ==
    cache # None /\ cache.sound /\ cache.manifest = disk
        => /\ \A f \in Files : cache.pages[f] = WholeFile(disk[f])
           /\ cache.pages # NoPages

\* A search sees the .hbk files as they were when the process started, up to
\* those edited since.
ServedIsCurrent ==
    \A p \in Procs : Served(p) # None =>
        \A f \in Files \ proc[p].dirty : Served(p).pages[f] = WholeFile(disk[f])

\* Once close() has returned, the process has no builder thread that could still
\* write and no connection; a temporary file is left only where removing it, or
\* closing it before, has failed, and then nobody was ever served.
ClosedForGood ==
    \A p \in Procs : proc[p].closer = "done" =>
        /\ At(p, "done") /\ proc[p].conn = None
        /\ proc[p].temp => ~proc[p].ready

\* Seen from outside, the cache is replaced atomically by complete indexes and
\* each process serves one of them.
Promise == INSTANCE HelpCache WITH
    published <- cache,
    serving <- [p \in Procs |-> proc[p].conn]

ImplementsHelpCache == Promise!Spec

\* The cleanup of a builder that failed or was stopped has itself failed.
CleanupFailed(p) ==
    /\ proc[p].open \/ proc[p].temp
    /\ proc[p].error \/ proc[p].stop

\* Whatever fails, a build comes to an end, and it has released its waiters or has
\* something left that it could not close or remove: only then are the tools told
\* for ever that the index has failed or is being built.
BuildSettles ==
    \A p \in Procs :
        At(p, "glob") ~>
            ~Running(p) \/ (At(p, "done") /\ (proc[p].ready \/ CleanupFailed(p)))

\* close() comes back, by return or by the exception of the connection it closes.
CloseReturns ==
    \A p \in Procs :
        proc[p].closer = "joining" ~> proc[p].closer \in {"done", "raised"} \/ ~Running(p)

================================================================================
