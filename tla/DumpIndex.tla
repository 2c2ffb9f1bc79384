------------------------------- MODULE DumpIndex -------------------------------
(***************************************************************************)
(* The code-search index of src/mcp_baf/dumpindex/index.py: a background   *)
(* thread opens the SQLite cache left by an earlier run and applies the    *)
(* difference with the dump directory, or builds the index from nothing;   *)
(* request threads search it, and the lifespan of the server closes it.    *)
(*                                                                         *)
(* Abstractions.                                                           *)
(*  - A file is its version: a number that stands for both its stamp       *)
(*    (mtime_ms, size) and its content, drawn fresh by every edit. Two     *)
(*    versions of a file with one stamp are outside the model, as they are *)
(*    outside what the manifest of the code can see.                       *)
(*  - A row of docs is [stamp, content, named]: named is the extension map *)
(*    under which its name, category and module were resolved.             *)
(*  - A posting <<p, v>> of fts stands for the tokens of version v of p.   *)
(*  - The thread pool that reads files is an unordered set of reads.       *)
(*  - Python's implicit transaction: DDL commits by itself, DML becomes    *)
(*    visible, and survives a crash, only at the end of `with db`.         *)
(***************************************************************************)
EXTENDS Naturals, FiniteSets

CONSTANTS
    Paths,      \* the relative paths .bsl files may have
    Roots,      \* the extension maps discover_extension_roots may return
    NoRoots,    \* no map: none discovered, or no ext_roots row in meta
    NoRow,      \* absence of a row in docs
    MaxClock,   \* bound on the number of edits of dump files
    Faults      \* what the environment may do to the process

\* "io"     a file or manifest cannot be statted or read
\* "sqlite" a statement raises (full disk, locked database)
\* "unlink" os.remove raises (the file is open elsewhere)
\* "stderr" the progress print raises
\* "close"  the lifespan of the server ends
\* "kill"   the process dies or exits
\* "tamper" the cache file is damaged, deleted or of an older release
FaultKinds == {"io", "sqlite", "unlink", "stderr", "close", "kill", "tamper"}

Versions == Nat \ {0}
Row == [stamp : Versions, content : Versions, named : Roots]
NoFile == 0

ASSUME PathsAssumption == IsFiniteSet(Paths)
ASSUME SentinelAssumption == NoRow \notin Row /\ NoRoots \notin Roots
ASSUME RootsAssumption == Roots # {}
ASSUME BoundAssumption == MaxClock \in Nat
ASSUME FaultsAssumption == Faults \subseteq FaultKinds

VARIABLES
    \* the dump directory
    disk,        \* version of the file at each path, NoFile when absent
    diskRoots,   \* the extension map its manifests give
    clock,       \* the last version handed out
    \* the cache file
    db,
    \* the DumpIndex object and its builder thread
    pc,          \* where the builder is ("off": no process)
    reindex,     \* self._reindex
    extRoots,    \* self._ext_roots
    fromCache,   \* TRUE in _open_cache_and_diff, FALSE in _full_build
    todo,        \* paths the current loop has left
    walked,      \* result of _walk_files, NoFile for a path it lacks
    draft,       \* rows of the cold build, or the open transaction
    conn,        \* self._db: "none", "open", or "closed" and not yet None
    ready,       \* self._ready
    buildError,  \* self._build_error is not None
    moduleCount, \* self._module_count
    \* the other threads
    closer,      \* the thread in close()
    searcher,    \* a thread in search(), with how its last call ended
    \* history
    dirty,       \* paths edited, or unreadable, since the process started
    rootsDirty   \* the same for the manifests

env == <<disk, diskRoots, clock>>
builder == <<pc, reindex, extRoots, fromCache, todo, walked, draft>>
shared == <<conn, ready, buildError, moduleCount>>
history == <<dirty, rootsDirty>>
vars == <<env, db, builder, shared, closer, searcher, history>>

--------------------------------------------------------------------------------
(* The database *)

NoRows == [p \in Paths |-> NoRow]

\* The draft before a build has prepared anything.
NoDraft == [docs |-> NoRows, fts |-> {}]

\* A cache file that is not a finished index of this release.
EmptyDb(state) ==
    [state |-> state, roots |-> NoRoots, docs |-> NoRows, fts |-> {}]

DbStates == {"absent", "damaged", "outdated", "partial", "built"}

HasRow(docs, p) == docs[p] # NoRow
PathsIn(docs) == {p \in Paths : HasRow(docs, p)}
CountDocs(docs) == Cardinality(PathsIn(docs))

\* INSERT INTO fts(rowid, content) SELECT id, content FROM docs
PostingsOf(docs) == {<<p, docs[p].content>> : p \in PathsIn(docs)}

RowFor(p) == [stamp |-> walked[p], content |-> disk[p], named |-> extRoots]

\* _fts_delete: the 'delete' command removes the postings of the content that
\* docs holds at that moment.
FtsDelete(image, p) == image.fts \ {<<p, image.docs[p].content>>}

DeleteRow(image, p) ==
    [docs |-> [image.docs EXCEPT ![p] = NoRow],
     fts  |-> FtsDelete(image, p)]

\* Mutant: the UPDATE runs first, so 'delete' is given the new content.
UpdateRowBeforeDelete(image, p) ==
    [docs |-> [image.docs EXCEPT ![p] = [stamp   |-> walked[p],
                                         content |-> disk[p],
                                         named   |-> @.named]],
     fts  |-> (image.fts \ {<<p, disk[p]>>}) \cup {<<p, disk[p]>>}]

\* The UPDATE of a modified file leaves the columns derived from its name.
UpdateRow(image, p) ==
    [docs |-> [image.docs EXCEPT ![p] = [stamp   |-> walked[p],
                                         content |-> disk[p],
                                         named   |-> @.named]],
     fts  |-> FtsDelete(image, p) \cup {<<p, disk[p]>>}]

InsertRow(image, p) ==
    [docs |-> [image.docs EXCEPT ![p] = RowFor(p)],
     fts  |-> image.fts \cup {<<p, disk[p]>>}]

\* The three lists of the diff. The manifest is the committed docs table.
Deleted  == {p \in PathsIn(db.docs) : walked[p] = NoFile}
Modified == {p \in PathsIn(db.docs) :
                walked[p] # NoFile /\ walked[p] # db.docs[p].stamp}
Added    == {p \in Paths : ~HasRow(db.docs, p) /\ walked[p] # NoFile}

--------------------------------------------------------------------------------
Init ==
    /\ disk \in [Paths -> {NoFile}]
    /\ diskRoots \in Roots
    /\ clock = 0
    /\ db = EmptyDb("absent")
    /\ pc = "off"
    /\ reindex = FALSE
    /\ extRoots = NoRoots
    /\ fromCache = FALSE
    /\ todo = {}
    /\ walked = [p \in Paths |-> NoFile]
    /\ draft = NoDraft
    /\ conn = "none"
    /\ ready = FALSE
    /\ buildError = FALSE
    /\ moduleCount = 0
    /\ closer = "idle"
    /\ searcher = "idle"
    /\ dirty = {}
    /\ rootsDirty = FALSE

Running == pc # "off"
Goto(label) == pc' = label

--------------------------------------------------------------------------------
(* The dump directory and the cache file, changed from outside *)

\* 1C:Enterprise (or an editor) writes a new version of a file at any moment.
Edit(p) ==
    /\ clock < MaxClock
    /\ clock' = clock + 1
    /\ disk' = [disk EXCEPT ![p] = clock + 1]
    /\ dirty' = IF Running THEN dirty \cup {p} ELSE dirty
    /\ UNCHANGED <<diskRoots, db, builder, shared, closer, searcher, rootsDirty>>

Remove(p) ==
    /\ disk[p] # NoFile
    /\ disk' = [disk EXCEPT ![p] = NoFile]
    /\ dirty' = IF Running THEN dirty \cup {p} ELSE dirty
    /\ UNCHANGED <<diskRoots, clock, db, builder, shared, closer, searcher, rootsDirty>>

\* A nested Configuration.xml is added, removed or renamed.
Remanifest(r) ==
    /\ r # diskRoots
    /\ diskRoots' = r
    /\ rootsDirty' = Running
    /\ UNCHANGED <<disk, clock, db, builder, shared, closer, searcher, dirty>>

Tamper(state) ==
    /\ "tamper" \in Faults
    /\ ~Running
    /\ db' = EmptyDb(state)
    /\ UNCHANGED <<env, builder, shared, closer, searcher, history>>

--------------------------------------------------------------------------------
(* Process start and death *)

\* DumpIndex.__init__ starts the builder thread.
Start(again) ==
    /\ ~Running
    /\ Goto("discover")
    /\ reindex' = again
    /\ dirty' = {}
    /\ rootsDirty' = FALSE
    /\ UNCHANGED <<env, db, extRoots, fromCache, todo, walked, draft, shared, closer, searcher>>

\* The process dies: memory and the open transaction are lost. The builder is a
\* daemon thread, so an exit after close() is no different.
Kill ==
    /\ "kill" \in Faults
    /\ Running
    /\ Goto("off")
    /\ reindex' = FALSE
    /\ extRoots' = NoRoots
    /\ fromCache' = FALSE
    /\ todo' = {}
    /\ walked' = [p \in Paths |-> NoFile]
    /\ draft' = NoDraft
    /\ conn' = "none"
    /\ ready' = FALSE
    /\ buildError' = FALSE
    /\ moduleCount' = 0
    /\ closer' = "idle"
    /\ searcher' = "idle"
    /\ dirty' = {}
    /\ rootsDirty' = FALSE
    /\ UNCHANGED <<env, db>>

--------------------------------------------------------------------------------
(* The builder thread *)

BuilderIdle == {"off", "done", "failed"}

\* Mutant: _build has no outer except, the thread dies silently.
RaiseUncaught ==
    /\ IF fromCache THEN Goto("discard") ELSE Goto("failed")
    /\ draft' = NoDraft
    /\ UNCHANGED <<reindex, extRoots, fromCache, todo, walked, shared>>

\* An exception at this step. Inside the inner try of _build it leads to the
\* removal of the cache (the `with db` block has rolled back), outside of it to
\* a permanent build error.
Raise ==
    /\ IF fromCache
       THEN Goto("discard") /\ UNCHANGED buildError
       ELSE Goto("failed") /\ buildError' = TRUE
    /\ draft' = NoDraft
    /\ UNCHANGED <<reindex, extRoots, fromCache, todo, walked, conn, ready, moduleCount>>

BeginWalk(cached) ==
    /\ Goto("walk")
    /\ fromCache' = cached
    /\ todo' = Paths
    /\ walked' = [p \in Paths |-> NoFile]

\* self._ext_roots = discover_extension_roots(self._dir); an unreadable
\* manifest is passed over, so the map may then lack entries.
Discover ==
    /\ pc = "discover"
    /\ Goto("dispatch")
    /\ \/ extRoots' = diskRoots /\ UNCHANGED rootsDirty
       \/ "io" \in Faults /\ extRoots' \in Roots /\ rootsDirty' = TRUE
    /\ UNCHANGED <<env, db, reindex, fromCache, todo, walked, draft,
                   shared, closer, searcher, dirty>>

\* The two tests of _build on the cache file, and the os.remove of --reindex.
OpenOrRebuild ==
    /\ pc = "dispatch"
    /\ \/ /\ db.state # "absent" /\ ~reindex
          /\ Goto("open")
          /\ fromCache' = TRUE
          /\ UNCHANGED <<db, todo, walked>>
       \/ /\ db.state = "absent" \/ reindex
          /\ db' = EmptyDb("absent")
          /\ BeginWalk(FALSE)
    /\ UNCHANGED <<env, reindex, extRoots, draft, shared, closer, searcher, history>>

\* Mutant: the cached index is offered to searches before its diff.
OpenCacheReady ==
    /\ pc = "open"
    /\ Goto("check")
    /\ conn' = "open"
    /\ ready' = TRUE
    /\ UNCHANGED <<env, db, reindex, extRoots, fromCache, todo, walked, draft,
                   buildError, moduleCount, closer, searcher, history>>

\* db = self._db = sqlite3.connect(...)
OpenCache ==
    /\ pc = "open"
    /\ Goto("check")
    /\ conn' = "open"
    /\ UNCHANGED <<env, db, reindex, extRoots, fromCache, todo, walked, draft,
                   ready, buildError, moduleCount, closer, searcher, history>>

\* Mutant: the extension map of the cache is not compared.
CacheAcceptedByVersion == db.state = "built"

\* What the two SELECTs on meta accept.
CacheAccepted == db.state = "built" /\ db.roots = extRoots

CheckCache ==
    /\ pc = "check"
    /\ conn = "open"
    /\ IF CacheAccepted
       THEN /\ BeginWalk(TRUE)
            /\ UNCHANGED <<reindex, extRoots, draft, shared>>
       ELSE Raise
    /\ UNCHANGED <<env, db, closer, searcher, history>>

\* One file of os.walk: its stat, or the OSError that leaves it out.
WalkFile(p) ==
    /\ pc = "walk"
    /\ p \in todo
    /\ todo' = todo \ {p}
    /\ \/ /\ walked' = [walked EXCEPT ![p] = disk[p]]
          /\ UNCHANGED dirty
       \/ /\ "io" \in Faults /\ disk[p] # NoFile
          /\ dirty' = dirty \cup {p}
          /\ UNCHANGED walked
    /\ UNCHANGED <<env, db, pc, reindex, extRoots, fromCache, draft, shared,
                   closer, searcher, rootsDirty>>

\* End of the walk of _full_build, which goes on to read what it found.
FullWalkDone ==
    /\ pc = "walk" /\ ~fromCache /\ todo = {}
    /\ \/ /\ Goto("read")
          /\ todo' = {p \in Paths : walked[p] # NoFile}
          /\ UNCHANGED <<reindex, extRoots, fromCache, walked, draft, shared>>
       \/ "stderr" \in Faults /\ Raise
    /\ UNCHANGED <<env, db, closer, searcher, history>>

\* Mutant: the unreadable files are not filtered out.
ReadOneUnfiltered(p) ==
    /\ pc = "read"
    /\ p \in todo
    /\ todo' = todo \ {p}
    /\ draft' = [draft EXCEPT !.docs[p] = RowFor(p)]
    /\ UNCHANGED <<env, db, pc, reindex, extRoots, fromCache, walked, shared,
                   closer, searcher, history>>

\* read_one: the row of a file that could be read. The stamp is that of the
\* walk, the content that of now.
ReadOne(p) ==
    /\ pc = "read"
    /\ p \in todo
    /\ todo' = todo \ {p}
    /\ \/ /\ disk[p] # NoFile
          /\ draft' = [draft EXCEPT !.docs[p] = RowFor(p)]
          /\ UNCHANGED dirty
       \/ /\ disk[p] = NoFile \/ "io" \in Faults
          /\ dirty' = dirty \cup {p}
          /\ UNCHANGED draft
    /\ UNCHANGED <<env, db, pc, reindex, extRoots, fromCache, walked, shared,
                   closer, searcher, rootsDirty>>

\* _connect and the DDL of _create_schema, which commits statement by statement.
CreateSchema ==
    /\ pc = "read" /\ todo = {}
    /\ IF db.state = "absent"
       THEN /\ Goto("fill")
            /\ db' = EmptyDb("partial")
            /\ UNCHANGED <<reindex, extRoots, fromCache, todo, walked, draft, shared>>
       ELSE Raise /\ UNCHANGED db
    /\ UNCHANGED <<env, closer, searcher, history>>

\* The transaction of _full_build (meta rows included) and self._db = db.
Fill ==
    /\ pc = "fill"
    /\ db' = [state |-> "built", roots |-> extRoots,
              docs |-> draft.docs, fts |-> PostingsOf(draft.docs)]
    /\ draft' = NoDraft
    /\ conn' = "open"
    /\ Goto("finish")
    /\ UNCHANGED <<env, reindex, extRoots, fromCache, todo, walked, ready,
                   buildError, moduleCount, closer, searcher, history>>

\* End of the walk of _open_cache_and_diff and the SELECT of the manifest.
Diff ==
    /\ pc = "walk" /\ fromCache /\ todo = {}
    /\ conn = "open"
    /\ todo' = Deleted \cup Modified \cup Added
    /\ Goto(IF todo' = {} THEN "finish" ELSE "apply")
    /\ draft' = IF todo' = {} THEN draft ELSE [docs |-> db.docs, fts |-> db.fts]
    /\ UNCHANGED <<env, db, reindex, extRoots, fromCache, walked, shared,
                   closer, searcher, history>>

\* One file of the three loops, in their order.
ApplyDeleted(p) ==
    /\ pc = "apply" /\ conn = "open"
    /\ p \in todo \cap Deleted
    /\ todo' = todo \ {p}
    /\ draft' = DeleteRow(draft, p)
    /\ UNCHANGED <<env, db, pc, reindex, extRoots, fromCache, walked, shared,
                   closer, searcher, history>>

\* Mutant: a modified file that cannot be read raises.
ApplyModifiedStrict(p) ==
    /\ pc = "apply" /\ conn = "open"
    /\ p \in todo \cap Modified /\ todo \cap Deleted = {}
    /\ IF disk[p] # NoFile
       THEN /\ todo' = todo \ {p}
            /\ draft' = UpdateRow(draft, p)
            /\ UNCHANGED <<pc, reindex, extRoots, fromCache, walked, shared>>
       ELSE Raise
    /\ UNCHANGED <<env, db, closer, searcher, history>>

ApplyModified(p) ==
    /\ pc = "apply" /\ conn = "open"
    /\ p \in todo \cap Modified /\ todo \cap Deleted = {}
    /\ todo' = todo \ {p}
    /\ \/ /\ disk[p] # NoFile
          /\ draft' = UpdateRow(draft, p)
          /\ UNCHANGED dirty
       \/ /\ disk[p] = NoFile \/ "io" \in Faults
          /\ dirty' = dirty \cup {p}
          /\ UNCHANGED draft
    /\ UNCHANGED <<env, db, pc, reindex, extRoots, fromCache, walked, shared,
                   closer, searcher, rootsDirty>>

ApplyAdded(p) ==
    /\ pc = "apply" /\ conn = "open"
    /\ p \in todo \cap Added /\ todo \subseteq Added
    /\ todo' = todo \ {p}
    /\ \/ /\ disk[p] # NoFile
          /\ draft' = InsertRow(draft, p)
          /\ UNCHANGED dirty
       \/ /\ disk[p] = NoFile \/ "io" \in Faults
          /\ dirty' = dirty \cup {p}
          /\ UNCHANGED draft
    /\ UNCHANGED <<env, db, pc, reindex, extRoots, fromCache, walked, shared,
                   closer, searcher, rootsDirty>>

\* The end of `with db`.
Commit ==
    /\ pc = "apply" /\ conn = "open"
    /\ todo = {}
    /\ db' = [db EXCEPT !.docs = draft.docs, !.fts = draft.fts]
    /\ draft' = NoDraft
    /\ Goto("finish")
    /\ UNCHANGED <<env, reindex, extRoots, fromCache, todo, walked, shared,
                   closer, searcher, history>>

\* _finish_build up to self._ready.set(); its assert, and the SELECT on a
\* connection that close() has closed, raise.
Finish ==
    /\ pc = "finish"
    /\ conn = "open"
    /\ Goto("announce")
    /\ moduleCount' = CountDocs(db.docs)
    /\ ready' = TRUE
    /\ UNCHANGED <<env, db, reindex, extRoots, fromCache, todo, walked, draft,
                   conn, buildError, closer, searcher, history>>

\* The progress message, still inside the try of _build.
Announce ==
    /\ pc = "announce"
    /\ \/ /\ Goto("done")
          /\ UNCHANGED <<reindex, extRoots, fromCache, todo, walked, draft, shared>>
       \/ "stderr" \in Faults /\ Raise
    /\ UNCHANGED <<env, db, closer, searcher, history>>

\* A statement fails: because close() took the connection away, or for a
\* reason of SQLite's own.
UsesDatabase ==
    \/ pc \in {"check", "apply", "finish"}
    \/ pc = "walk" /\ fromCache /\ todo = {}

StatementFails ==
    /\ \/ UsesDatabase /\ (conn # "open" \/ "sqlite" \in Faults)
       \/ pc \in {"open", "fill"} /\ "sqlite" \in Faults
    /\ Raise
    /\ UNCHANGED <<env, db, closer, searcher, history>>

\* A DDL statement fails; the ones before it stay.
SchemaFails ==
    /\ "sqlite" \in Faults
    /\ pc = "read" /\ todo = {}
    /\ db' \in {db, EmptyDb("partial")}
    /\ Raise
    /\ UNCHANGED <<env, closer, searcher, history>>

\* _close_db in the except branch of _build: test, close, set to None.
DiscardTest ==
    /\ pc = "discard"
    /\ Goto(IF conn = "none" THEN "unlink" ELSE "closing")
    /\ UNCHANGED <<env, db, reindex, extRoots, fromCache, todo, walked, draft,
                   shared, closer, searcher, history>>

\* None has no method close: the exception leaves the except branch.
DiscardClose ==
    /\ pc = "closing"
    /\ IF conn = "none"
       THEN Goto("failed") /\ buildError' = TRUE /\ UNCHANGED conn
       ELSE Goto("nulling") /\ conn' = "closed" /\ UNCHANGED buildError
    /\ UNCHANGED <<env, db, reindex, extRoots, fromCache, todo, walked, draft,
                   ready, moduleCount, closer, searcher, history>>

DiscardNull ==
    /\ pc = "nulling"
    /\ Goto("unlink")
    /\ conn' = "none"
    /\ UNCHANGED <<env, db, reindex, extRoots, fromCache, todo, walked, draft,
                   ready, buildError, moduleCount, closer, searcher, history>>

\* os.remove(self._db_path), then _full_build.
Unlink ==
    /\ pc = "unlink"
    /\ db' = EmptyDb("absent")
    /\ BeginWalk(FALSE)
    /\ UNCHANGED <<env, reindex, extRoots, draft, shared, closer, searcher, history>>

\* os.remove raises, here or under --reindex.
UnlinkFails ==
    /\ "unlink" \in Faults
    /\ pc = "unlink" \/ (pc = "dispatch" /\ reindex /\ db.state # "absent")
    /\ Goto("failed")
    /\ buildError' = TRUE
    /\ UNCHANGED <<env, db, reindex, extRoots, fromCache, todo, walked, draft,
                   conn, ready, moduleCount, closer, searcher, history>>

--------------------------------------------------------------------------------
(* The lifespan: close(), under _db_lock *)

CloseHolds == closer \in {"closing", "nulling"}

CloseTest ==
    /\ "close" \in Faults
    /\ Running
    /\ closer = "idle"
    /\ closer' = IF conn = "none" THEN "done" ELSE "closing"
    /\ UNCHANGED <<env, db, builder, shared, searcher, history>>

\* Mutant: the lock is not released when close() raises.
CloseConnectionKeepsLock ==
    /\ closer = "closing"
    /\ conn # "none"
    /\ closer' = "nulling"
    /\ conn' = "closed"
    /\ UNCHANGED <<env, db, builder, ready, buildError, moduleCount, searcher, history>>

CloseConnection ==
    /\ closer = "closing"
    /\ IF conn = "none"
       THEN closer' = "raised" /\ UNCHANGED conn
       ELSE closer' = "nulling" /\ conn' = "closed"
    /\ UNCHANGED <<env, db, builder, ready, buildError, moduleCount, searcher, history>>

CloseNull ==
    /\ closer = "nulling"
    /\ closer' = "done"
    /\ conn' = "none"
    /\ UNCHANGED <<env, db, builder, ready, buildError, moduleCount, searcher, history>>

--------------------------------------------------------------------------------
(* search(), on a thread of asyncio.to_thread *)

\* The readiness test, outside the lock.
SearchAdmit ==
    /\ Running
    /\ searcher # "admitted"
    /\ searcher' = IF ready THEN "admitted"
                   ELSE IF buildError THEN "build failed" ELSE "building"
    /\ UNCHANGED <<env, db, builder, shared, closer, history>>

\* The locked block of _search_smart and _search_line_by_line: the assert, then
\* the SELECTs, which raise on a connection that is being closed.
SearchQuery ==
    /\ searcher = "admitted"
    /\ ~CloseHolds
    /\ searcher' = CASE conn = "none"   -> "assertion failed"
                     [] conn = "closed" -> "query failed"
                     [] OTHER           -> "answered"
    /\ UNCHANGED <<env, db, builder, shared, closer, history>>

--------------------------------------------------------------------------------
OpenStep == Discover \/ OpenOrRebuild \/ OpenCache \/ CheckCache

FileStep ==
    \E p \in Paths :
        WalkFile(p) \/ ReadOne(p) \/ ApplyDeleted(p) \/ ApplyModified(p) \/ ApplyAdded(p)

BuildStep == FullWalkDone \/ CreateSchema \/ Fill \/ Diff \/ Commit \/ Finish \/ Announce

FailureStep == StatementFails \/ SchemaFails \/ UnlinkFails

DiscardStep == DiscardTest \/ DiscardClose \/ DiscardNull \/ Unlink

BuilderStep == OpenStep \/ FileStep \/ BuildStep \/ FailureStep \/ DiscardStep

OtherThreads ==
    \/ CloseTest \/ CloseConnection \/ CloseNull
    \/ SearchAdmit \/ SearchQuery

Environment ==
    \/ \E p \in Paths : Edit(p) \/ Remove(p)
    \/ \E r \in Roots : Remanifest(r)
    \/ \E state \in {"absent", "damaged", "outdated"} : Tamper(state)
    \/ \E again \in BOOLEAN : Start(again)
    \/ Kill

Next == BuilderStep \/ OtherThreads \/ Environment

Spec == Init /\ [][Next]_vars

\* The scheduler runs the builder thread, a thread in close() and one in search().
Fairness ==
    /\ WF_vars(BuilderStep)
    /\ WF_vars(CloseConnection \/ CloseNull)
    /\ WF_vars(SearchQuery)

FairSpec == Spec /\ Fairness

--------------------------------------------------------------------------------
(* Properties *)

Labels == {"off", "discover", "dispatch", "open", "check", "walk",
           "apply", "read", "fill", "finish", "announce", "discard", "closing",
           "nulling", "unlink", "done", "failed"}

Docs == [Paths -> Row \cup {NoRow}]
Postings == Paths \X Versions
Images == [docs : Docs, fts : SUBSET Postings]
Databases == [state : DbStates, roots : Roots \cup {NoRoots},
              docs : Docs, fts : SUBSET Postings]

EnvType ==
    /\ disk \in [Paths -> Nat]
    /\ diskRoots \in Roots
    /\ clock \in 0 .. MaxClock

BuilderType ==
    /\ pc \in Labels
    /\ reindex \in BOOLEAN
    /\ extRoots \in Roots \cup {NoRoots}
    /\ fromCache \in BOOLEAN
    /\ todo \subseteq Paths
    /\ walked \in [Paths -> Nat]
    /\ draft \in Images

SharedType ==
    /\ conn \in {"none", "open", "closed"}
    /\ ready \in BOOLEAN
    /\ buildError \in BOOLEAN
    /\ moduleCount \in Nat

ThreadsType ==
    /\ closer \in {"idle", "closing", "nulling", "done", "raised"}
    /\ searcher \in {"idle", "admitted", "building", "build failed", "answered",
                     "assertion failed", "query failed"}

HistoryType == dirty \subseteq Paths /\ rootsDirty \in BOOLEAN

TypeOK ==
    EnvType /\ db \in Databases /\ BuilderType /\ SharedType /\ ThreadsType /\ HistoryType

\* A cache that the next start would accept never hides an edit: a row whose
\* stamp is that of the file holds the content of the file, whatever was edited
\* between the walk and the read, and whatever was killed, failed or closed in
\* between. Its names are those of the recorded extension map, and the
\* full-text index has the tokens of exactly the texts in docs, so that the
\* smart mode and the line modes search the same code.
CacheFaithful ==
    db.state = "built" =>
        /\ \A p \in PathsIn(db.docs) :
              /\ db.docs[p].stamp = disk[p] => db.docs[p].content = disk[p]
              /\ db.docs[p].named = db.roots
        /\ db.fts = PostingsOf(db.docs)

\* Once the index is ready, warm or cold, it holds exactly the dump as it was
\* when the process started, up to the files that were edited or unreadable
\* since then, each under the name the manifests give it.
ReadyIndexIsCurrent ==
    ready /\ pc \in {"announce", "done"} =>
        /\ \A p \in Paths \ dirty :
              IF disk[p] = NoFile
              THEN ~HasRow(db.docs, p)
              ELSE HasRow(db.docs, p) /\ db.docs[p].content = disk[p]
        /\ ~rootsDirty =>
              \A p \in PathsIn(db.docs) : db.docs[p].named = diskRoots

\* While no thread but the builder touches the connection and the progress
\* print works, the ready flag promises an open connection, a committed index
\* and its document count: the assert of search() cannot fail.
ReadyHasWholeIndex ==
    /\ ready => /\ conn = "open"
                /\ db.state = "built"
                /\ moduleCount = CountDocs(db.docs)
                /\ ~buildError
    /\ searcher \notin {"assertion failed", "query failed"}

\* The builder removes the cache file only when it is of no use: damaged, of
\* another schema version or named under other extension roots ("the cache is
\* broken, rebuild it" in _build).
DiscardsOnlyBrokenCache ==
    [][pc = "unlink" /\ pc' = "walk" => ~CacheAccepted]_vars

\* A build that starts ends with a usable index or with the error that search()
\* reports, whatever fails on the way; a waiting client is not left with
\* "the index is building" for ever.
BuildSettles == (pc = "discover") ~> (pc = "off" \/ ready \/ buildError)

\* A search that passed the readiness test returns, also when close() raised
\* while it held the lock.
AdmittedSearchReturns == (searcher = "admitted") ~> (searcher # "admitted")

================================================================================
