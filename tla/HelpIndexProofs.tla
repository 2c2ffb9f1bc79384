---------------------------- MODULE HelpIndexProofs ----------------------------
(***************************************************************************)
(* For any number of processes over one cache file, any set of .hbk files  *)
(* and any bound on their edits: the cache never hides an edit, nothing is *)
(* left of a closed process, and the builders implement HelpCache.         *)
(***************************************************************************)
EXTENDS HelpIndex, TLAPS

\* Version v of a file was on the disk: no later edit brings it back.
Seen(f, v) == v \in Versions /\ v <= clock /\ (disk[f] = Absent \/ v <= disk[f])

\* The pages of a file are all of a version not older than its manifest says.
Covered(f, m, pages) ==
    IF m = Absent THEN pages = <<0, 0>>
    ELSE \E v \in Versions : Seen(f, v) /\ m <= v /\ pages = WholeFile(v)

\* What the builder has put into its temporary database.
Drafted(p, f) ==
    /\ f \in proc[p].todo => proc[p].manifest[f] # Absent
    /\ f \in proc[p].todo \/ proc[p].manifest[f] = Absent => proc[p].draft[f] = <<0, 0>>
    /\ f \notin proc[p].todo \cup {proc[p].file}
          => Covered(f, proc[p].manifest[f], proc[p].draft[f])

\* The file under way: its first pages.
Begun(p) ==
    LET f == proc[p].file
        v == proc[p].version
        d == proc[p].draft[f]
    IN /\ f \in Files \ proc[p].todo /\ proc[p].manifest[f] # Absent
       /\ Seen(f, v) /\ proc[p].manifest[f] <= v
       /\ d = <<0, 0>> \/ (d[1] = v /\ d[2] >= 1 /\ d[2] <= PageCount[v])

ProcInv(p) ==
    /\ \A f \in Files : proc[p].manifest[f] # Absent => Seen(f, proc[p].manifest[f])
    /\ proc[p].pc \in {"off", "glob", "stat", "check", "create"} => proc[p].draft = NoPages
    /\ proc[p].pc \in {"read", "page", "replace"} => \A f \in Files : Drafted(p, f)
    /\ proc[p].pc = "page" => Begun(p)
    /\ proc[p].pc = "replace" => proc[p].todo = {} /\ proc[p].draft # NoPages
    /\ proc[p].pc = "connect" => cache # None /\ cache.sound
    /\ proc[p].closer = "done" => proc[p].pc = "done" /\ proc[p].conn = None

CacheInv ==
    cache # None =>
        /\ \A f \in Files : Covered(f, cache.manifest[f], cache.pages[f])
        /\ cache.pages # NoPages

Inv == TypeOK /\ CacheInv /\ \A p \in Procs : ProcInv(p)

--------------------------------------------------------------------------------
(* Lemmas *)

OthersStay(p) == DOMAIN proc' = Procs /\ \A q \in Procs \ {p} : proc'[q] = proc[q]

\* A step of one process that leaves the files alone.
LEMMA OneMoves ==
    ASSUME Inv, NEW p \in Procs, OthersStay(p), ProcessType(p)', ProcInv(p)',
           UNCHANGED <<disk, clock, cache>>
    PROVE  Inv'
<1>1. TypeOK'
  BY DEF Inv, TypeOK, OthersStay, ProcessType
<1>2. CacheInv'
  BY DEF Inv, CacheInv, Covered, Seen
<1>3. ASSUME NEW q \in Procs PROVE ProcInv(q)'
  <2>1. CASE q = p
    BY <2>1
  <2>2. CASE q # p
    <3>1. proc'[q] = proc[q] /\ ProcInv(q)
      BY <2>2 DEF Inv, OthersStay
    <3>2. \A f, v : Seen(f, v)' <=> Seen(f, v)
      BY DEF Seen
    <3>3. \A f, m, pages : Covered(f, m, pages)' <=> Covered(f, m, pages)
      BY <3>2 DEF Covered
    <3>4. \A f : Drafted(q, f)' <=> Drafted(q, f)
      BY <3>1, <3>3 DEF Drafted
    <3>5. Begun(q)' <=> Begun(q)
      BY <3>1, <3>2 DEF Begun
    <3> QED
      BY <3>1, <3>2, <3>4, <3>5 DEF ProcInv
  <2> QED
    BY <2>1, <2>2
<1> QED
  BY <1>1, <1>2, <1>3 DEF Inv

\* An exception: the builder goes to its finally.
LEMMA FailStep ==
    ASSUME Inv, NEW p \in Procs, Fail(p), Running(p), ~At(p, "done"),
           UNCHANGED <<disk, clock, cache>>
    PROVE  Inv'
<1>1. /\ OthersStay(p)
      /\ proc'[p] = [proc[p] EXCEPT !.pc = "settle", !.error = TRUE]
      /\ ProcessType(p)
  BY DEF Inv, TypeOK, OthersStay, Fail
<1>2. ProcessType(p)'
  BY <1>1 DEF ProcessType, Process, Labels
<1>3. ProcInv(p)'
  BY <1>1 DEF Inv, ProcInv, ProcessType, Process, Seen, At
<1> QED
  BY <1>1, <1>2, <1>3, OneMoves

\* The same with what the exception finds open.
LEMMA RaiseStep ==
    ASSUME Inv, NEW p \in Procs, NEW held \in BOOLEAN \X BOOLEAN,
           FailHolding(p, held), Running(p), ~At(p, "done"), UNCHANGED <<disk, clock, cache>>
    PROVE  Inv'
<1>1. /\ OthersStay(p)
      /\ proc'[p] = [proc[p] EXCEPT !.pc = "settle", !.error = TRUE, !.open = held[1],
                                    !.temp = held[2]]
      /\ ProcessType(p) /\ ProcInv(p)
  BY DEF Inv, TypeOK, OthersStay, FailHolding
<1>2. ProcessType(p)'
  <2>1. /\ proc'[p] \in Process
        /\ proc'[p].pc = "settle" /\ proc'[p].file = proc[p].file
        /\ proc'[p].conn = proc[p].conn
    BY <1>1 DEF ProcessType, Process, Labels
  <2> QED
    BY <2>1 DEF ProcessType
<1>3. ProcInv(p)'
  <2>1. /\ proc'[p].pc = "settle" /\ proc'[p].manifest = proc[p].manifest
        /\ proc'[p].closer = proc[p].closer /\ proc[p].pc # "done"
    BY <1>1 DEF ProcessType, Process, At
  <2> QED
    BY <1>1, <2>1 DEF ProcInv, Seen
<1> QED
  BY <1>1, <1>2, <1>3, OneMoves

--------------------------------------------------------------------------------
(* The builder *)

LEMMA GlobStep == ASSUME Inv, NEW p \in Procs, Glob(p) PROVE Inv'
<1>1. CASE Present = {}
  BY <1>1, FailStep DEF Glob, At, Running
<1>2. CASE Present # {}
  <2>1. /\ OthersStay(p) /\ proc[p].pc = "glob"
        /\ proc'[p] = [proc[p] EXCEPT !.pc = "stat", !.todo = Present]
        /\ ProcessType(p) /\ ProcInv(p) /\ UNCHANGED <<disk, clock, cache>>
    BY <1>2 DEF Inv, TypeOK, OthersStay, Glob, At
  <2>2. ProcessType(p)'
    BY <2>1 DEF ProcessType, Process, Labels, Present
  <2>3. ProcInv(p)'
    BY <2>1 DEF ProcInv, ProcessType, Process, Seen
  <2> QED
    BY <2>1, <2>2, <2>3, OneMoves
<1> QED
  BY <1>1, <1>2

LEMMA StatStep == ASSUME Inv, NEW p \in Procs, NEW f \in Files, Stat(p, f) PROVE Inv'
<1>1. CASE disk[f] = Absent
  BY <1>1, FailStep DEF Stat, At, Running
<1>2. CASE disk[f] # Absent
  <2>1. /\ OthersStay(p) /\ proc[p].pc = "stat"
        /\ proc'[p] = [proc[p] EXCEPT !.todo = @ \ {f}, !.manifest[f] = disk[f]]
        /\ ProcessType(p) /\ ProcInv(p) /\ UNCHANGED <<disk, clock, cache>>
    BY <1>2 DEF Inv, TypeOK, OthersStay, Stat, At
  <2>2. disk[f] \in Versions /\ Seen(f, disk[f])
    BY <1>2, BoundAssumption DEF Inv, TypeOK, Seen, Versions, Absent
  <2>3. ProcessType(p)'
    <3>1. [proc[p].manifest EXCEPT ![f] = disk[f]] \in Manifests
      BY <2>1, <2>2 DEF ProcessType, Process, Manifests
    <3>2. proc'[p] = [proc[p] EXCEPT !.todo = @ \ {f},
                                    !.manifest = [proc[p].manifest EXCEPT ![f] = disk[f]]]
      BY <2>1 DEF ProcessType, Process
    <3> QED
      BY <2>1, <3>1, <3>2 DEF ProcessType, Process
  <2>4. ProcInv(p)'
    BY <2>1, <2>2 DEF ProcInv, ProcessType, Process, Seen, Manifests
  <2> QED
    BY <2>1, <2>3, <2>4, OneMoves
<1> QED
  BY <1>1, <1>2

LEMMA ConsultStep == ASSUME Inv, NEW p \in Procs, Consult(p) PROVE Inv'
<1>1. PICK pc \in {"check", "create"} :
        /\ OthersStay(p) /\ proc[p].pc = "stat" /\ proc'[p] = [proc[p] EXCEPT !.pc = pc]
        /\ ProcessType(p) /\ ProcInv(p) /\ UNCHANGED <<disk, clock, cache>>
  BY DEF Inv, TypeOK, OthersStay, Consult, At
<1>2. ProcessType(p)'
  BY <1>1 DEF ProcessType, Process, Labels
<1>3. ProcInv(p)'
  BY <1>1 DEF ProcInv, ProcessType, Process, Seen
<1> QED
  BY <1>1, <1>2, <1>3, OneMoves

LEMMA CheckStep == ASSUME Inv, NEW p \in Procs, Check(p) PROVE Inv'
<1>1. /\ OthersStay(p) /\ proc[p].pc = "check"
      /\ \/ cache # None /\ proc'[p] = [proc[p] EXCEPT !.pc = "settle", !.conn = cache]
         \/ proc'[p] = [proc[p] EXCEPT !.pc = "create"]
      /\ ProcessType(p) /\ ProcInv(p) /\ UNCHANGED <<disk, clock, cache>>
      /\ cache \in Indexes \cup {None}
  BY DEF Inv, TypeOK, OthersStay, Check, Accepted, At
<1>2. ProcessType(p)'
  BY <1>1 DEF ProcessType, Process, Labels
<1>3. ProcInv(p)'
  BY <1>1 DEF ProcInv, ProcessType, Process, Seen
<1> QED
  BY <1>1, <1>2, <1>3, OneMoves

LEMMA CreateStep == ASSUME Inv, NEW p \in Procs, Create(p) PROVE Inv'
<1> DEFINE named == {f \in Files : proc[p].manifest[f] # Absent}
<1>1. /\ OthersStay(p) /\ proc[p].pc = "create"
      /\ proc'[p] = [proc[p] EXCEPT !.pc = "read", !.temp = TRUE, !.open = TRUE, !.todo = named]
      /\ ProcessType(p) /\ ProcInv(p) /\ UNCHANGED <<disk, clock, cache>>
  BY DEF Inv, TypeOK, OthersStay, Create, At
<1>2. ProcessType(p)'
  BY <1>1, NoneAssumption DEF ProcessType, Process, Labels
<1>3. ASSUME NEW f \in Files PROVE Drafted(p, f)'
  BY <1>1 DEF ProcInv, ProcessType, Process, Drafted, Covered, NoPages, Absent
<1>4. ProcInv(p)'
  BY <1>1, <1>3 DEF ProcInv, ProcessType, Process, Seen
<1> QED
  BY <1>1, <1>2, <1>4, OneMoves

LEMMA ReadStep == ASSUME Inv, NEW p \in Procs, NEW f \in Files, Read(p, f) PROVE Inv'
<1>1. CASE disk[f] = Absent
  BY <1>1, FailStep DEF Read, At, Running
<1>2. CASE disk[f] # Absent
  <2>1. /\ OthersStay(p) /\ proc[p].pc = "read" /\ f \in proc[p].todo
        /\ proc'[p] = [proc[p] EXCEPT !.pc = "page", !.todo = @ \ {f}, !.file = f,
                                      !.version = disk[f]]
        /\ ProcessType(p) /\ ProcInv(p) /\ UNCHANGED <<disk, clock, cache>>
    BY <1>2 DEF Inv, TypeOK, OthersStay, Read, At
  <2>2. disk[f] \in Versions /\ Seen(f, disk[f])
    BY <1>2, BoundAssumption DEF Inv, TypeOK, Seen, Versions, Absent
  <2>3. ProcessType(p)'
    BY <2>1, <2>2, NoneAssumption DEF ProcessType, Process, Labels
  <2>4. /\ proc[p].file = None /\ \A g \in Files : Drafted(p, g)
        /\ proc[p].manifest[f] # Absent /\ proc[p].draft[f] = <<0, 0>>
        /\ proc[p].manifest[f] <= disk[f]
    BY <1>2, <2>1 DEF ProcInv, ProcessType, Drafted, Seen
  <2>5. Begun(p)'
    BY <2>1, <2>2, <2>4 DEF Begun, Seen, ProcessType, Process
  <2>6. ASSUME NEW g \in Files PROVE Drafted(p, g)'
    <3>1. /\ proc'[p].todo = proc[p].todo \ {f} /\ proc'[p].file = f
          /\ proc'[p].manifest = proc[p].manifest /\ proc'[p].draft = proc[p].draft
      BY <2>1 DEF ProcessType, Process
    <3>2. \A m, pages : Covered(g, m, pages)' <=> Covered(g, m, pages)
      BY <2>1 DEF Covered, Seen
    <3> QED
      BY <2>1, <2>4, <3>1, <3>2, NoneAssumption DEF Drafted
  <2>7. ProcInv(p)'
    BY <2>1, <2>5, <2>6 DEF ProcInv, ProcessType, Process, Seen
  <2> QED
    BY <2>1, <2>3, <2>7, OneMoves
<1> QED
  BY <1>1, <1>2

\* A page more of the file under way, or the end of the thread.
LEMMA PageStep == ASSUME Inv, NEW p \in Procs, Page(p) PROVE Inv'
<1> DEFINE f == proc[p].file
           v == proc[p].version
           d == proc[p].draft
<1>1. /\ OthersStay(p) /\ proc[p].pc = "page" /\ PagesLeft(p)
      /\ ProcessType(p) /\ ProcInv(p) /\ UNCHANGED <<disk, clock, cache>>
  BY DEF Inv, TypeOK, OthersStay, Page, At
<1>2. CASE proc[p].stop
  <2>1. proc'[p] = [proc[p] EXCEPT !.pc = "settle"]
    BY <1>2 DEF Inv, TypeOK, Page
  <2>2. ProcessType(p)'
    BY <1>1, <2>1 DEF ProcessType, Process, Labels
  <2>3. ProcInv(p)'
    BY <1>1, <2>1 DEF ProcInv, ProcessType, Process, Seen
  <2> QED
    BY <1>1, <2>2, <2>3, OneMoves
<1>3. CASE ~proc[p].stop
  <2>1. proc'[p] = [proc[p] EXCEPT !.draft[f] = <<v, @[2] + 1>>]
    BY <1>3 DEF Inv, TypeOK, Page
  <2>2. /\ f \in Files /\ Begun(p) /\ v \in Versions
        /\ d[f][2] \in Nat /\ d[f][2] < PageCount[v] /\ PageCount[v] \in Nat
    BY <1>1, PagesAssumption DEF ProcInv, Begun, PagesLeft, ProcessType, Process, Pages, Seen
  <2>3. d[f][2] + 1 \in Nat /\ d[f][2] + 1 >= 1 /\ d[f][2] + 1 <= PageCount[v]
    BY <2>2
  <2>4. /\ [d EXCEPT ![f] = <<v, d[f][2] + 1>>] \in Pages
        /\ proc'[p] = [proc[p] EXCEPT !.draft = [d EXCEPT ![f] = <<v, d[f][2] + 1>>]]
    BY <1>1, <2>1, <2>2, <2>3 DEF ProcessType, Process, Pages
  <2>5. ProcessType(p)'
    BY <1>1, <2>4 DEF ProcessType, Process
  <2>6. /\ proc'[p].file = f /\ proc'[p].version = v /\ proc'[p].pc = "page"
        /\ proc'[p].todo = proc[p].todo /\ proc'[p].manifest = proc[p].manifest
        /\ proc'[p].draft[f] = <<v, d[f][2] + 1>>
        /\ \A g \in Files \ {f} : proc'[p].draft[g] = d[g]
        /\ proc'[p].closer = proc[p].closer
    BY <1>1, <2>2, <2>4 DEF ProcessType, Process, Pages
  <2>7. Begun(p)'
    BY <1>1, <2>2, <2>3, <2>6 DEF Begun, Seen
  <2>8. ASSUME NEW g \in Files PROVE Drafted(p, g)'
    <3>1. \A m, pages : Covered(g, m, pages)' <=> Covered(g, m, pages)
      BY <1>1 DEF Covered, Seen
    <3>2. Drafted(p, g)
      BY <1>1 DEF ProcInv
    <3>3. CASE g # f
      BY <2>6, <3>1, <3>2, <3>3 DEF Drafted
    <3>4. CASE g = f
      BY <2>2, <2>6, <3>4 DEF Drafted, Begun
    <3> QED
      BY <3>3, <3>4
  <2>9. ProcInv(p)'
    BY <1>1, <2>6, <2>7, <2>8 DEF ProcInv, Seen
  <2> QED
    BY <1>1, <2>5, <2>9, OneMoves
<1> QED
  BY <1>2, <1>3

\* The file is read as far as it can be.
LEMMA EndFileStep == ASSUME Inv, NEW p \in Procs, EndFile(p) PROVE Inv'
<1> DEFINE f == proc[p].file
           v == proc[p].version
           d == proc[p].draft
<1>1. /\ OthersStay(p) /\ proc[p].pc = "page" /\ ~PagesLeft(p)
      /\ proc'[p] = [proc[p] EXCEPT !.pc = "read", !.file = None, !.version = Absent]
      /\ ProcessType(p) /\ ProcInv(p) /\ UNCHANGED <<disk, clock, cache>>
  BY DEF Inv, TypeOK, OthersStay, EndFile, At
<1>2. ProcessType(p)'
  BY <1>1 DEF ProcessType, Process, Labels
<1>3. Begun(p)
  BY <1>1 DEF ProcInv
<1>4. d[f] = WholeFile(v)
  <2>1. /\ f \in Files /\ v \in Versions /\ v # Absent /\ PageCount[v] \in Nat
        /\ d[f] \in (Versions \cup {Absent}) \X Nat /\ ~(d[f][2] < PageCount[v])
    <3>1. f \in Files /\ v \in Versions /\ f # None
      BY <1>3, NoneAssumption DEF Begun, Seen
    <3>2. v # Absent /\ PageCount[v] \in Nat
      BY <3>1, PagesAssumption, BoundAssumption DEF Versions, Absent
    <3>3. d[f] \in (Versions \cup {Absent}) \X Nat
      BY <1>1, <3>1 DEF ProcessType, Process, Pages
    <3> QED
      BY <1>1, <3>1, <3>2, <3>3 DEF PagesLeft
  <2>2. CASE d[f] = <<0, 0>>
    <3>1. PageCount[v] = 0
      BY <2>1, <2>2
    <3> QED
      BY <2>1, <2>2, <3>1 DEF WholeFile
  <2>3. CASE d[f][1] = v /\ d[f][2] >= 1 /\ d[f][2] <= PageCount[v]
    <3>1. d[f][2] = PageCount[v] /\ PageCount[v] # 0
      BY <2>1, <2>3
    <3>2. d[f] = <<v, PageCount[v]>>
      BY <2>1, <2>3, <3>1
    <3> QED
      BY <2>1, <3>1, <3>2 DEF WholeFile
  <2> QED
    BY <1>3, <2>2, <2>3 DEF Begun
<1>5. ASSUME NEW g \in Files PROVE Drafted(p, g)'
  <2>1. \A m, pages : Covered(g, m, pages)' <=> Covered(g, m, pages)
    BY <1>1 DEF Covered, Seen
  <2>2. /\ proc'[p].todo = proc[p].todo /\ proc'[p].manifest = proc[p].manifest
        /\ proc'[p].draft = d /\ proc'[p].file = None
    BY <1>1 DEF ProcessType, Process
  <2>3. Drafted(p, g)
    BY <1>1 DEF ProcInv
  <2>4. g = f => Covered(f, proc[p].manifest[f], d[f])
    BY <1>3, <1>4 DEF Begun, Covered, Seen
  <2> QED
    BY <2>1, <2>2, <2>3, <2>4 DEF Drafted
<1>6. ProcInv(p)'
  BY <1>1, <1>5 DEF ProcInv, ProcessType, Process, Seen
<1> QED
  BY <1>1, <1>2, <1>6, OneMoves

LEMMA CommitStep == ASSUME Inv, NEW p \in Procs, Commit(p) PROVE Inv'
<1>1. CASE proc[p].draft = NoPages
  BY <1>1, FailStep DEF Commit, At, Running
<1>2. CASE proc[p].draft # NoPages
  <2>1. /\ OthersStay(p) /\ proc[p].pc = "read" /\ proc[p].todo = {}
        /\ proc'[p] = [proc[p] EXCEPT !.pc = "replace", !.open = FALSE]
        /\ ProcessType(p) /\ ProcInv(p) /\ UNCHANGED <<disk, clock, cache>>
    BY <1>2 DEF Inv, TypeOK, OthersStay, Commit, At
  <2>2. ProcessType(p)'
    BY <2>1 DEF ProcessType, Process, Labels
  <2>3. ASSUME NEW g \in Files PROVE Drafted(p, g)'
    BY <2>1 DEF ProcInv, ProcessType, Process, Drafted, Covered, Seen
  <2>4. ProcInv(p)'
    BY <1>2, <2>1, <2>3 DEF ProcInv, ProcessType, Process, Seen
  <2> QED
    BY <2>1, <2>2, <2>4, OneMoves
<1> QED
  BY <1>1, <1>2

LEMMA ConnectStep == ASSUME Inv, NEW p \in Procs, Connect(p) PROVE Inv'
<1>1. /\ OthersStay(p) /\ proc[p].pc = "connect"
      /\ proc'[p] = [proc[p] EXCEPT !.pc = "settle", !.conn = cache]
      /\ ProcessType(p) /\ ProcInv(p) /\ UNCHANGED <<disk, clock, cache>>
      /\ cache \in Indexes \cup {None}
  BY DEF Inv, TypeOK, OthersStay, Connect, At
<1>2. ProcessType(p)'
  BY <1>1 DEF ProcessType, Process, Labels
<1>3. ProcInv(p)'
  BY <1>1 DEF ProcInv, ProcessType, Process, Seen
<1> QED
  BY <1>1, <1>2, <1>3, OneMoves

\* The end of the thread, with what its cleanup could not close or remove.
LEMMA EndStep ==
    ASSUME Inv, NEW p \in Procs, NEW left \in BOOLEAN \X BOOLEAN, At(p, "settle"),
           Ended(p, left), UNCHANGED <<disk, clock, cache>>
    PROVE  Inv'
<1> DEFINE ready == left = Clean
<1>1. /\ OthersStay(p) /\ proc[p].pc = "settle"
      /\ proc'[p] = [proc[p] EXCEPT !.pc = "done", !.open = left[1], !.temp = left[2],
                          !.ready = ready, !.todo = {}, !.file = None, !.version = Absent,
                          !.draft = NoPages]
      /\ ProcessType(p) /\ ProcInv(p)
  BY DEF Inv, TypeOK, OthersStay, Ended, At
<1>2. NoPages \in Pages /\ ready \in BOOLEAN
  BY DEF NoPages, Pages, Absent
<1>3. left[1] = TRUE \/ left[2] = TRUE => ready = FALSE
  <2>1. CASE left = Clean
    <3>1. left[1] = FALSE /\ left[2] = FALSE
      BY <2>1 DEF Clean
    <3> QED
      BY <3>1, Zenon
  <2>2. CASE left # Clean
    BY <2>2
  <2> QED
    BY <2>1, <2>2
<1> HIDE DEF ready
<1>4. ProcessType(p)'
  BY <1>1, <1>2, <1>3, NoneAssumption DEF ProcessType, Process, Labels
<1>5. ProcInv(p)'
  BY <1>1 DEF ProcInv, ProcessType, Process, Seen
<1> QED
  BY <1>1, <1>4, <1>5, OneMoves

LEMMA SettleStep == ASSUME Inv, NEW p \in Procs, Settle(p) PROVE Inv'
<1>1. Clean \in BOOLEAN \X BOOLEAN
  BY DEF Clean
<1> QED
  BY <1>1, EndStep DEF Settle

\* What is published covers its files: nothing is left to do, and no file is open.
LEMMA ReplaceStep == ASSUME Inv, NEW p \in Procs, Replace(p) PROVE Inv'
<1> DEFINE index == [manifest |-> proc[p].manifest, pages |-> proc[p].draft, sound |-> TRUE]
<1>1. /\ OthersStay(p) /\ proc[p].pc = "replace" /\ cache' = index
      /\ proc'[p] = [proc[p] EXCEPT !.pc = "connect", !.temp = FALSE, !.draft = NoPages]
      /\ ProcessType(p) /\ ProcInv(p) /\ UNCHANGED <<disk, clock>>
  BY DEF Inv, TypeOK, OthersStay, Replace, At
<1>2. NoPages \in Pages
  BY DEF NoPages, Pages, Absent
<1>3. ProcessType(p)'
  BY <1>1, <1>2 DEF ProcessType, Process, Labels
<1>4. index \in Indexes /\ index # None
  <2>1. proc[p].manifest \in Manifests /\ proc[p].draft \in Pages
    BY <1>1 DEF ProcessType, Process
  <2>2. index \in Indexes
    BY <2>1 DEF Indexes
  <2> QED
    BY <2>2, IndexAssumption
<1>5. \A f, v : Seen(f, v)' <=> Seen(f, v)
  BY <1>1 DEF Seen
<1>6. \A f, m, pages : Covered(f, m, pages)' <=> Covered(f, m, pages)
  BY <1>5 DEF Covered
<1>7. TypeOK'
  <2>1. ASSUME NEW q \in Procs, q # p PROVE ProcessType(q)'
    BY <1>1, <2>1 DEF Inv, TypeOK, OthersStay, ProcessType
  <2> QED
    BY <1>1, <1>3, <1>4, <2>1 DEF Inv, TypeOK, OthersStay
<1>8. CacheInv'
  <2>1. ASSUME NEW f \in Files PROVE Covered(f, index.manifest[f], index.pages[f])
    <3>1. Drafted(p, f) /\ proc[p].todo = {} /\ proc[p].file = None
      BY <1>1 DEF ProcInv, ProcessType
    <3> QED
      BY <3>1, NoneAssumption DEF Drafted
  <2>2. index.pages # NoPages
    BY <1>1 DEF ProcInv
  <2> QED
    BY <1>1, <1>6, <2>1, <2>2 DEF CacheInv
<1>9. ProcInv(p)'
  BY <1>1, <1>4, <1>5 DEF ProcInv, ProcessType, Process
<1>10. ASSUME NEW q \in Procs, q # p PROVE ProcInv(q)'
  <2>1. proc'[q] = proc[q] /\ ProcInv(q)
    BY <1>1, <1>10 DEF Inv, OthersStay
  <2>2. \A f : Drafted(q, f)' <=> Drafted(q, f)
    BY <1>6, <2>1 DEF Drafted
  <2>3. Begun(q)' <=> Begun(q)
    BY <1>5, <2>1 DEF Begun
  <2>4. cache' # None /\ cache'.sound
    BY <1>1, <1>4
  <2> QED
    BY <1>5, <2>1, <2>2, <2>3, <2>4 DEF ProcInv
<1> QED
  BY <1>7, <1>8, <1>9, <1>10 DEF Inv

LEMMA BuilderStep == ASSUME Inv, NEW p \in Procs, Builder(p) PROVE Inv'
  BY GlobStep, StatStep, ConsultStep, CheckStep, CreateStep, ReadStep, PageStep,
     EndFileStep, CommitStep, ReplaceStep, ConnectStep, SettleStep DEF Builder

--------------------------------------------------------------------------------
(* close() and the environment *)

LEMMA CloseStep ==
    ASSUME Inv, NEW p \in Procs, CloseBegin(p) \/ CloseEnd(p) \/ CloseFails(p)
    PROVE  Inv'
<1>1. /\ OthersStay(p)
      /\ \/ /\ proc[p].closer = "idle"
            /\ proc'[p] = [proc[p] EXCEPT !.stop = TRUE, !.closer = "joining"]
         \/ /\ proc[p].pc = "done"
            /\ proc'[p] = [proc[p] EXCEPT !.conn = None, !.closer = "done"]
         \/ proc'[p] = [proc[p] EXCEPT !.closer = "raised"]
      /\ ProcessType(p) /\ ProcInv(p) /\ UNCHANGED <<disk, clock, cache>>
  BY DEF Inv, TypeOK, OthersStay, CloseBegin, CloseEnd, CloseFails, At
<1>2. ProcessType(p)'
  BY <1>1 DEF ProcessType, Process
<1>3. /\ proc'[p].pc = proc[p].pc /\ proc'[p].todo = proc[p].todo
      /\ proc'[p].file = proc[p].file /\ proc'[p].version = proc[p].version
      /\ proc'[p].manifest = proc[p].manifest /\ proc'[p].draft = proc[p].draft
      /\ proc'[p].closer = "done" => proc[p].pc = "done" /\ proc'[p].conn = None
  BY <1>1 DEF ProcessType, Process
<1>4. \A f, v : Seen(f, v)' <=> Seen(f, v)
  BY <1>1 DEF Seen
<1>5. \A f : Drafted(p, f)' <=> Drafted(p, f)
  BY <1>3, <1>4 DEF Drafted, Covered
<1>6. Begun(p)' <=> Begun(p)
  BY <1>3, <1>4 DEF Begun
<1>7. ProcInv(p)'
  BY <1>1, <1>3, <1>4, <1>5, <1>6 DEF ProcInv
<1> QED
  BY <1>1, <1>2, <1>7, OneMoves

LEMMA FailureStep == ASSUME Inv, NEW p \in Procs, Failure(p) PROVE Inv'
<1>1. CASE ReplaceFails(p)
  BY <1>1, FailStep DEF ReplaceFails, At, Running
<1>2. CASE Raises(p)
  <2>1. PICK held \in Held(p) : FailHolding(p, held)
    BY <1>2 DEF Raises
  <2>2. ProcessType(p)
    BY DEF Inv, TypeOK
  <2>3. held \in BOOLEAN \X BOOLEAN
    <3>1. CASE At(p, "check")
      BY <2>1, <3>1 DEF Held
    <3>2. CASE At(p, "create")
      BY <2>1, <3>2 DEF Held, At
    <3>3. CASE ~At(p, "check") /\ ~At(p, "create")
      <4>1. held \in {proc[p].open} \X {proc[p].temp}
        BY <2>1, <3>3 DEF Held
      <4>2. proc[p].open \in BOOLEAN /\ proc[p].temp \in BOOLEAN
        BY <2>2 DEF ProcessType, Process
      <4> QED
        BY <4>1, <4>2
    <3> QED
      BY <3>1, <3>2, <3>3
  <2> QED
    BY <1>2, <2>1, <2>3, RaiseStep DEF Raises, At, Running
<1>3. CASE SettleFails(p)
  <2>1. PICK left \in {FALSE, proc[p].open} \X {proc[p].temp} : Ended(p, left)
    BY <1>3 DEF SettleFails
  <2>2. ProcessType(p)
    BY DEF Inv, TypeOK
  <2>3. left \in BOOLEAN \X BOOLEAN
    BY <2>1, <2>2 DEF ProcessType, Process
  <2> QED
    BY <1>3, <2>1, <2>3, EndStep DEF SettleFails
<1>4. CASE CloseFails(p)
  BY <1>4, CloseStep
<1> QED
  BY <1>1, <1>2, <1>3, <1>4 DEF Failure

\* A new process, or a dead one.
LEMMA NewProcess ==
    ASSUME Inv, NEW p \in Procs, NEW again \in BOOLEAN, OthersStay(p),
           \/ proc'[p] = NoProcess
           \/ proc'[p] = [NoProcess EXCEPT !.pc = "glob", !.reindex = again],
           UNCHANGED <<disk, clock, cache>>
    PROVE  Inv'
<1>1. NoFiles \in Manifests /\ NoPages \in Pages
  BY DEF NoFiles, NoPages, Manifests, Pages, Absent
<1>2. CASE proc'[p] = NoProcess
  <2>1. ProcessType(p)'
    BY <1>1, <1>2 DEF ProcessType, Process, NoProcess, Labels
  <2>2. ProcInv(p)'
    BY <1>2 DEF ProcInv, NoProcess, NoFiles
  <2> QED
    BY <2>1, <2>2, OneMoves
<1>3. CASE proc'[p] = [NoProcess EXCEPT !.pc = "glob", !.reindex = again]
  <2>1. ProcessType(p)'
    BY <1>1, <1>3 DEF ProcessType, Process, NoProcess, Labels
  <2>2. ProcInv(p)'
    BY <1>3 DEF ProcInv, NoProcess, NoFiles
  <2> QED
    BY <2>1, <2>2, OneMoves
<1> QED
  BY <1>2, <1>3

LEMMA StartStep == ASSUME Inv, NEW p \in Procs, NEW again \in BOOLEAN, Start(p, again) PROVE Inv'
<1>1. OthersStay(p) /\ proc'[p] = [NoProcess EXCEPT !.pc = "glob", !.reindex = again]
  BY DEF Inv, TypeOK, OthersStay, Start
<1> QED
  BY <1>1, NewProcess DEF Start

LEMMA KillStep == ASSUME Inv, NEW p \in Procs, Kill(p) PROVE Inv'
<1>1. OthersStay(p) /\ proc'[p] = NoProcess
  BY DEF Inv, TypeOK, OthersStay, Kill
<1> QED
  BY <1>1, NewProcess DEF Kill

\* The files change under the processes: what was seen on the disk stays so.
LEMMA DiskStep == ASSUME Inv, NEW f \in Files, Edit(f) \/ Remove(f) PROVE Inv'
<1>1. /\ clock \in Versions /\ clock' \in Versions /\ clock <= clock'
      /\ disk \in [Files -> 0 .. clock] /\ cache' = cache /\ proc' = Touch(f)
      /\ \/ disk' = [disk EXCEPT ![f] = clock'] 
         \/ disk' = [disk EXCEPT ![f] = Absent]
  BY BoundAssumption DEF Inv, TypeOK, Edit, Remove, Versions
<1>2. disk' \in [Files -> 0 .. clock']
  BY <1>1, BoundAssumption DEF Versions, Absent
<1>3. \A g \in Files, v \in Versions : Seen(g, v) => Seen(g, v)'
  BY <1>1, BoundAssumption DEF Seen, Versions, Absent
<1>4. ASSUME NEW p \in Procs
      PROVE  /\ ProcessType(p)'
             /\ \A x \in {"pc", "reindex", "manifest", "todo", "file", "version", "draft", "temp",
                           "open", "conn", "ready", "error", "stop", "closer"} : proc'[p][x] = proc[p][x]
  <2>1. ProcessType(p)
    BY DEF Inv, TypeOK
  <2>2. proc'[p] = proc[p] \/ proc'[p] = [proc[p] EXCEPT !.dirty = @ \cup {f}]
    BY <1>1 DEF Touch
  <2> QED
    BY <2>1, <2>2 DEF ProcessType, Process
<1>5. TypeOK'
  BY <1>1, <1>2, <1>4 DEF Inv, TypeOK, Touch
<1>6. \A g \in Files : \A m, pages : Covered(g, m, pages) => Covered(g, m, pages)'
  BY <1>3 DEF Covered
<1>7. CacheInv'
  BY <1>1, <1>6 DEF Inv, CacheInv
<1>8. ASSUME NEW p \in Procs PROVE ProcInv(p)'
  <2>1. ProcInv(p) /\ ProcessType(p)
    BY DEF Inv, TypeOK
  <2>2. /\ proc'[p].pc = proc[p].pc /\ proc'[p].todo = proc[p].todo
        /\ proc'[p].file = proc[p].file /\ proc'[p].version = proc[p].version
        /\ proc'[p].manifest = proc[p].manifest /\ proc'[p].draft = proc[p].draft
        /\ proc'[p].closer = proc[p].closer /\ proc'[p].conn = proc[p].conn
    BY <1>4
  <2>3. \A g \in Files : Drafted(p, g) => Drafted(p, g)'
    BY <1>6, <2>2 DEF Drafted
  <2>4. Begun(p) => Begun(p)'
    BY <1>3, <2>2 DEF Begun, Seen
  <2>5. \A g \in Files : proc[p].manifest[g] # Absent /\ Seen(g, proc[p].manifest[g])
                => Seen(g, proc[p].manifest[g])'
    BY <1>3, <2>2 DEF Seen
  <2> QED
    BY <1>1, <2>1, <2>2, <2>3, <2>4, <2>5 DEF ProcInv
<1> QED
  BY <1>5, <1>7, <1>8 DEF Inv

LEMMA TamperStep == Inv /\ Tamper => Inv'
<1> SUFFICES ASSUME Inv, Tamper PROVE Inv'
  OBVIOUS
<1>1. /\ cache \in Indexes /\ cache' \in Indexes \cup {None} /\ UNCHANGED <<disk, clock, proc>>
      /\ cache' # None => cache'.manifest = cache.manifest /\ cache'.pages = cache.pages
      /\ \A p \in Procs : proc[p].pc = "off"
  BY DEF Inv, TypeOK, Tamper, Indexes, Running, At
<1>2. TypeOK'
  BY <1>1 DEF Inv, TypeOK, ProcessType
<1>3. CacheInv'
  BY <1>1, IndexAssumption DEF Inv, CacheInv, Covered, Seen
<1>4. ASSUME NEW p \in Procs PROVE ProcInv(p)'
  BY <1>1 DEF Inv, ProcInv, Seen
<1> QED
  BY <1>2, <1>3, <1>4 DEF Inv

LEMMA EveryStep == Inv /\ [Next]_vars => Inv'
<1> SUFFICES ASSUME Inv, [Next]_vars PROVE Inv'
  OBVIOUS
<1>1. CASE UNCHANGED vars
  BY <1>1 DEF vars, Inv, TypeOK, ProcessType, CacheInv, ProcInv, Drafted, Begun, Covered, Seen
<1> QED
  BY <1>1, BuilderStep, FailureStep, CloseStep, StartStep, KillStep, DiskStep, TamperStep
     DEF Next, Environment

LEMMA InitStep == Init => Inv
<1> SUFFICES ASSUME Init PROVE Inv
  OBVIOUS
<1>1. NoFiles \in Manifests /\ NoPages \in Pages
  BY DEF NoFiles, NoPages, Manifests, Pages, Absent
<1>2. TypeOK
  BY <1>1, BoundAssumption
     DEF Init, TypeOK, ProcessType, Process, NoProcess, Labels, Versions, Absent
<1>3. CacheInv /\ \A p \in Procs : ProcInv(p)
  BY DEF Init, CacheInv, ProcInv, NoProcess, NoFiles
<1> QED
  BY <1>2, <1>3 DEF Inv

LEMMA Inductive == Spec => []Inv
  BY InitStep, EveryStep, PTL DEF Spec

--------------------------------------------------------------------------------
(* The theorems *)

\* Each process is in its type, with temporary file, open file and connection only
\* where the code has them.
THEOREM TypeCorrect == Spec => []TypeOK
<1> QED
  BY Inductive, PTL DEF Inv

\* After close() has returned, the process has no builder and no connection, and a
\* temporary file only where the builder's own cleanup failed and nobody was served.
THEOREM ClosingIsFinal == Spec => []ClosedForGood
<1>1. Inv => ClosedForGood
  BY DEF Inv, TypeOK, ProcessType, ProcInv, ClosedForGood, At
<1> QED
  BY <1>1, Inductive, PTL

\* Whatever is edited, killed, stopped or overtaken: a cache that would be accepted
\* has all the pages that can be read from the files as they are.
THEOREM CacheIsFaithful == Spec => []CacheFaithful
<1>1. Inv => CacheFaithful
  <2> SUFFICES ASSUME Inv, cache # None, cache.manifest = disk
               PROVE  /\ \A f \in Files : cache.pages[f] = WholeFile(disk[f])
                      /\ cache.pages # NoPages
    BY DEF CacheFaithful
  <2>1. ASSUME NEW f \in Files PROVE cache.pages[f] = WholeFile(disk[f])
    <3>1. Covered(f, disk[f], cache.pages[f]) /\ disk[f] \in Nat
      BY DEF Inv, CacheInv, TypeOK
    <3>2. CASE disk[f] = Absent
      BY <3>1, <3>2 DEF Covered, WholeFile
    <3>3. CASE disk[f] # Absent
      <4>1. PICK v \in Versions : Seen(f, v) /\ disk[f] <= v /\ cache.pages[f] = WholeFile(v)
        BY <3>1, <3>3 DEF Covered
      <4>2. v = disk[f]
        BY <3>1, <3>3, <4>1 DEF Seen, Versions
      <4> QED
        BY <4>1, <4>2
    <3> QED
      BY <3>2, <3>3
  <2> QED
    BY <2>1 DEF Inv, CacheInv
<1> QED
  BY <1>1, Inductive, PTL

--------------------------------------------------------------------------------
(* The refinement of HelpCache *)

\* What a step of one process can do to its connection.
Connection(p) ==
    \/ proc'[p].conn \in {proc[p].conn, None}
    \/ /\ proc[p].conn = None /\ cache # None /\ cache.sound
       /\ proc'[p].conn = cache

LEMMA ConnectionMaps ==
    ASSUME NEW p \in Procs, OthersStay(p), Connection(p), cache' = cache
    PROVE  [Promise!Next]_(Promise!vars)
<1> DEFINE serving == [q \in Procs |-> proc[q].conn]
<1>1. CASE proc'[p].conn = proc[p].conn
  <2>1. serving' = serving
    BY <1>1 DEF OthersStay
  <2> QED
    BY <2>1 DEF Promise!vars
<1>2. CASE proc'[p].conn = None
  <2>1. serving' = [serving EXCEPT ![p] = None]
    BY <1>2 DEF OthersStay
  <2> QED
    BY <2>1 DEF Promise!Release, Promise!Next
<1>3. CASE /\ proc[p].conn = None /\ cache # None /\ cache.sound
           /\ proc'[p].conn = cache
  <2>1. serving[p] = None /\ serving' = [serving EXCEPT ![p] = cache]
    BY <1>3 DEF OthersStay
  <2> QED
    BY <1>3, <2>1 DEF Promise!Adopt, Promise!Next
<1> QED
  BY <1>1, <1>2, <1>3 DEF Connection

\* What the builder moves into place is an index that is complete for its files.
LEMMA ReplaceMaps ==
    ASSUME Inv, NEW p \in Procs, Replace(p)
    PROVE  [Promise!Next]_(Promise!vars)
<1> DEFINE m == proc[p].manifest
           Known(f) == CHOOSE v \in Versions : /\ m[f] <= v /\ proc[p].draft[f] = WholeFile(v)
           read == [f \in Files |-> IF m[f] = Absent THEN Absent ELSE Known(f)]
<1>1. /\ m \in Manifests /\ proc[p].draft \in Pages /\ proc[p].pc = "replace"
      /\ OthersStay(p) /\ proc'[p].conn = proc[p].conn
      /\ cache' = [manifest |-> m, pages |-> proc[p].draft, sound |-> TRUE]
  BY DEF Inv, TypeOK, ProcessType, Process, Replace, At, OthersStay
<1>2. ASSUME NEW f \in Files PROVE Covered(f, m[f], proc[p].draft[f])
  BY <1>1, NoneAssumption DEF Inv, TypeOK, ProcessType, ProcInv, Drafted
<1>3. ASSUME NEW f \in Files, m[f] # Absent
      PROVE  read[f] \in Versions /\ m[f] <= read[f] /\ proc[p].draft[f] = WholeFile(read[f])
  <2>1. \E v \in Versions : m[f] <= v /\ proc[p].draft[f] = WholeFile(v)
    BY <1>2, <1>3 DEF Covered
  <2>2. read[f] = Known(f)
    BY <1>3
  <2> QED
    BY <2>1, <2>2
<1> HIDE DEF read
<1>4. ASSUME NEW f \in Files, m[f] = Absent PROVE read[f] = 0 /\ proc[p].draft[f] = <<0, 0>>
  BY <1>2, <1>4 DEF read, Covered, Absent
<1>5. m \in [Files -> 0 .. MaxClock] /\ read \in [Files -> 0 .. MaxClock]
  BY <1>1, <1>3, <1>4, BoundAssumption DEF Manifests, Versions, Absent, read
<1>6. Promise!Complete(m, read)
  BY <1>1, <1>3, <1>4, <1>5 DEF Promise!Complete, Absent
<1>7. proc[p].draft = [f \in Files |-> Promise!AllPages(read[f])]
  <2>1. ASSUME NEW f \in Files PROVE proc[p].draft[f] = Promise!AllPages(read[f])
    BY <1>3, <1>4, BoundAssumption DEF Promise!AllPages, WholeFile, Absent, Versions
  <2> QED
    BY <1>1, <2>1 DEF Pages
<1>8. cache' = Promise!IndexOf(m, read)
  BY <1>1, <1>7 DEF Promise!IndexOf
<1>9. [q \in Procs |-> proc[q].conn]' = [q \in Procs |-> proc[q].conn]
  BY <1>1 DEF OthersStay
<1> QED
  BY <1>5, <1>6, <1>8, <1>9 DEF Promise!Publish, Promise!Next, Promise!Stamps

LEMMA FailConnection ==
    ASSUME Inv, NEW p \in Procs, Fail(p), cache' = cache PROVE OthersStay(p) /\ Connection(p)
  BY DEF Inv, TypeOK, ProcessType, Process, Fail, OthersStay, Connection

\* Every other step of a process.
LEMMA ProcessMaps ==
    ASSUME Inv, NEW p \in Procs,
           \/ \E f \in Files : Stat(p, f) \/ Read(p, f)
           \/ Glob(p) \/ Consult(p) \/ Check(p) \/ Create(p)
           \/ Page(p) \/ EndFile(p) \/ Commit(p) \/ Connect(p) \/ Settle(p)
           \/ Failure(p) \/ CloseBegin(p) \/ CloseEnd(p)
    PROVE  [Promise!Next]_(Promise!vars)
<1>1. cache' = cache
  BY DEF Stat, Read, Glob, Consult, Check, Create, Page, EndFile, Commit, Connect, Settle,
         Failure, ReplaceFails, Raises, SettleFails, CloseFails, CloseBegin, CloseEnd
<1>2. ProcessType(p) /\ ProcInv(p) /\ DOMAIN proc = Procs
  BY DEF Inv, TypeOK
<1>3. Fail(p) => OthersStay(p) /\ Connection(p)
  BY <1>1, FailConnection
<1>4. OthersStay(p) /\ Connection(p)
  <2> USE DEF ProcessType, Process, OthersStay, Connection, At
  <2>1. ASSUME NEW f \in Files, Stat(p, f) \/ Read(p, f) PROVE OthersStay(p) /\ Connection(p)
    <3>1. CASE Stat(p, f) /\ ~Fail(p)
      <4>1. proc'[p] = [proc[p] EXCEPT !.todo = @ \ {f}, !.manifest[f] = disk[f]]
        BY <1>2, <3>1 DEF Stat
      <4>2. proc'[p].conn = proc[p].conn
        BY <1>2, <4>1
      <4>3. OthersStay(p)
        BY <1>2, <3>1 DEF Stat
      <4> QED
        BY <4>2, <4>3
    <3>2. CASE Read(p, f) /\ ~Fail(p)
      <4>1. proc'[p] = [proc[p] EXCEPT !.pc = "page", !.todo = @ \ {f}, !.file = f,
                                      !.version = disk[f]]
        BY <1>2, <3>2 DEF Read
      <4>2. proc'[p].conn = proc[p].conn
        BY <1>2, <4>1
      <4>3. OthersStay(p)
        BY <1>2, <3>2 DEF Read
      <4> QED
        BY <4>2, <4>3
    <3> QED
      BY <1>3, <2>1, <3>1, <3>2
  <2>2. CASE Glob(p) \/ Consult(p) \/ Create(p) \/ Commit(p)
    BY <1>2, <1>3, <2>2 DEF Glob, Consult, Create, Commit
  <2>3. CASE Page(p) \/ EndFile(p) \/ Settle(p)
    BY <1>2, <2>3 DEF Page, EndFile, Settle, Ended
  <2>4. CASE Check(p)
    BY <1>2, <2>4 DEF Check, Accepted
  <2>5. CASE Connect(p)
    BY <1>2, <2>5 DEF Connect, ProcInv
  <2>6. CASE CloseBegin(p) \/ CloseEnd(p)
    BY <1>2, <2>6 DEF CloseBegin, CloseEnd
  <2>7. CASE Failure(p)
    <3>1. CASE ReplaceFails(p)
      BY <1>3, <3>1 DEF ReplaceFails
    <3>2. CASE Raises(p)
      BY <1>2, <3>2 DEF Raises, FailHolding
    <3>3. CASE SettleFails(p)
      BY <1>2, <3>3 DEF SettleFails, Ended
    <3>4. CASE CloseFails(p)
      BY <1>2, <3>4 DEF CloseFails
    <3> QED
      BY <2>7, <3>1, <3>2, <3>3, <3>4 DEF Failure
  <2> QED
    BY <2>1, <2>2, <2>3, <2>4, <2>5, <2>6, <2>7
<1> QED
  BY <1>1, <1>4, ConnectionMaps

LEMMA EnvironmentMaps ==
    ASSUME Inv, Environment PROVE [Promise!Next]_(Promise!vars)
<1> DEFINE serving == [q \in Procs |-> proc[q].conn]
<1>1. ASSUME NEW f \in Files, Edit(f) \/ Remove(f) PROVE UNCHANGED Promise!vars
  <2>1. cache' = cache /\ proc' = Touch(f)
    BY <1>1 DEF Edit, Remove
  <2>2. ASSUME NEW q \in Procs PROVE proc'[q].conn = proc[q].conn
    BY <2>1 DEF Inv, TypeOK, ProcessType, Process, Touch
  <2> QED
    BY <2>1, <2>2 DEF Promise!vars
<1>2. CASE Tamper
  BY <1>2 DEF Tamper, Promise!Spoil, Promise!Next
<1>3. ASSUME NEW p \in Procs, NEW again \in BOOLEAN, Kill(p) \/ Start(p, again)
      PROVE  [Promise!Next]_(Promise!vars)
  <2>1. /\ cache' = cache /\ OthersStay(p)
        /\ proc'[p] = NoProcess \/ proc'[p] = [NoProcess EXCEPT !.pc = "glob", !.reindex = again]
    BY <1>3 DEF Inv, TypeOK, OthersStay, Kill, Start
  <2>2. proc'[p].conn = None
    <3>1. CASE proc'[p] = NoProcess
      BY <3>1 DEF NoProcess
    <3>2. CASE proc'[p] = [NoProcess EXCEPT !.pc = "glob", !.reindex = again]
      BY <3>2 DEF NoProcess
    <3> QED
      BY <2>1, <3>1, <3>2
  <2> QED
    BY <2>1, <2>2, ConnectionMaps DEF Connection
<1> QED
  BY <1>1, <1>2, <1>3 DEF Environment

\* Seen from outside, complete indexes are published in one step, and each process
\* serves one that was published: HelpIndex implements HelpCache.
THEOREM Refinement == Spec => ImplementsHelpCache
<1>1. Init => Promise!Init
  BY DEF Init, NoProcess, Promise!Init
<1>2. Inv /\ [Next]_vars => [Promise!Next]_(Promise!vars)
  <2> SUFFICES ASSUME Inv, [Next]_vars PROVE [Promise!Next]_(Promise!vars)
    OBVIOUS
  <2>1. CASE UNCHANGED vars
    BY <2>1 DEF vars, Promise!vars
  <2>2. ASSUME NEW p \in Procs,
               Builder(p) \/ Failure(p) \/ CloseBegin(p) \/ CloseEnd(p)
        PROVE  [Promise!Next]_(Promise!vars)
    BY <2>2, ReplaceMaps, ProcessMaps DEF Builder
  <2> QED
    BY <2>1, <2>2, EnvironmentMaps DEF Next
<1> QED
  BY <1>1, <1>2, Inductive, PTL DEF Spec, ImplementsHelpCache, Promise!Spec

--------------------------------------------------------------------------------
(* One process at a time *)

\* Files that nobody has touched are as the process has seen them.
Current(p) ==
    /\ proc[p].pc = "glob" => proc[p].manifest = NoFiles
    /\ proc[p].pc = "stat" =>
          \A f \in Files \ (proc[p].dirty \cup proc[p].todo) : proc[p].manifest[f] = disk[f]
    /\ proc[p].pc \in {"check", "create", "read", "page", "replace", "connect"} =>
          \A f \in Files \ proc[p].dirty : proc[p].manifest[f] = disk[f]
    /\ proc[p].pc = "connect" => cache.manifest = proc[p].manifest
    /\ proc[p].conn # None =>
          \A f \in Files \ proc[p].dirty : proc[p].conn.pages[f] = WholeFile(disk[f])

\* An index with the manifest of the process has its pages.
LEMMA CoveredIsCurrent ==
    ASSUME Inv, NEW p \in Procs, Current(p), cache # None, cache.manifest = proc[p].manifest,
           proc[p].pc \in {"check", "connect"}, NEW f \in Files \ proc[p].dirty
    PROVE  cache.pages[f] = WholeFile(disk[f])
<1>1. Covered(f, disk[f], cache.pages[f]) /\ disk[f] \in Nat
  BY DEF Inv, CacheInv, TypeOK, Current
<1>2. CASE disk[f] = Absent
  BY <1>1, <1>2 DEF Covered, WholeFile
<1>3. CASE disk[f] # Absent
  <2>1. PICK v \in Versions : Seen(f, v) /\ disk[f] <= v /\ cache.pages[f] = WholeFile(v)
    BY <1>1, <1>3 DEF Covered
  <2>2. v = disk[f]
    BY <1>1, <1>3, <2>1 DEF Seen, Versions
  <2> QED
    BY <2>1, <2>2
<1> QED
  BY <1>2, <1>3

\* The end of the builder, and what follows it, keeps what is served.
LEMMA EndCurrent ==
    ASSUME NEW p \in Procs, Current(p), disk' = disk, proc'[p].pc \in {"settle", "done"},
           proc'[p].conn = proc[p].conn, proc'[p].dirty = proc[p].dirty
    PROVE  Current(p)'
  BY DEF Current

LEMMA FailCurrent ==
    ASSUME Inv, NEW p \in Procs, Current(p), Fail(p), disk' = disk PROVE Current(p)'
<1>1. proc'[p] = [proc[p] EXCEPT !.pc = "settle", !.error = TRUE] /\ ProcessType(p)
  BY DEF Inv, TypeOK, Fail
<1> QED
  BY <1>1 DEF Current, ProcessType, Process

LEMMA BuilderCurrent ==
    ASSUME Inv, NEW p \in Procs, Current(p), Builder(p) PROVE Current(p)'
<1>1. ProcessType(p) /\ ProcInv(p) /\ DOMAIN proc = Procs /\ disk' = disk
  BY DEF Inv, TypeOK, Builder, Glob, Stat, Consult, Check, Create, Read, Page, EndFile, Commit,
         Replace, Connect, Settle
<1>2. Fail(p) => Current(p)'
  BY <1>1, FailCurrent
<1>3. CASE Glob(p) /\ ~Fail(p)
  <2>1. proc[p].pc = "glob" /\ proc'[p] = [proc[p] EXCEPT !.pc = "stat", !.todo = Present]
    BY <1>1, <1>3 DEF Glob, At
  <2>2. \A f \in Files \ Present : proc[p].manifest[f] = disk[f]
    BY <2>1 DEF Current, NoFiles, Present
  <2> QED
    BY <1>1, <2>1, <2>2 DEF Current, ProcessType, Process
<1>4. ASSUME NEW f \in Files, Stat(p, f), ~Fail(p) PROVE Current(p)'
  <2>1. /\ proc[p].pc = "stat"
        /\ proc'[p] = [proc[p] EXCEPT !.todo = @ \ {f}, !.manifest[f] = disk[f]]
    BY <1>1, <1>4 DEF Stat, At
  <2>2. /\ proc'[p].pc = "stat" /\ proc'[p].todo = proc[p].todo \ {f}
        /\ proc'[p].manifest = [proc[p].manifest EXCEPT ![f] = disk[f]]
        /\ proc'[p].conn = proc[p].conn /\ proc'[p].dirty = proc[p].dirty
    BY <1>1, <2>1 DEF ProcessType, Process
  <2>3. proc[p].manifest \in [Files -> Versions \cup {Absent}]
    BY <1>1 DEF ProcessType, Process, Manifests
  <2> QED
    BY <1>1, <2>1, <2>2, <2>3 DEF Current
<1>5. CASE Consult(p)
  <2>1. /\ proc[p].pc = "stat" /\ proc[p].todo = {}
        /\ \E pc \in {"check", "create"} : proc'[p] = [proc[p] EXCEPT !.pc = pc]
    BY <1>1, <1>5 DEF Consult, At
  <2> QED
    BY <1>1, <2>1 DEF Current, ProcessType, Process
<1>6. CASE Check(p)
  <2>1. CASE Accepted(p) /\ proc'[p] = [proc[p] EXCEPT !.pc = "settle", !.conn = cache]
    <3>1. \A f \in Files \ proc[p].dirty : cache.pages[f] = WholeFile(disk[f])
      BY <1>6, <2>1, CoveredIsCurrent DEF Check, Accepted, At
    <3>2. /\ proc'[p].pc = "settle" /\ proc'[p].conn = cache /\ proc'[p].dirty = proc[p].dirty
      BY <1>1, <2>1 DEF ProcessType, Process
    <3> QED
      BY <1>1, <3>1, <3>2 DEF Current
  <2>2. CASE proc'[p] = [proc[p] EXCEPT !.pc = "create"]
    BY <1>1, <1>6, <2>2 DEF Check, At, Current, ProcessType, Process
  <2> QED
    BY <1>1, <1>6, <2>1, <2>2 DEF Check
<1>7. CASE Create(p)
  <2>1. /\ proc[p].pc = "create"
        /\ proc'[p] = [proc[p] EXCEPT !.pc = "read", !.temp = TRUE, !.open = TRUE,
                           !.todo = {f \in Files : proc[p].manifest[f] # Absent}]
    BY <1>1, <1>7 DEF Create, At
  <2> QED
    BY <1>1, <2>1 DEF Current, ProcessType, Process
<1>8. ASSUME NEW f \in Files, Read(p, f), ~Fail(p) PROVE Current(p)'
  <2>1. /\ proc[p].pc = "read"
        /\ proc'[p] = [proc[p] EXCEPT !.pc = "page", !.todo = @ \ {f}, !.file = f,
                                      !.version = disk[f]]
    BY <1>1, <1>8 DEF Read, At
  <2> QED
    BY <1>1, <2>1 DEF Current, ProcessType, Process
<1>9. CASE Page(p)
  <2>1. /\ proc[p].pc = "page"
        /\ \/ proc'[p] = [proc[p] EXCEPT !.pc = "settle"]
           \/ proc'[p] = [proc[p] EXCEPT !.draft[proc[p].file] = <<proc[p].version, @[2] + 1>>]
    BY <1>1, <1>9 DEF Page, At
  <2>2. /\ proc'[p].pc \in {"page", "settle"} /\ proc'[p].manifest = proc[p].manifest
        /\ proc'[p].conn = proc[p].conn /\ proc'[p].dirty = proc[p].dirty
    BY <1>1, <2>1 DEF ProcessType, Process
  <2> QED
    BY <1>1, <2>1, <2>2 DEF Current
<1>10. CASE EndFile(p)
  <2>1. /\ proc[p].pc = "page"
        /\ proc'[p] = [proc[p] EXCEPT !.pc = "read", !.file = None, !.version = Absent]
    BY <1>1, <1>10 DEF EndFile, At
  <2> QED
    BY <1>1, <2>1 DEF Current, ProcessType, Process
<1>11. CASE Commit(p) /\ ~Fail(p)
  <2>1. proc[p].pc = "read" /\ proc'[p] = [proc[p] EXCEPT !.pc = "replace", !.open = FALSE]
    BY <1>1, <1>11 DEF Commit, At
  <2> QED
    BY <1>1, <2>1 DEF Current, ProcessType, Process
<1>12. CASE Replace(p)
  <2>1. /\ proc[p].pc = "replace"
        /\ proc'[p] = [proc[p] EXCEPT !.pc = "connect", !.temp = FALSE, !.draft = NoPages]
        /\ cache' = [manifest |-> proc[p].manifest, pages |-> proc[p].draft, sound |-> TRUE]
    BY <1>1, <1>12 DEF Replace, At
  <2> QED
    BY <1>1, <2>1 DEF Current, ProcessType, Process
<1>13. CASE Connect(p)
  <2>1. \A f \in Files \ proc[p].dirty : cache.pages[f] = WholeFile(disk[f])
    BY <1>1, <1>13, CoveredIsCurrent DEF Connect, At, Current, ProcInv
  <2>2. proc'[p] = [proc[p] EXCEPT !.pc = "settle", !.conn = cache]
    BY <1>1, <1>13 DEF Connect
  <2>3. /\ proc'[p].pc = "settle" /\ proc'[p].conn = cache /\ proc'[p].dirty = proc[p].dirty
    BY <1>1, <2>2 DEF ProcessType, Process
  <2> QED
    BY <1>1, <2>1, <2>3 DEF Current
<1>14. CASE Settle(p)
  <2>1. proc'[p].pc = "done" /\ proc'[p].conn = proc[p].conn /\ proc'[p].dirty = proc[p].dirty
    BY <1>1, <1>14 DEF Settle, Ended, ProcessType, Process
  <2> QED
    BY <1>1, <2>1, EndCurrent
<1> QED
  BY <1>2, <1>3, <1>4, <1>5, <1>6, <1>7, <1>8, <1>9, <1>10, <1>11, <1>12, <1>13, <1>14 DEF Builder

LEMMA DiskCurrent ==
    ASSUME Inv, NEW p \in Procs, Current(p), NEW f \in Files, Edit(f) \/ Remove(f)
    PROVE  Current(p)'
<1>1. /\ ProcessType(p) /\ proc' = Touch(f) /\ cache' = cache
      /\ disk \in [Files -> 0 .. clock] /\ \A g \in Files \ {f} : disk'[g] = disk[g]
  BY DEF Inv, TypeOK, Edit, Remove
<1>2. CASE Running(p)
  <2>1. proc'[p] = [proc[p] EXCEPT !.dirty = @ \cup {f}]
    BY <1>1, <1>2 DEF Touch
  <2>2. /\ proc'[p].dirty = proc[p].dirty \cup {f}
        /\ proc'[p].pc = proc[p].pc /\ proc'[p].todo = proc[p].todo
        /\ proc'[p].manifest = proc[p].manifest /\ proc'[p].conn = proc[p].conn
    BY <1>1, <2>1 DEF ProcessType, Process
  <2> QED
    BY <1>1, <2>2 DEF Current
<1>3. CASE ~Running(p)
  <2>1. proc'[p] = proc[p] /\ proc[p].pc = "off" /\ proc[p].conn = None
    BY <1>1, <1>3 DEF Touch, Running, At, ProcessType
  <2> QED
    BY <2>1 DEF Current
<1> QED
  BY <1>2, <1>3

\* As long as one process at a time uses the cache, a search sees the .hbk files as
\* they were when the process started, up to those edited since.
THEOREM LoneServesCurrent ==
    ASSUME \A p, q \in Procs : p = q
    PROVE  Spec => []ServedIsCurrent
<1> DEFINE AllCurrent == \A p \in Procs : Current(p)
<1>1. Init => AllCurrent
  <2> SUFFICES ASSUME Init, NEW p \in Procs PROVE Current(p)
    OBVIOUS
  <2>1. proc[p].pc = "off" /\ proc[p].conn = None
    BY DEF Init, NoProcess
  <2> QED
    BY <2>1 DEF Current
<1>2. Inv /\ AllCurrent /\ [Next]_vars => AllCurrent'
  <2> SUFFICES ASSUME Inv, AllCurrent, [Next]_vars, NEW p \in Procs PROVE Current(p)'
    OBVIOUS
  <2>1. CASE UNCHANGED vars
    BY <2>1 DEF vars, Current
  <2>2. ProcessType(p) /\ DOMAIN proc = Procs
    BY DEF Inv, TypeOK
  <2>3. CASE Builder(p)
    BY <2>3, BuilderCurrent
  <2>4. CASE Failure(p)
    <3>1. CASE ReplaceFails(p)
      BY <3>1, FailCurrent DEF ReplaceFails
    <3>2. CASE ~ReplaceFails(p)
      <4>1. CASE Raises(p)
        BY <2>2, <4>1, EndCurrent DEF Raises, FailHolding, ProcessType, Process
      <4>2. CASE SettleFails(p)
        BY <2>2, <4>2, EndCurrent DEF SettleFails, Ended, ProcessType, Process
      <4>3. CASE CloseFails(p)
        BY <2>2, <4>3, EndCurrent DEF CloseFails, ProcessType, Process, At
      <4> QED
        BY <2>4, <3>2, <4>1, <4>2, <4>3 DEF Failure
    <3> QED
      BY <3>1, <3>2
  <2>5. CASE CloseBegin(p) \/ CloseEnd(p)
    <3>1. /\ \/ proc'[p] = [proc[p] EXCEPT !.stop = TRUE, !.closer = "joining"]
             \/ proc'[p] = [proc[p] EXCEPT !.conn = None, !.closer = "done"]
          /\ UNCHANGED <<disk, cache>>
      BY <2>2, <2>5 DEF CloseBegin, CloseEnd
    <3>2. /\ proc'[p].pc = proc[p].pc /\ proc'[p].manifest = proc[p].manifest
          /\ proc'[p].todo = proc[p].todo /\ proc'[p].dirty = proc[p].dirty
          /\ proc'[p].conn \in {proc[p].conn, None}
      BY <2>2, <3>1 DEF ProcessType, Process
    <3> QED
      BY <3>1, <3>2 DEF Current
  <2>6. ASSUME NEW f \in Files, Edit(f) \/ Remove(f) PROVE Current(p)'
    BY <2>6, DiskCurrent
  <2>7. CASE Tamper
    BY <2>2, <2>7 DEF Tamper, Running, At, Current, ProcessType
  <2>8. ASSUME NEW again \in BOOLEAN, Kill(p) \/ Start(p, again) PROVE Current(p)'
    <3>1. \/ proc'[p] = NoProcess
          \/ proc'[p] = [NoProcess EXCEPT !.pc = "glob", !.reindex = again]
      BY <2>2, <2>8 DEF Kill, Start
    <3>2. CASE proc'[p] = NoProcess
      <4>1. proc'[p].pc = "off" /\ proc'[p].conn = None
        BY <3>2 DEF NoProcess
      <4> QED
        BY <4>1 DEF Current
    <3>3. CASE proc'[p] = [NoProcess EXCEPT !.pc = "glob", !.reindex = again]
      <4>1. proc'[p].pc = "glob" /\ proc'[p].conn = None /\ proc'[p].manifest = NoFiles
        BY <3>3 DEF NoProcess
      <4> QED
        BY <4>1 DEF Current
    <3> QED
      BY <3>1, <3>2, <3>3
  <2> QED
    BY <2>1, <2>3, <2>4, <2>5, <2>6, <2>7, <2>8 DEF Next, Environment
<1>3. AllCurrent => ServedIsCurrent
  BY DEF Current, ServedIsCurrent, Served
<1> QED
  BY <1>1, <1>2, <1>3, Inductive, PTL DEF Spec

================================================================================
