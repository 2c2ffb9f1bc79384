--------------------------- MODULE DumpIndexProofs ---------------------------
(***************************************************************************)
(* Proofs about DumpIndex, for any set of paths, of extension maps and of  *)
(* faults.  The inductive invariant has three layers, each proved with the *)
(* help of the ones before it: types and control, what the rows say of     *)
(* the files (Faithful), and how far the build has caught up (Current).    *)
(***************************************************************************)
EXTENDS DumpIndex, FiniteSetTheorems, TLAPS

USE DEF NoFile

--------------------------------------------------------------------------------
(* Layer 1: types, and what the control state says of the loop variables *)

\* After discovery there is an extension map, and the builder only reads files
\* that its walk found; a row still to be changed is as committed.
Phase ==
    /\ pc \notin {"off", "discover"} => extRoots \in Roots
    /\ pc = "read" => \A p \in todo : walked[p] # NoFile
    /\ pc = "apply" => \A p \in todo : draft.docs[p] = db.docs[p]

Typed == TypeOK /\ Phase

\* A cache file without a finished index is a database.
LEMMA EmptyDbType ==
    ASSUME NEW state \in DbStates
    PROVE  EmptyDb(state) \in Databases
BY DEF EmptyDb, NoRows, Docs, Databases

\* The draft before a build is an image.
LEMMA NoDraftType == NoDraft \in Images
BY DEF NoDraft, NoRows, Docs, Images

\* The full-text index of a docs table is a set of postings.
LEMMA PostingsType ==
    ASSUME NEW docs \in Docs
    PROVE  PostingsOf(docs) \subseteq Postings
BY SentinelAssumption DEF PostingsOf, PathsIn, HasRow, Docs, Postings, Row, Versions

\* Documents can be counted.
LEMMA CountType ==
    ASSUME NEW docs \in Docs
    PROVE  CountDocs(docs) \in Nat
<1>1. PathsIn(docs) \subseteq Paths
  BY DEF PathsIn
<1>2. IsFiniteSet(PathsIn(docs))
  BY <1>1, PathsAssumption, FS_Subset
<1> QED
  BY <1>2, FS_CardinalityType DEF CountDocs

\* Rows and postings of the three loops are well formed.
LEMMA ImageType ==
    ASSUME NEW image \in Images,
           NEW p \in Paths,
           disk[p] \in Nat, disk[p] # NoFile,
           walked[p] \in Nat, walked[p] # NoFile,
           extRoots \in Roots
    PROVE  /\ InsertRow(image, p) \in Images
           /\ image.docs[p] # NoRow =>
                UpdateRow(image, p) \in Images
           /\ [image EXCEPT !.docs[p] = RowFor(p)] \in Images
<1>1. RowFor(p) \in Row
  BY DEF RowFor, Row, Versions
<1>2. <<p, disk[p]>> \in Postings
  BY DEF Postings, Versions
<1>3. [image.docs EXCEPT ![p] = RowFor(p)] \in Docs
  BY <1>1 DEF Docs, Images
<1>4. InsertRow(image, p) \in Images
  BY <1>2, <1>3 DEF InsertRow, Images
<1>5. ASSUME image.docs[p] # NoRow
      PROVE  UpdateRow(image, p) \in Images
  <2>1. image.docs[p] \in Row
    BY <1>5 DEF Docs, Images
  <2>2. [stamp |-> walked[p], content |-> disk[p], named |-> image.docs[p].named] \in Row
    BY <2>1 DEF Row, Versions
  <2>3. [image.docs EXCEPT ![p] = [stamp |-> walked[p], content |-> disk[p],
                                   named |-> @.named]] \in Docs
    BY <2>2 DEF Docs, Images
  <2> QED
    BY <1>2, <2>3 DEF UpdateRow, FtsDelete, Images
<1> QED
  BY <1>3, <1>4, <1>5 DEF Images

\* A deleted row leaves an image.
LEMMA DeleteType ==
    ASSUME NEW image \in Images, NEW p \in Paths
    PROVE  DeleteRow(image, p) \in Images
BY DEF DeleteRow, FtsDelete, Docs, Images

\* The initial state is well typed.
LEMMA TypedInit == Init => Typed
<1> SUFFICES ASSUME Init PROVE Typed
  OBVIOUS
<1>1. EnvType
  BY BoundAssumption DEF Init, EnvType
<1>2. db \in Databases
  BY EmptyDbType DEF Init, DbStates
<1>3. BuilderType
  BY NoDraftType DEF Init, BuilderType, Labels
<1>4. SharedType /\ ThreadsType /\ HistoryType
  BY DEF Init, SharedType, ThreadsType, HistoryType
<1> QED
  BY <1>1, <1>2, <1>3, <1>4 DEF Typed, TypeOK, Phase, Init

\* An exception keeps the types.
LEMMA RaiseTyped ==
    ASSUME Typed, Raise, pc \notin {"off", "discover"},
           UNCHANGED <<env, closer, searcher, history>>,
           db' = db \/ db' = EmptyDb("partial")
    PROVE  Typed'
<1>1. db' \in Databases
  BY EmptyDbType DEF Typed, TypeOK, DbStates
<1>2. BuilderType'
  BY NoDraftType DEF Typed, TypeOK, BuilderType, Raise, Goto, Labels
<1>3. SharedType'
  BY DEF Typed, TypeOK, SharedType, Raise
<1>4. Phase'
  BY DEF Typed, Phase, Raise, Goto
<1> QED
  BY <1>1, <1>2, <1>3, <1>4
  DEF Typed, TypeOK, EnvType, ThreadsType, HistoryType, env, history

\* Edits, starts and kills keep the types.
LEMMA TypedEnvironment == Typed /\ Environment => Typed'
<1> SUFFICES ASSUME Typed, Environment PROVE Typed'
  OBVIOUS
<1>1. ASSUME NEW p \in Paths, Edit(p) PROVE Typed'
  <2>1. disk' \in [Paths -> Nat] /\ diskRoots' \in Roots
    BY <1>1 DEF Typed, TypeOK, EnvType, Edit
  <2>2. clock' \in 0 .. MaxClock
    <3>1. clock \in 0 .. MaxClock
      BY DEF Typed, TypeOK, EnvType
    <3>2. clock < MaxClock /\ clock' = clock + 1
      BY <1>1 DEF Edit
    <3> QED
      BY <3>1, <3>2, BoundAssumption
  <2>3. HistoryType'
    BY <1>1 DEF Typed, TypeOK, HistoryType, Edit
  <2>4. Phase'
    BY <1>1 DEF Typed, Phase, Edit, builder
  <2>5. EnvType'
    BY <2>1, <2>2 DEF EnvType
  <2>6. BuilderType'
    BY <1>1 DEF Typed, TypeOK, BuilderType, Edit, builder
  <2>7. SharedType' /\ ThreadsType'
    BY <1>1 DEF Typed, TypeOK, SharedType, ThreadsType, Edit, shared
  <2> QED
    BY <1>1, <2>3, <2>4, <2>5, <2>6, <2>7 DEF Typed, TypeOK, Edit
<1>2. ASSUME NEW p \in Paths, Remove(p) PROVE Typed'
  <2>1. EnvType'
    BY <1>2 DEF Typed, TypeOK, Remove, EnvType
  <2>2. HistoryType'
    BY <1>2 DEF Typed, TypeOK, Remove, HistoryType
  <2>3. Phase'
    BY <1>2 DEF Typed, Phase, Remove, builder
  <2>4. BuilderType'
    BY <1>2 DEF Typed, TypeOK, BuilderType, Remove, builder
  <2>5. SharedType' /\ ThreadsType'
    BY <1>2 DEF Typed, TypeOK, SharedType, ThreadsType, Remove, shared
  <2> QED
    BY <1>2, <2>1, <2>2, <2>3, <2>4, <2>5 DEF Typed, TypeOK, Remove
<1>3. ASSUME NEW r \in Roots, Remanifest(r) PROVE Typed'
  <2>1. EnvType'
    BY <1>3 DEF Typed, TypeOK, Remanifest, EnvType
  <2>2. HistoryType'
    BY <1>3 DEF Typed, TypeOK, Remanifest, HistoryType, Running
  <2>3. Phase'
    BY <1>3 DEF Typed, Phase, Remanifest, builder
  <2>4. BuilderType'
    BY <1>3 DEF Typed, TypeOK, BuilderType, Remanifest, builder
  <2>5. SharedType' /\ ThreadsType'
    BY <1>3 DEF Typed, TypeOK, SharedType, ThreadsType, Remanifest, shared
  <2> QED
    BY <1>3, <2>1, <2>2, <2>3, <2>4, <2>5 DEF Typed, TypeOK, Remanifest
<1>4. ASSUME NEW state \in {"absent", "damaged", "outdated"}, Tamper(state)
      PROVE  Typed'
  <2>1. db' \in Databases
    BY <1>4, EmptyDbType DEF Typed, TypeOK, Tamper, DbStates
  <2>2. Phase'
    BY <1>4 DEF Typed, Phase, Tamper, Running, builder
  <2>3. EnvType' /\ HistoryType'
    BY <1>4 DEF Typed, TypeOK, EnvType, HistoryType, Tamper, env, history
  <2>4. BuilderType'
    BY <1>4 DEF Typed, TypeOK, BuilderType, Tamper, builder
  <2>5. SharedType' /\ ThreadsType'
    BY <1>4 DEF Typed, TypeOK, SharedType, ThreadsType, Tamper, shared
  <2> QED
    BY <1>4, <2>1, <2>2, <2>3, <2>4, <2>5 DEF Typed, TypeOK, Tamper
<1>5. ASSUME NEW again \in BOOLEAN, Start(again) PROVE Typed'
  <2>1. BuilderType'
    BY <1>5 DEF Typed, TypeOK, Start, BuilderType, EnvType, Goto, Labels
  <2>2. HistoryType'
    BY <1>5 DEF Typed, TypeOK, Start, HistoryType
  <2>3. Phase'
    BY <1>5 DEF Typed, Phase, Start, Goto
  <2> QED
    BY <1>5, <2>1, <2>2, <2>3 DEF Typed, TypeOK, Start, EnvType, SharedType,
      ThreadsType, env, shared
<1>6. CASE Kill
  <2>1. BuilderType'
    BY <1>6, NoDraftType DEF Typed, TypeOK, Kill, BuilderType, EnvType, Goto, Labels
  <2>2. SharedType'
    BY <1>6 DEF Typed, TypeOK, Kill, SharedType
  <2>3. ThreadsType'
    BY <1>6 DEF Typed, TypeOK, Kill, ThreadsType
  <2>4. HistoryType'
    BY <1>6 DEF Typed, TypeOK, Kill, HistoryType
  <2>5. Phase'
    BY <1>6 DEF Typed, Phase, Kill, Goto
  <2> QED
    BY <1>6, <2>1, <2>2, <2>3, <2>4, <2>5 DEF Typed, TypeOK, Kill, EnvType, env
<1> QED
  BY <1>1, <1>2, <1>3, <1>4, <1>5, <1>6 DEF Environment

\* close() and search() keep the types.
LEMMA TypedOtherThreads == Typed /\ OtherThreads => Typed'
<1> SUFFICES ASSUME Typed, OtherThreads PROVE Typed'
  OBVIOUS
<1>1. Phase' /\ BuilderType'
  BY DEF Typed, TypeOK, Phase, BuilderType, OtherThreads, CloseTest,
      CloseConnection,
         CloseNull, SearchAdmit, SearchQuery, builder
<1>2. SharedType'
  BY DEF Typed, TypeOK, SharedType, OtherThreads, CloseTest, CloseConnection,
         CloseNull, SearchAdmit, SearchQuery, shared
<1>3. ThreadsType'
  BY DEF Typed, TypeOK, ThreadsType, OtherThreads, CloseTest, CloseConnection,
         CloseNull, SearchAdmit, SearchQuery
<1>4. EnvType' /\ db' \in Databases /\ HistoryType'
  BY DEF Typed, TypeOK, EnvType, HistoryType, OtherThreads, CloseTest,
      CloseConnection,
         CloseNull, SearchAdmit, SearchQuery, env, history
<1> QED
  BY <1>1, <1>2, <1>3, <1>4 DEF Typed, TypeOK

\* Every step of the builder keeps the types.
LEMMA TypedBuilder == Typed /\ BuilderStep => Typed'
<1> SUFFICES ASSUME Typed, BuilderStep PROVE Typed'
  OBVIOUS
<1>1. CASE Discover
  <2>1. BuilderType'
    BY <1>1 DEF Typed, TypeOK, Discover, BuilderType, EnvType, Goto, Labels
  <2>2. HistoryType'
    BY <1>1 DEF Typed, TypeOK, Discover, HistoryType
  <2>3. Phase'
    BY <1>1 DEF Typed, TypeOK, EnvType, Phase, Discover, Goto
  <2> QED
    BY <1>1, <2>1, <2>2, <2>3 DEF Typed, TypeOK, Discover, EnvType, SharedType,
      ThreadsType, env, shared
<1>2. CASE OpenOrRebuild
  <2>1. db' \in Databases
    BY <1>2, EmptyDbType DEF Typed, TypeOK, OpenOrRebuild, DbStates
  <2>2. BuilderType'
    <3>1. pc' \in Labels
      BY <1>2 DEF OpenOrRebuild, BeginWalk, Goto, Labels
    <3>2. todo' \subseteq Paths /\ walked' \in [Paths -> Nat]
      BY <1>2 DEF Typed, TypeOK, BuilderType, OpenOrRebuild, BeginWalk
    <3> QED
      BY <1>2, <3>1, <3>2 DEF Typed, TypeOK, BuilderType, OpenOrRebuild, BeginWalk
  <2>3. Phase'
    BY <1>2 DEF Typed, Phase, OpenOrRebuild, BeginWalk, Goto
  <2> QED
    BY <1>2, <2>1, <2>2, <2>3 DEF Typed, TypeOK, OpenOrRebuild, EnvType,
      SharedType, ThreadsType, HistoryType, env, shared, history
<1>3. CASE OpenCache
  <2>1. BuilderType'
    BY <1>3 DEF Typed, TypeOK, OpenCache, BuilderType, EnvType, Goto, Labels
  <2>2. SharedType'
    BY <1>3 DEF Typed, TypeOK, OpenCache, SharedType
  <2>3. Phase'
    BY <1>3 DEF Typed, Phase, OpenCache, Goto
  <2> QED
    BY <1>3, <2>1, <2>2, <2>3 DEF Typed, TypeOK, OpenCache, EnvType, ThreadsType,
      HistoryType, env, history
<1>4. CASE CheckCache /\ CacheAccepted
  <2>1. BuilderType'
    BY <1>4 DEF Typed, TypeOK, CheckCache, BuilderType, EnvType, BeginWalk, Goto,
      Labels
  <2>2. Phase'
    BY <1>4 DEF Typed, Phase, CheckCache, BeginWalk, Goto
  <2> QED
    BY <1>4, <2>1, <2>2 DEF Typed, TypeOK, CheckCache, EnvType, SharedType,
      ThreadsType, HistoryType, env, shared, history
<1>5. CASE CheckCache /\ ~CacheAccepted
  BY <1>5, RaiseTyped DEF CheckCache
<1>6. ASSUME NEW p \in Paths, WalkFile(p) PROVE Typed'
  <2>1. BuilderType'
    BY <1>6 DEF Typed, TypeOK, WalkFile, BuilderType, EnvType
  <2>2. HistoryType'
    BY <1>6 DEF Typed, TypeOK, WalkFile, HistoryType
  <2>3. Phase'
    BY <1>6 DEF Typed, Phase, WalkFile, Goto
  <2> QED
    BY <1>6, <2>1, <2>2, <2>3 DEF Typed, TypeOK, WalkFile, EnvType, SharedType,
      ThreadsType, env, shared
<1>7. CASE FullWalkDone /\ Raise
  BY <1>7, RaiseTyped DEF FullWalkDone
<1>8. CASE FullWalkDone /\ ~Raise
  <2>1. BuilderType'
    BY <1>8 DEF Typed, TypeOK, FullWalkDone, BuilderType, EnvType, Goto, Labels
  <2>2. Phase'
    BY <1>8 DEF Typed, Phase, FullWalkDone, Goto
  <2> QED
    BY <1>8, <2>1, <2>2 DEF Typed, TypeOK, FullWalkDone, EnvType, SharedType,
      ThreadsType, HistoryType, env, shared, history
<1>9. ASSUME NEW p \in Paths, ReadOne(p) PROVE Typed'
  <2>1. BuilderType'
    BY <1>9, ImageType DEF Typed, TypeOK, ReadOne, BuilderType, EnvType, Phase
  <2>2. HistoryType'
    BY <1>9 DEF Typed, TypeOK, ReadOne, HistoryType
  <2>3. Phase'
    BY <1>9 DEF Typed, Phase, ReadOne, Goto
  <2> QED
    BY <1>9, <2>1, <2>2, <2>3 DEF Typed, TypeOK, ReadOne, EnvType, SharedType,
      ThreadsType, env, shared
<1>10. CASE CreateSchema /\ db.state = "absent"
  <2>1. db' \in Databases
    BY <1>10, EmptyDbType DEF Typed, TypeOK, CreateSchema, DbStates
  <2>2. BuilderType'
    BY <1>10 DEF Typed, TypeOK, CreateSchema, BuilderType, EnvType, Goto, Labels
  <2>3. Phase'
    BY <1>10 DEF Typed, Phase, CreateSchema, Goto
  <2> QED
    BY <1>10, <2>1, <2>2, <2>3 DEF Typed, TypeOK, CreateSchema, EnvType,
      SharedType, ThreadsType, HistoryType, env, shared, history
<1>11. CASE CreateSchema /\ db.state # "absent"
  BY <1>11, RaiseTyped DEF CreateSchema
<1>12. CASE Fill
  <2>1. draft.docs \in Docs /\ extRoots \in Roots
    BY <1>12 DEF Fill, Typed, TypeOK, BuilderType, Phase, Images
  <2>2. db' \in Databases
    BY <1>12, <2>1, PostingsType DEF Fill, Databases, DbStates
  <2>3. BuilderType'
    BY <1>12, NoDraftType DEF Typed, TypeOK, BuilderType, Fill, Goto, Labels
  <2>4. SharedType'
    BY <1>12 DEF Typed, TypeOK, SharedType, Fill
  <2>5. Phase'
    BY <1>12 DEF Typed, Phase, Fill, Goto
  <2> QED
    BY <1>12, <2>2, <2>3, <2>4, <2>5
    DEF Typed, TypeOK, Fill, EnvType, ThreadsType, HistoryType, env, history
<1>13. CASE Diff
  <2>1. todo' \subseteq Paths
    BY <1>13 DEF Diff, Deleted, Modified, Added, PathsIn
  <2>2. draft' \in Images
    BY <1>13 DEF Diff, Typed, TypeOK, BuilderType, Images, Databases
  <2>3. pc' \in Labels
    BY <1>13 DEF Diff, Goto, Labels
  <2>4. BuilderType'
    BY <1>13, <2>1, <2>2, <2>3 DEF Typed, TypeOK, BuilderType, Diff
  <2>5. Phase'
    BY <1>13 DEF Typed, Phase, Diff, Goto
  <2> QED
    BY <1>13, <2>4, <2>5
    DEF Typed, TypeOK, Diff, EnvType, SharedType, ThreadsType, HistoryType,
        env, shared, history
<1>14. ASSUME NEW p \in Paths, ApplyDeleted(p) PROVE Typed'
  <2>1. draft' \in Images
    BY <1>14, DeleteType DEF ApplyDeleted, Typed, TypeOK, BuilderType
  <2>2. BuilderType'
    BY <1>14, <2>1 DEF Typed, TypeOK, BuilderType, ApplyDeleted
  <2>3. Phase'
    BY <1>14 DEF Typed, TypeOK, BuilderType, Images, Docs, Phase, ApplyDeleted,
      DeleteRow
  <2> QED
    BY <1>14, <2>1, <2>2, <2>3
    DEF Typed, TypeOK, ApplyDeleted, EnvType, SharedType, ThreadsType, HistoryType,
        env, shared, history
<1>15. ASSUME NEW p \in Paths, ApplyModified(p) PROVE Typed'
  <2>1. draft' \in Images
    <3>1. /\ draft \in Images /\ extRoots \in Roots
          /\ disk[p] \in Nat /\ walked[p] \in Nat
      BY <1>15 DEF ApplyModified, Typed, TypeOK, EnvType, BuilderType, Phase
    <3>2. walked[p] # NoFile /\ draft.docs[p] # NoRow
      BY <1>15 DEF ApplyModified, Modified, PathsIn, HasRow, Typed, Phase
    <3>3. CASE disk[p] # NoFile /\ draft' = UpdateRow(draft, p)
      BY <3>1, <3>2, <3>3, ImageType
    <3> QED
      BY <1>15, <3>1, <3>3 DEF ApplyModified
  <2>2. BuilderType'
    BY <1>15, <2>1 DEF Typed, TypeOK, BuilderType, ApplyModified
  <2>3. HistoryType'
    BY <1>15 DEF Typed, TypeOK, HistoryType, ApplyModified
  <2>4. Phase'
    BY <1>15 DEF Typed, TypeOK, BuilderType, Images, Docs, Phase, ApplyModified,
      UpdateRow
  <2> QED
    BY <1>15, <2>2, <2>3, <2>4
    DEF Typed, TypeOK, ApplyModified, EnvType, SharedType, ThreadsType, env, shared
<1>16. ASSUME NEW p \in Paths, ApplyAdded(p) PROVE Typed'
  <2>1. draft' \in Images
    BY <1>16, ImageType DEF ApplyAdded, Typed, TypeOK, EnvType, BuilderType, Phase,
      Added
  <2>2. BuilderType'
    BY <1>16, <2>1 DEF Typed, TypeOK, BuilderType, ApplyAdded
  <2>3. HistoryType'
    BY <1>16 DEF Typed, TypeOK, HistoryType, ApplyAdded
  <2>4. Phase'
    BY <1>16 DEF Typed, TypeOK, BuilderType, Images, Docs, Phase, ApplyAdded,
      InsertRow
  <2> QED
    BY <1>16, <2>2, <2>3, <2>4
    DEF Typed, TypeOK, ApplyAdded, EnvType, SharedType, ThreadsType, env, shared
<1>17. CASE Commit
  <2>1. db' \in Databases
    BY <1>17 DEF Commit, Typed, TypeOK, BuilderType, Images, Databases
  <2>2. BuilderType'
    BY <1>17, NoDraftType DEF Typed, TypeOK, BuilderType, Commit, Goto, Labels
  <2>3. Phase'
    BY <1>17 DEF Typed, Phase, Commit, Goto
  <2> QED
    BY <1>17, <2>1, <2>2, <2>3
    DEF Typed, TypeOK, Commit, EnvType, SharedType, ThreadsType, HistoryType,
        env, shared, history
<1>18. CASE Finish
  <2>1. moduleCount' \in Nat
    BY <1>18, CountType DEF Finish, Typed, TypeOK, Databases
  <2>2. BuilderType'
    BY <1>18 DEF Typed, TypeOK, Finish, BuilderType, EnvType, Goto, Labels
  <2>3. SharedType'
    BY <1>18, <2>1 DEF Typed, TypeOK, Finish, SharedType
  <2>4. Phase'
    BY <1>18 DEF Typed, Phase, Finish, Goto
  <2> QED
    BY <1>18, <2>2, <2>3, <2>4 DEF Typed, TypeOK, Finish, EnvType, ThreadsType,
      HistoryType, env, history
<1>19. CASE Announce /\ Raise
  BY <1>19, RaiseTyped DEF Announce
<1>20. CASE Announce /\ ~Raise
  <2>1. BuilderType'
    BY <1>20 DEF Typed, TypeOK, Announce, BuilderType, EnvType, Goto, Labels
  <2>2. Phase'
    BY <1>20 DEF Typed, Phase, Announce, Goto
  <2> QED
    BY <1>20, <2>1, <2>2 DEF Typed, TypeOK, Announce, EnvType, SharedType,
      ThreadsType, HistoryType, env, shared, history
<1>21. CASE StatementFails
  BY <1>21, RaiseTyped DEF StatementFails, UsesDatabase
<1>22. CASE SchemaFails
  BY <1>22, RaiseTyped DEF SchemaFails
<1>23. CASE DiscardTest
  <2>1. BuilderType'
    BY <1>23 DEF Typed, TypeOK, DiscardTest, BuilderType, EnvType, Goto, Labels
  <2>2. Phase'
    BY <1>23 DEF Typed, Phase, DiscardTest, Goto
  <2> QED
    BY <1>23, <2>1, <2>2 DEF Typed, TypeOK, DiscardTest, EnvType, SharedType,
      ThreadsType, HistoryType, env, shared, history
<1>24. CASE DiscardClose
  <2>1. BuilderType'
    BY <1>24 DEF Typed, TypeOK, DiscardClose, BuilderType, EnvType, Goto, Labels
  <2>2. SharedType'
    BY <1>24 DEF Typed, TypeOK, DiscardClose, SharedType
  <2>3. Phase'
    BY <1>24 DEF Typed, Phase, DiscardClose, Goto
  <2> QED
    BY <1>24, <2>1, <2>2, <2>3 DEF Typed, TypeOK, DiscardClose, EnvType,
      ThreadsType, HistoryType, env, history
<1>25. CASE DiscardNull
  <2>1. BuilderType'
    BY <1>25 DEF Typed, TypeOK, DiscardNull, BuilderType, EnvType, Goto, Labels
  <2>2. SharedType'
    BY <1>25 DEF Typed, TypeOK, DiscardNull, SharedType
  <2>3. Phase'
    BY <1>25 DEF Typed, Phase, DiscardNull, Goto
  <2> QED
    BY <1>25, <2>1, <2>2, <2>3 DEF Typed, TypeOK, DiscardNull, EnvType,
      ThreadsType, HistoryType, env, history
<1>26. CASE Unlink
  <2>1. db' \in Databases
    BY <1>26, EmptyDbType DEF Typed, TypeOK, Unlink, DbStates
  <2>2. BuilderType'
    BY <1>26 DEF Typed, TypeOK, Unlink, BuilderType, EnvType, BeginWalk, Goto,
      Labels
  <2>3. Phase'
    BY <1>26 DEF Typed, Phase, Unlink, BeginWalk, Goto
  <2> QED
    BY <1>26, <2>1, <2>2, <2>3 DEF Typed, TypeOK, Unlink, EnvType, SharedType,
      ThreadsType, HistoryType, env, shared, history
<1>27. CASE UnlinkFails
  <2>1. BuilderType'
    BY <1>27 DEF Typed, TypeOK, UnlinkFails, BuilderType, EnvType, Goto, Labels
  <2>2. SharedType'
    BY <1>27 DEF Typed, TypeOK, UnlinkFails, SharedType
  <2>3. Phase'
    BY <1>27 DEF Typed, Phase, UnlinkFails, Goto
  <2> QED
    BY <1>27, <2>1, <2>2, <2>3 DEF Typed, TypeOK, UnlinkFails, EnvType,
      ThreadsType, HistoryType, env, history
<1>28. CASE OpenStep
  BY <1>28, <1>1, <1>2, <1>3, <1>4, <1>5 DEF OpenStep
<1>29. CASE FileStep
  BY <1>29, <1>6, <1>9, <1>14, <1>15, <1>16 DEF FileStep
<1>30. CASE BuildStep
  BY <1>30, <1>7, <1>8, <1>10, <1>11, <1>12, <1>13, <1>17, <1>18, <1>19, <1>20
  DEF BuildStep
<1>31. CASE FailureStep
  BY <1>31, <1>21, <1>22, <1>27 DEF FailureStep
<1>32. CASE DiscardStep
  BY <1>32, <1>23, <1>24, <1>25, <1>26 DEF DiscardStep
<1> QED
  BY <1>28, <1>29, <1>30, <1>31, <1>32 DEF BuilderStep

\* Every step keeps the types.
LEMMA TypedStep == Typed /\ [Next]_vars => Typed'
<1>1. ASSUME Typed, UNCHANGED vars PROVE Typed'
  <2>1. EnvType' /\ db' \in Databases /\ HistoryType'
    BY <1>1 DEF Typed, TypeOK, EnvType, HistoryType, vars, env, history
  <2>2. BuilderType' /\ Phase'
    BY <1>1 DEF Typed, TypeOK, BuilderType, Phase, vars, builder
  <2>3. SharedType' /\ ThreadsType'
    BY <1>1 DEF Typed, TypeOK, SharedType, ThreadsType, vars, shared
  <2> QED
    BY <2>1, <2>2, <2>3 DEF Typed, TypeOK
<1> QED
  BY <1>1, TypedEnvironment, TypedOtherThreads, TypedBuilder DEF Next

\* Type correctness: every variable keeps its type, and no row without content
\* or name is ever prepared, for all dumps, cache files and faults.
THEOREM TypeCorrect == Spec => []TypeOK
<1>1. Spec => []Typed
  BY TypedInit, TypedStep, PTL DEF Spec
<1> QED
  BY <1>1, PTL DEF Typed

--------------------------------------------------------------------------------
(* Layer 2: what the rows say of the files *)

\* Versions only grow: what the walk saw is not newer than the file.
WalkBounds ==
    \A p \in Paths : /\ disk[p] <= clock
                     /\ walked[p] <= clock
                     /\ disk[p] # NoFile => walked[p] <= disk[p]

\* A row's content was read after its stamp was taken, and is not newer than
\* the file.
RowBounds(docs) ==
    \A p \in Paths :
        HasRow(docs, p) =>
            /\ docs[p].stamp <= docs[p].content
            /\ docs[p].content <= clock
            /\ disk[p] # NoFile => docs[p].content <= disk[p]

NamedBy(docs, roots) == \A p \in Paths : HasRow(docs, p) => docs[p].named = roots

DraftRows ==
    /\ RowBounds(draft.docs)
    /\ NamedBy(draft.docs, extRoots)
    /\ pc = "apply" => draft.fts = PostingsOf(draft.docs)
    /\ pc \notin {"read", "fill", "apply"} => draft = NoDraft

CacheRows ==
    /\ RowBounds(db.docs)
    /\ NamedBy(db.docs, db.roots)
    /\ db.state = "built" => db.fts = PostingsOf(db.docs)

\* The diff only runs on a cache that was accepted, and it stays so.
DiffOnAccepted == (pc = "apply" \/ (pc = "walk" /\ fromCache)) => CacheAccepted

Faithful == WalkBounds /\ DraftRows /\ CacheRows /\ DiffOnAccepted

\* The numbers the bounds compare.
LEMMA TypedNumbers ==
    ASSUME Typed
    PROVE  /\ clock \in Nat
           /\ \A p \in Paths : disk[p] \in Nat /\ walked[p] \in Nat
           /\ db.docs \in Docs /\ draft.docs \in Docs
           /\ \A docs \in Docs : \A p \in Paths :
                HasRow(docs, p) => /\ docs[p].stamp \in Nat
                                   /\ docs[p].content \in Nat
<1>1. clock \in Nat
  BY BoundAssumption DEF Typed, TypeOK, EnvType
<1>2. \A p \in Paths : disk[p] \in Nat /\ walked[p] \in Nat
  BY DEF Typed, TypeOK, EnvType, BuilderType
<1>3. db.docs \in Docs /\ draft.docs \in Docs
  BY DEF Typed, TypeOK, BuilderType, Databases, Images
<1>4. \A docs \in Docs : \A p \in Paths :
        HasRow(docs, p) => docs[p].stamp \in Nat /\ docs[p].content \in Nat
  BY DEF Docs, HasRow, Row, Versions
<1> QED
  BY <1>1, <1>2, <1>3, <1>4

\* A new cache file has nothing to say about the files.
LEMMA EmptyCacheRows ==
    ASSUME NEW state \in DbStates \ {"built"}, db' = EmptyDb(state)
    PROVE  CacheRows'
<1>1. \A p \in Paths : ~HasRow(db'.docs, p)
  BY DEF HasRow, NoRows, EmptyDb
<1>2. db'.state # "built"
  BY DEF EmptyDb
<1> QED
  BY <1>1, <1>2 DEF CacheRows, RowBounds, NamedBy

\* An empty draft has nothing to say about the files.
LEMMA EmptyDraftRows ==
    ASSUME draft' = NoDraft, pc' # "apply"
    PROVE  DraftRows'
<1>1. \A p \in Paths : ~HasRow(draft'.docs, p)
  BY DEF HasRow, NoRows, NoDraft
<1> QED
  BY <1>1 DEF DraftRows, RowBounds, NamedBy

\* A step of control that touches neither files nor rows.
LEMMA FaithfulFrame ==
    ASSUME Faithful,
           UNCHANGED <<env, walked, db, draft, extRoots>>,
           \/ pc' = pc /\ fromCache' = fromCache
           \/ pc' \notin {"walk", "read", "fill", "apply"} /\ draft = NoDraft
    PROVE  Faithful'
<1>1. WalkBounds' /\ CacheRows'
  BY DEF Faithful, WalkBounds, CacheRows, RowBounds, NamedBy, env
<1>2. DraftRows'
  BY DEF Faithful, DraftRows, RowBounds, NamedBy, env
<1>3. DiffOnAccepted'
  BY DEF Faithful, DiffOnAccepted, CacheAccepted
<1> QED
  BY <1>1, <1>2, <1>3 DEF Faithful

\* An exception of the builder leaves files and rows alone.
LEMMA FaithfulRaise ==
    ASSUME Faithful, Raise, UNCHANGED env,
           db' = db \/ db' = EmptyDb("partial")
    PROVE  Faithful'
<1>1. WalkBounds'
  BY DEF Faithful, WalkBounds, Raise, env
<1>2. CacheRows'
  <2>1. CASE db' = db
    BY <2>1 DEF Faithful, CacheRows, RowBounds, NamedBy, env
  <2>2. CASE db' = EmptyDb("partial")
    BY <2>2, EmptyCacheRows DEF DbStates
  <2> QED
    BY <2>1, <2>2
<1>3. pc' \in {"discard", "failed"} /\ draft' = NoDraft
  BY DEF Raise, Goto
<1>4. DraftRows' /\ DiffOnAccepted'
  BY <1>3, EmptyDraftRows DEF DiffOnAccepted
<1> QED
  BY <1>1, <1>2, <1>4 DEF Faithful

\* An edit gives a file a version above all rows; a removed file bounds nothing.
LEMMA FaithfulDisk ==
    ASSUME Typed, Faithful, NEW p \in Paths,
           \/ disk' = [disk EXCEPT ![p] = clock + 1] /\ clock' = clock + 1
           \/ disk' = [disk EXCEPT ![p] = NoFile] /\ clock' = clock,
           UNCHANGED <<db, builder>>
    PROVE  Faithful'
<1>1. /\ clock \in Nat /\ clock' \in Nat /\ clock <= clock'
      /\ \A q \in Paths : \/ disk'[q] = disk[q]
                          \/ disk'[q] = clock' /\ clock' = clock + 1
                          \/ disk'[q] = NoFile
  BY TypedNumbers DEF Typed, TypeOK, EnvType
<1>2. ASSUME NEW docs \in Docs, RowBounds(docs)
      PROVE  \A q \in Paths :
               HasRow(docs, q) =>
                 /\ docs[q].stamp <= docs[q].content
                 /\ docs[q].content <= clock'
                 /\ disk'[q] # NoFile => docs[q].content <= disk'[q]
  BY <1>1, <1>2, TypedNumbers DEF RowBounds
<1>3. WalkBounds'
  BY <1>1, TypedNumbers DEF Faithful, WalkBounds, builder
<1>4. CacheRows'
  BY <1>2, TypedNumbers DEF Faithful, CacheRows, RowBounds, NamedBy
<1>5. DraftRows'
  BY <1>2, TypedNumbers DEF Faithful, DraftRows, RowBounds, NamedBy, builder
<1>6. DiffOnAccepted'
  BY DEF Faithful, DiffOnAccepted, CacheAccepted, builder
<1> QED
  BY <1>3, <1>4, <1>5, <1>6 DEF Faithful

\* No cache, no row: the initial state is faithful.
LEMMA FaithfulInit == Init => Faithful
<1> SUFFICES ASSUME Init PROVE Faithful
  OBVIOUS
<1>1. /\ db = EmptyDb("absent") /\ draft = NoDraft /\ pc = "off" /\ clock = 0
      /\ disk \in [Paths -> {NoFile}] /\ walked = [p \in Paths |-> NoFile]
  BY DEF Init
<1>2. /\ \A p \in Paths : ~HasRow(db.docs, p) /\ ~HasRow(draft.docs, p)
      /\ db.state # "built"
  BY <1>1 DEF HasRow, EmptyDb, NoDraft, NoRows
<1>3. WalkBounds
  BY <1>1 DEF WalkBounds
<1> QED
  BY <1>1, <1>2, <1>3
  DEF Faithful, DraftRows, CacheRows, RowBounds, NamedBy, DiffOnAccepted

\* Edits, damage, starts and kills keep cache and draft faithful.
LEMMA FaithfulEnvironment == Typed /\ Faithful /\ Environment => Faithful'
<1> SUFFICES ASSUME Typed, Faithful, Environment PROVE Faithful'
  OBVIOUS
<1>1. ASSUME NEW p \in Paths, Edit(p) PROVE Faithful'
  BY <1>1, FaithfulDisk DEF Edit
<1>2. ASSUME NEW p \in Paths, Remove(p) PROVE Faithful'
  BY <1>2, FaithfulDisk DEF Remove
<1>3. ASSUME NEW r \in Roots, Remanifest(r) PROVE Faithful'
  <2>1. UNCHANGED <<disk, clock, walked, db, draft, extRoots, pc, fromCache>>
    BY <1>3 DEF Remanifest, builder
  <2>2. WalkBounds' /\ CacheRows'
    BY <2>1 DEF Faithful, WalkBounds, CacheRows, RowBounds, NamedBy
  <2>3. DraftRows'
    BY <2>1 DEF Faithful, DraftRows, RowBounds, NamedBy
  <2>4. DiffOnAccepted'
    BY <2>1 DEF Faithful, DiffOnAccepted, CacheAccepted
  <2> QED
    BY <2>2, <2>3, <2>4 DEF Faithful
<1>4. ASSUME NEW state \in {"absent", "damaged", "outdated"}, Tamper(state)
      PROVE  Faithful'
  <2>1. UNCHANGED <<disk, clock, walked, draft, extRoots, pc>> /\ pc = "off"
    BY <1>4 DEF Tamper, builder, env, Running
  <2>2. CacheRows'
    BY <1>4, EmptyCacheRows DEF Tamper, DbStates
  <2>3. WalkBounds' /\ DiffOnAccepted'
    BY <2>1 DEF Faithful, WalkBounds, DiffOnAccepted
  <2>4. DraftRows'
    BY <2>1 DEF Faithful, DraftRows, RowBounds, NamedBy
  <2> QED
    BY <2>2, <2>3, <2>4 DEF Faithful
<1>5. ASSUME NEW again \in BOOLEAN, Start(again) PROVE Faithful'
  <2>1. pc = "off" /\ pc' = "discover" /\ draft = NoDraft
    BY <1>5 DEF Start, Running, Goto, Faithful, DraftRows
  <2> QED
    BY <1>5, <2>1, FaithfulFrame DEF Start
<1>6. CASE Kill
  <2>1. /\ UNCHANGED <<disk, clock, db>> /\ draft' = NoDraft /\ pc' = "off"
        /\ walked' = [p \in Paths |-> NoFile]
    BY <1>6 DEF Kill, env, Goto
  <2>2. WalkBounds'
    BY <2>1, TypedNumbers DEF Faithful, WalkBounds
  <2>3. CacheRows'
    BY <2>1 DEF Faithful, CacheRows, RowBounds, NamedBy
  <2>4. DraftRows' /\ DiffOnAccepted'
    BY <2>1, EmptyDraftRows DEF DiffOnAccepted
  <2> QED
    BY <2>2, <2>3, <2>4 DEF Faithful
<1> QED
  BY <1>1, <1>2, <1>3, <1>4, <1>5, <1>6 DEF Environment

\* close() and search() touch no row.
LEMMA FaithfulOtherThreads == Faithful /\ OtherThreads => Faithful'
<1> SUFFICES ASSUME Faithful, OtherThreads PROVE Faithful'
  OBVIOUS
<1>1. UNCHANGED <<env, db, builder>>
  BY DEF OtherThreads, CloseTest, CloseConnection, CloseNull, SearchAdmit, SearchQuery
<1> QED
  BY <1>1, FaithfulFrame DEF builder

\* A row prepared from a file that is there respects the bounds.
LEMMA FreshRow ==
    ASSUME Typed, Faithful, NEW p \in Paths, disk[p] # NoFile
    PROVE  walked[p] <= disk[p] /\ disk[p] <= clock
BY DEF Faithful, WalkBounds

\* Changing one row of the draft to a fresh one, or to none, keeps the rest.
LEMMA DraftChange ==
    ASSUME Typed, Faithful, NEW p \in Paths,
           UNCHANGED <<disk, clock, extRoots>>,
           draft'.docs = [draft.docs EXCEPT ![p] = draft'.docs[p]],
           \/ draft'.docs[p] = NoRow
           \/ /\ disk[p] # NoFile
              /\ draft'.docs[p].stamp = walked[p]
              /\ draft'.docs[p].content = disk[p]
              /\ draft'.docs[p].named = extRoots
    PROVE  RowBounds(draft.docs)' /\ NamedBy(draft.docs, extRoots)'
<1>1. draft.docs \in Docs
  BY TypedNumbers
<1>2. \A q \in Paths : q # p => draft'.docs[q] = draft.docs[q]
  BY <1>1 DEF Docs
<1>3. ASSUME NEW q \in Paths, HasRow(draft'.docs, q)
      PROVE  /\ draft'.docs[q].stamp <= draft'.docs[q].content
             /\ draft'.docs[q].content <= clock'
             /\ disk'[q] # NoFile => draft'.docs[q].content <= disk'[q]
  <2>1. CASE q = p
    <3>1. /\ disk[p] # NoFile
          /\ draft'.docs[p].stamp = walked[p] /\ draft'.docs[p].content = disk[p]
      BY <1>3, <2>1 DEF HasRow
    <3> QED
      BY <2>1, <3>1, FreshRow, TypedNumbers
  <2>2. CASE q # p
    BY <1>2, <1>3, <2>2 DEF Faithful, DraftRows, RowBounds, HasRow
  <2> QED
    BY <2>1, <2>2
<1>4. NamedBy(draft.docs, extRoots)'
  BY <1>2 DEF Faithful, DraftRows, NamedBy, HasRow
<1> QED
  BY <1>3, <1>4 DEF RowBounds

\* Every file the builder walks, reads or applies keeps the bounds.
LEMMA FaithfulFiles == Typed /\ Faithful /\ FileStep => Faithful'
<1> SUFFICES ASSUME Typed, Faithful, FileStep PROVE Faithful'
  OBVIOUS
<1>1. ASSUME NEW p \in Paths, WalkFile(p) PROVE Faithful'
  <2>1. UNCHANGED <<disk, clock, db, pc, extRoots, fromCache, draft>>
    BY <1>1 DEF WalkFile, env
  <2>2. WalkBounds'
    <3>1. \A q \in Paths : walked'[q] = walked[q] \/ walked'[q] = disk[q]
      BY <1>1 DEF WalkFile, Typed, TypeOK, BuilderType
    <3> QED
      BY <2>1, <3>1, TypedNumbers DEF Faithful, WalkBounds
  <2>3. CacheRows' /\ DiffOnAccepted'
    BY <2>1 DEF Faithful, CacheRows, RowBounds, NamedBy, DiffOnAccepted, CacheAccepted
  <2>4. DraftRows'
    BY <2>1 DEF Faithful, DraftRows, RowBounds, NamedBy
  <2> QED
    BY <2>2, <2>3, <2>4 DEF Faithful
<1>2. ASSUME NEW p \in Paths, ReadOne(p) PROVE Faithful'
  <2>1. UNCHANGED <<disk, clock, walked, db, pc, extRoots, fromCache>> /\ pc = "read"
    BY <1>2 DEF ReadOne, env
  <2>2. WalkBounds' /\ CacheRows' /\ DiffOnAccepted'
    BY <2>1 DEF Faithful, WalkBounds, CacheRows, RowBounds, NamedBy,
                DiffOnAccepted, CacheAccepted
  <2>3. CASE draft' = draft
    BY <2>1, <2>2, <2>3 DEF Faithful, DraftRows, RowBounds, NamedBy
  <2>4. CASE disk[p] # NoFile /\ draft' = [draft EXCEPT !.docs[p] = RowFor(p)]
    <3>1. /\ draft'.docs = [draft.docs EXCEPT ![p] = draft'.docs[p]]
          /\ draft'.docs[p] = RowFor(p)
      BY <2>4 DEF Typed, TypeOK, BuilderType, Images, Docs
    <3>2. RowBounds(draft.docs)' /\ NamedBy(draft.docs, extRoots)'
      BY <2>1, <2>4, <3>1, DraftChange DEF RowFor
    <3> QED
      BY <2>1, <2>2, <3>2 DEF Faithful, DraftRows
  <2> QED
    BY <1>2, <2>3, <2>4 DEF ReadOne
<1>3. ASSUME NEW p \in Paths, ApplyDeleted(p) PROVE Faithful'
  <2>1. UNCHANGED <<disk, clock, walked, db, pc, extRoots, fromCache>> /\ pc = "apply"
    BY <1>3 DEF ApplyDeleted, env
  <2>2. WalkBounds' /\ CacheRows' /\ DiffOnAccepted'
    BY <2>1 DEF Faithful, WalkBounds, CacheRows, RowBounds, NamedBy,
                DiffOnAccepted, CacheAccepted
  <2>3. HasRow(draft.docs, p)
    BY <1>3 DEF ApplyDeleted, Deleted, PathsIn, HasRow, Typed, Phase
  <2>4. /\ draft'.docs = [draft.docs EXCEPT ![p] = NoRow]
        /\ draft'.fts = draft.fts \ {<<p, draft.docs[p].content>>}
    BY <1>3 DEF ApplyDeleted, DeleteRow, FtsDelete
  <2>5. draft.docs \in Docs
    BY TypedNumbers
  <2>6. RowBounds(draft.docs)' /\ NamedBy(draft.docs, extRoots)'
    <3>1. draft'.docs[p] = NoRow
      BY <2>4, <2>5 DEF Docs
    <3> QED
      BY <2>1, <2>4, <3>1, DraftChange
  <2>7. draft'.fts = PostingsOf(draft'.docs)
    <3>1. draft.fts = PostingsOf(draft.docs)
      BY <2>1 DEF Faithful, DraftRows
    <3> QED
      BY <2>3, <2>4, <2>5, <3>1 DEF PostingsOf, PathsIn, HasRow, Docs
  <2> QED
    BY <2>1, <2>2, <2>6, <2>7 DEF Faithful, DraftRows
<1>4. ASSUME NEW p \in Paths, ApplyModified(p) PROVE Faithful'
  <2>1. UNCHANGED <<disk, clock, walked, db, pc, extRoots, fromCache>> /\ pc = "apply"
    BY <1>4 DEF ApplyModified, env
  <2>2. WalkBounds' /\ CacheRows' /\ DiffOnAccepted'
    BY <2>1 DEF Faithful, WalkBounds, CacheRows, RowBounds, NamedBy,
                DiffOnAccepted, CacheAccepted
  <2>3. CASE draft' = draft
    BY <2>1, <2>2, <2>3 DEF Faithful, DraftRows, RowBounds, NamedBy
  <2>4. CASE disk[p] # NoFile /\ draft' = UpdateRow(draft, p)
    <3>1. HasRow(draft.docs, p) /\ draft.docs[p].named = extRoots
      BY <1>4 DEF ApplyModified, Modified, PathsIn, HasRow, Typed, Phase,
                  Faithful, DraftRows, NamedBy
    <3>2. draft.docs \in Docs
      BY TypedNumbers
    <3>3. /\ draft'.docs = [draft.docs EXCEPT ![p] = [stamp |-> walked[p],
                              content |-> disk[p], named |-> draft.docs[p].named]]
          /\ draft'.fts = (draft.fts \ {<<p, draft.docs[p].content>>})
                             \cup {<<p, disk[p]>>}
      BY <2>4, <3>2 DEF UpdateRow, FtsDelete, Docs
    <3>4. draft'.docs[p] = [stamp |-> walked[p], content |-> disk[p],
                            named |-> draft.docs[p].named]
      BY <3>2, <3>3 DEF Docs
    <3>5. RowBounds(draft.docs)' /\ NamedBy(draft.docs, extRoots)'
      BY <2>1, <2>4, <3>1, <3>3, <3>4, DraftChange
    <3>6. draft'.fts = PostingsOf(draft'.docs)
      <4>1. draft.fts = PostingsOf(draft.docs)
        BY <2>1 DEF Faithful, DraftRows
      <4>2. draft'.docs[p] # NoRow
        BY <1>4, <2>4, <3>4, <3>1, <3>2, SentinelAssumption, TypedNumbers
        DEF Row, Versions, ApplyModified, Modified, Docs, HasRow
      <4>3. \A q \in Paths : q # p => draft'.docs[q] = draft.docs[q]
        BY <3>2, <3>3 DEF Docs
      <4> QED
        BY <3>1, <3>3, <3>4, <4>1, <4>2, <4>3 DEF PostingsOf, PathsIn, HasRow
    <3> QED
      BY <2>1, <2>2, <3>5, <3>6 DEF Faithful, DraftRows
  <2> QED
    BY <1>4, <2>3, <2>4 DEF ApplyModified
<1>5. ASSUME NEW p \in Paths, ApplyAdded(p) PROVE Faithful'
  <2>1. UNCHANGED <<disk, clock, walked, db, pc, extRoots, fromCache>> /\ pc = "apply"
    BY <1>5 DEF ApplyAdded, env
  <2>2. WalkBounds' /\ CacheRows' /\ DiffOnAccepted'
    BY <2>1 DEF Faithful, WalkBounds, CacheRows, RowBounds, NamedBy,
                DiffOnAccepted, CacheAccepted
  <2>3. CASE draft' = draft
    BY <2>1, <2>2, <2>3 DEF Faithful, DraftRows, RowBounds, NamedBy
  <2>4. CASE disk[p] # NoFile /\ draft' = InsertRow(draft, p)
    <3>1. ~HasRow(draft.docs, p)
      BY <1>5 DEF ApplyAdded, Added, HasRow, Typed, Phase
    <3>2. draft.docs \in Docs
      BY TypedNumbers
    <3>3. /\ draft'.docs = [draft.docs EXCEPT ![p] = RowFor(p)]
          /\ draft'.fts = draft.fts \cup {<<p, disk[p]>>}
      BY <2>4 DEF InsertRow
    <3>4. draft'.docs[p] = RowFor(p)
      BY <3>2, <3>3 DEF Docs
    <3>5. RowBounds(draft.docs)' /\ NamedBy(draft.docs, extRoots)'
      BY <2>1, <2>4, <3>3, <3>4, DraftChange DEF RowFor
    <3>6. draft'.fts = PostingsOf(draft'.docs)
      <4>1. draft.fts = PostingsOf(draft.docs)
        BY <2>1 DEF Faithful, DraftRows
      <4>2. RowFor(p) \in Row
        BY <1>5, <2>1, <2>4, TypedNumbers
        DEF RowFor, Row, Versions, ApplyAdded, Added, Typed, Phase
      <4>3. draft'.docs[p] # NoRow /\ draft'.docs[p].content = disk[p]
        BY <3>4, <4>2, SentinelAssumption DEF RowFor
      <4>4. \A q \in Paths : q # p => draft'.docs[q] = draft.docs[q]
        BY <3>2, <3>3 DEF Docs
      <4> QED
        BY <3>1, <3>3, <4>1, <4>3, <4>4 DEF PostingsOf, PathsIn, HasRow
    <3> QED
      BY <2>1, <2>2, <3>5, <3>6 DEF Faithful, DraftRows
  <2> QED
    BY <1>5, <2>3, <2>4 DEF ApplyAdded
<1> QED
  BY <1>1, <1>2, <1>3, <1>4, <1>5 DEF FileStep

\* Opening and checking the cache moves no row.
LEMMA FaithfulOpen == Typed /\ Faithful /\ OpenStep => Faithful'
<1> SUFFICES ASSUME Typed, Faithful, OpenStep PROVE Faithful'
  OBVIOUS
<1>1. CASE Discover
  <2>1. UNCHANGED <<disk, clock, walked, db, draft>> /\ pc' = "dispatch"
    BY <1>1 DEF Discover, env, Goto
  <2>2. draft = NoDraft
    BY <1>1 DEF Discover, Faithful, DraftRows
  <2>3. WalkBounds' /\ CacheRows' /\ DiffOnAccepted'
    BY <2>1 DEF Faithful, WalkBounds, CacheRows, RowBounds, NamedBy, DiffOnAccepted
  <2>4. DraftRows'
    BY <2>1, <2>2, EmptyDraftRows
  <2> QED
    BY <2>3, <2>4 DEF Faithful
<1>2. CASE OpenOrRebuild
  <2>1. UNCHANGED <<disk, clock, draft, extRoots>> /\ draft = NoDraft
    BY <1>2 DEF OpenOrRebuild, env, Faithful, DraftRows
  <2>2. \/ pc' = "open" /\ UNCHANGED <<db, walked>>
        \/ /\ pc' = "walk" /\ fromCache' = FALSE /\ db' = EmptyDb("absent")
           /\ walked' = [p \in Paths |-> NoFile]
    BY <1>2 DEF OpenOrRebuild, BeginWalk, Goto
  <2>3. WalkBounds'
    BY <2>1, <2>2, TypedNumbers DEF Faithful, WalkBounds
  <2>4. CacheRows'
    <3>1. CASE db' = db
      BY <2>1, <3>1 DEF Faithful, CacheRows, RowBounds, NamedBy
    <3>2. CASE db' = EmptyDb("absent")
      BY <3>2, EmptyCacheRows DEF DbStates
    <3> QED
      BY <2>2, <3>1, <3>2
  <2>5. DraftRows' /\ DiffOnAccepted'
    BY <2>1, <2>2, EmptyDraftRows DEF DiffOnAccepted
  <2> QED
    BY <2>3, <2>4, <2>5 DEF Faithful
<1>3. CASE OpenCache
  <2>1. draft = NoDraft /\ pc' = "check"
    BY <1>3 DEF OpenCache, Goto, Faithful, DraftRows
  <2> QED
    BY <1>3, <2>1, FaithfulFrame DEF OpenCache
<1>4. CASE CheckCache /\ CacheAccepted
  <2>1. /\ UNCHANGED <<disk, clock, db, draft, extRoots>> /\ draft = NoDraft
        /\ pc' = "walk" /\ walked' = [p \in Paths |-> NoFile]
    BY <1>4 DEF CheckCache, BeginWalk, Goto, env, Faithful, DraftRows
  <2>2. WalkBounds'
    BY <2>1, TypedNumbers DEF Faithful, WalkBounds
  <2>3. CacheRows'
    BY <2>1 DEF Faithful, CacheRows, RowBounds, NamedBy
  <2>4. DraftRows' /\ DiffOnAccepted'
    BY <1>4, <2>1, EmptyDraftRows DEF DiffOnAccepted, CacheAccepted
  <2> QED
    BY <2>2, <2>3, <2>4 DEF Faithful
<1>5. CASE CheckCache /\ ~CacheAccepted
  BY <1>5, FaithfulRaise DEF CheckCache
<1> QED
  BY <1>1, <1>2, <1>3, <1>4, <1>5 DEF OpenStep

\* The transactions move the rows of the draft into the cache.
LEMMA FaithfulBuild == Typed /\ Faithful /\ BuildStep => Faithful'
<1> SUFFICES ASSUME Typed, Faithful, BuildStep PROVE Faithful'
  OBVIOUS
<1>1. CASE FullWalkDone /\ Raise
  BY <1>1, FaithfulRaise DEF FullWalkDone
<1>2. CASE FullWalkDone /\ ~Raise
  <2>1. /\ UNCHANGED <<disk, clock, walked, db, draft, extRoots>>
        /\ draft = NoDraft /\ pc' = "read"
    BY <1>2 DEF FullWalkDone, Goto, env, Faithful, DraftRows
  <2>2. WalkBounds' /\ CacheRows' /\ DiffOnAccepted'
    BY <2>1 DEF Faithful, WalkBounds, CacheRows, RowBounds, NamedBy, DiffOnAccepted
  <2>3. DraftRows'
    BY <2>1, EmptyDraftRows
  <2> QED
    BY <2>2, <2>3 DEF Faithful
<1>3. CASE CreateSchema /\ db.state = "absent"
  <2>1. /\ UNCHANGED <<disk, clock, walked, draft, extRoots>>
        /\ db' = EmptyDb("partial") /\ pc' = "fill" /\ pc = "read"
    BY <1>3 DEF CreateSchema, Goto, env
  <2>2. CacheRows'
    BY <2>1, EmptyCacheRows DEF DbStates
  <2>3. WalkBounds' /\ DiffOnAccepted'
    BY <2>1 DEF Faithful, WalkBounds, DiffOnAccepted
  <2>4. DraftRows'
    BY <2>1 DEF Faithful, DraftRows, RowBounds, NamedBy
  <2> QED
    BY <2>2, <2>3, <2>4 DEF Faithful
<1>4. CASE CreateSchema /\ db.state # "absent"
  BY <1>4, FaithfulRaise DEF CreateSchema
<1>5. CASE Fill
  <2>1. /\ UNCHANGED <<disk, clock, walked, extRoots>>
        /\ draft' = NoDraft /\ pc' = "finish"
        /\ db'.state = "built" /\ db'.roots = extRoots /\ db'.docs = draft.docs
        /\ db'.fts = PostingsOf(draft.docs)
    BY <1>5 DEF Fill, Goto, env
  <2>2. CacheRows'
    BY <2>1 DEF Faithful, DraftRows, CacheRows, RowBounds, NamedBy
  <2>3. WalkBounds' /\ DiffOnAccepted'
    BY <2>1 DEF Faithful, WalkBounds, DiffOnAccepted
  <2>4. DraftRows'
    BY <2>1, EmptyDraftRows
  <2> QED
    BY <2>2, <2>3, <2>4 DEF Faithful
<1>6. CASE Diff
  <2>1. /\ UNCHANGED <<disk, clock, walked, db, extRoots>>
        /\ CacheAccepted /\ draft = NoDraft
    BY <1>6 DEF Diff, env, Faithful, DiffOnAccepted, DraftRows
  <2>2. WalkBounds' /\ CacheRows' /\ DiffOnAccepted'
    BY <2>1 DEF Faithful, WalkBounds, CacheRows, RowBounds, NamedBy,
                DiffOnAccepted, CacheAccepted
  <2>3. CASE pc' = "finish" /\ draft' = draft
    BY <2>1, <2>2, <2>3, EmptyDraftRows DEF Faithful
  <2>4. CASE pc' = "apply" /\ draft' = [docs |-> db.docs, fts |-> db.fts]
    BY <2>1, <2>2, <2>4
    DEF Faithful, DraftRows, CacheRows, RowBounds, NamedBy, CacheAccepted
  <2> QED
    BY <1>6, <2>3, <2>4 DEF Diff, Goto
<1>7. CASE Commit
  <2>1. /\ UNCHANGED <<disk, clock, walked, extRoots>> /\ CacheAccepted
        /\ draft' = NoDraft /\ pc' = "finish" /\ pc = "apply"
    BY <1>7 DEF Commit, Goto, env, Faithful, DiffOnAccepted
  <2>2. /\ db'.state = "built" /\ db'.roots = extRoots /\ db'.docs = draft.docs
        /\ db'.fts = draft.fts
    BY <1>7, <2>1 DEF Commit, CacheAccepted, Typed, TypeOK, Databases
  <2>3. CacheRows'
    BY <2>1, <2>2 DEF Faithful, DraftRows, CacheRows, RowBounds, NamedBy
  <2>4. WalkBounds' /\ DiffOnAccepted'
    BY <2>1 DEF Faithful, WalkBounds, DiffOnAccepted
  <2>5. DraftRows'
    BY <2>1, EmptyDraftRows
  <2> QED
    BY <2>3, <2>4, <2>5 DEF Faithful
<1>8. CASE Finish
  <2>1. draft = NoDraft /\ pc' = "announce"
    BY <1>8 DEF Finish, Goto, Faithful, DraftRows
  <2> QED
    BY <1>8, <2>1, FaithfulFrame DEF Finish
<1>9. CASE Announce /\ Raise
  BY <1>9, FaithfulRaise DEF Announce
<1>10. CASE Announce /\ ~Raise
  <2>1. draft = NoDraft /\ pc' = "done"
    BY <1>10 DEF Announce, Goto, Faithful, DraftRows
  <2> QED
    BY <1>10, <2>1, FaithfulFrame DEF Announce
<1> QED
  BY <1>1, <1>2, <1>3, <1>4, <1>5, <1>6, <1>7, <1>8, <1>9, <1>10 DEF BuildStep

\* A failing statement or os.remove changes no row.
LEMMA FaithfulFailure == Faithful /\ FailureStep => Faithful'
<1> SUFFICES ASSUME Faithful, FailureStep PROVE Faithful'
  OBVIOUS
<1>1. CASE StatementFails
  BY <1>1, FaithfulRaise DEF StatementFails
<1>2. CASE SchemaFails
  BY <1>2, FaithfulRaise DEF SchemaFails
<1>3. CASE UnlinkFails
  <2>1. draft = NoDraft /\ pc' = "failed"
    BY <1>3 DEF UnlinkFails, Goto, Faithful, DraftRows
  <2> QED
    BY <1>3, <2>1, FaithfulFrame DEF UnlinkFails
<1> QED
  BY <1>1, <1>2, <1>3 DEF FailureStep

\* Removing the cache removes its rows.
LEMMA FaithfulDiscard == Typed /\ Faithful /\ DiscardStep => Faithful'
<1> SUFFICES ASSUME Typed, Faithful, DiscardStep PROVE Faithful'
  OBVIOUS
<1>1. draft = NoDraft
  BY DEF DiscardStep, DiscardTest, DiscardClose, DiscardNull, Unlink, Faithful, DraftRows
<1>2. CASE DiscardTest \/ DiscardClose \/ DiscardNull
  <2>1. /\ UNCHANGED <<env, walked, db, draft, extRoots>>
        /\ pc' \in {"unlink", "closing", "nulling", "failed"}
    BY <1>2 DEF DiscardTest, DiscardClose, DiscardNull, Goto
  <2> QED
    BY <1>1, <2>1, FaithfulFrame
<1>3. CASE Unlink
  <2>1. /\ UNCHANGED <<disk, clock, draft>> /\ db' = EmptyDb("absent")
        /\ pc' = "walk" /\ fromCache' = FALSE
        /\ walked' = [p \in Paths |-> NoFile]
    BY <1>3 DEF Unlink, BeginWalk, Goto, env
  <2>2. WalkBounds'
    BY <2>1, TypedNumbers DEF Faithful, WalkBounds
  <2>3. CacheRows'
    BY <2>1, EmptyCacheRows DEF DbStates
  <2>4. DraftRows' /\ DiffOnAccepted'
    BY <1>1, <2>1, EmptyDraftRows DEF DiffOnAccepted
  <2> QED
    BY <2>2, <2>3, <2>4 DEF Faithful
<1> QED
  BY <1>2, <1>3 DEF DiscardStep

\* Every step keeps cache and draft faithful.
LEMMA FaithfulStep == Typed /\ Faithful /\ [Next]_vars => Faithful'
<1> SUFFICES ASSUME Typed, Faithful, [Next]_vars PROVE Faithful'
  OBVIOUS
<1>1. CASE BuilderStep
  BY <1>1, FaithfulOpen, FaithfulFiles, FaithfulBuild, FaithfulFailure, FaithfulDiscard
  DEF BuilderStep
<1>2. CASE UNCHANGED vars
  <2>1. UNCHANGED <<env, walked, db, draft, extRoots, pc, fromCache>>
    BY <1>2 DEF vars, builder
  <2> QED
    BY <2>1, FaithfulFrame
<1> QED
  BY <1>1, <1>2, FaithfulEnvironment, FaithfulOtherThreads DEF Next

\* An accepted cache never hides an edit, is named by its recorded extension
\* map, and its full-text index matches its documents.
THEOREM CacheIsFaithful == Spec => []CacheFaithful
<1>1. Typed /\ Faithful => CacheFaithful
  <2> SUFFICES ASSUME Typed, Faithful, db.state = "built",
                      NEW p \in PathsIn(db.docs), db.docs[p].stamp = disk[p]
               PROVE  db.docs[p].content = disk[p]
    BY DEF CacheFaithful, Faithful, CacheRows, NamedBy, PathsIn
  <2>1. HasRow(db.docs, p) /\ p \in Paths
    BY DEF PathsIn
  <2>2. db.docs[p].stamp # NoFile
    BY <2>1, TypedNumbers DEF Docs, HasRow, Row, Versions
  <2> QED
    BY <2>1, <2>2, TypedNumbers DEF Faithful, CacheRows, RowBounds
<1>2. Init => Typed /\ Faithful
  BY TypedInit, FaithfulInit
<1>3. Typed /\ Faithful /\ [Next]_vars => (Typed /\ Faithful)'
  BY TypedStep, FaithfulStep
<1> QED
  BY <1>1, <1>2, <1>3, PTL DEF Spec

--------------------------------------------------------------------------------
(* Layer 3: how far the build has caught up with the dump *)

UpToDate(docs, p) ==
    IF disk[p] = NoFile
    THEN ~HasRow(docs, p)
    ELSE HasRow(docs, p) /\ docs[p].content = disk[p]

WalkCurrent ==
    /\ pc = "walk" => \A p \in Paths \ (todo \cup dirty) : walked[p] = disk[p]
    /\ pc \in {"read", "apply"} => \A p \in Paths \ dirty : walked[p] = disk[p]

DraftCurrent ==
    /\ pc \in {"read", "apply"} =>
          \A p \in Paths \ (todo \cup dirty) : UpToDate(draft.docs, p)
    /\ pc = "fill" => \A p \in Paths \ dirty : UpToDate(draft.docs, p)

CacheCurrent ==
    pc \in {"finish", "announce", "done"} =>
        /\ CacheAccepted
        /\ \A p \in Paths \ dirty : UpToDate(db.docs, p)

RootsCurrent == pc \notin {"off", "discover"} /\ ~rootsDirty => extRoots = diskRoots

Current == WalkCurrent /\ DraftCurrent /\ CacheCurrent /\ RootsCurrent

CurrentIn == Typed /\ Faithful /\ Current

\* A step of control that touches neither files nor rows.
LEMMA CurrentFrame ==
    ASSUME Current,
           UNCHANGED <<disk, diskRoots, walked, db, draft, extRoots, todo, history>>,
           \/ pc' = pc
           \/ pc' \in {"off", "discover"}
           \/ /\ pc \notin {"off", "discover"}
              /\ pc' \notin {"walk", "read", "apply", "fill", "finish", "announce", "done"}
           \/ pc \in {"finish", "announce"} /\ pc' \in {"announce", "done"}
    PROVE  Current'
<1>1. WalkCurrent'
  BY DEF Current, WalkCurrent, history
<1>2. DraftCurrent'
  BY DEF Current, DraftCurrent, UpToDate, history
<1>3. CacheCurrent'
  BY DEF Current, CacheCurrent, CacheAccepted, UpToDate, history
<1>4. RootsCurrent'
  BY DEF Current, RootsCurrent, history
<1> QED
  BY <1>1, <1>2, <1>3, <1>4 DEF Current

\* An exception promises nothing about the files.
LEMMA CurrentRaise ==
    ASSUME Current, Raise, UNCHANGED <<env, history>>, pc \notin {"off", "discover"}
    PROVE  Current'
<1>1. pc' \in {"discard", "failed"}
  BY DEF Raise, Goto
<1>2. WalkCurrent' /\ DraftCurrent' /\ CacheCurrent'
  BY <1>1 DEF WalkCurrent, DraftCurrent, CacheCurrent
<1>3. RootsCurrent'
  BY <1>1 DEF Current, RootsCurrent, Raise, env, history
<1> QED
  BY <1>2, <1>3 DEF Current

\* A change of one file is harmless to a running build: the file is dirty.
LEMMA CurrentDisk ==
    ASSUME Typed, Current, NEW p \in Paths, NEW v,
           disk' = [disk EXCEPT ![p] = v],
           dirty' = IF Running THEN dirty \cup {p} ELSE dirty,
           UNCHANGED <<diskRoots, db, builder, rootsDirty>>
    PROVE  Current'
<1>1. CASE ~Running
  BY <1>1 DEF Running, Current, WalkCurrent, DraftCurrent, CacheCurrent, RootsCurrent,
              builder
<1>2. CASE Running
  <2>1. \A q \in Paths \ dirty' : disk'[q] = disk[q] /\ q \notin dirty
    BY <1>2 DEF Typed, TypeOK, EnvType
  <2>2. WalkCurrent'
    BY <2>1 DEF Current, WalkCurrent, builder
  <2>3. DraftCurrent'
    BY <2>1 DEF Current, DraftCurrent, UpToDate, builder
  <2>4. CacheCurrent'
    BY <2>1 DEF Current, CacheCurrent, CacheAccepted, UpToDate, builder
  <2>5. RootsCurrent'
    BY DEF Current, RootsCurrent, builder
  <2> QED
    BY <2>2, <2>3, <2>4, <2>5 DEF Current
<1> QED
  BY <1>1, <1>2

\* Nothing is ready in the initial state.
LEMMA CurrentInit == Init => Current
BY DEF Init, Current, WalkCurrent, DraftCurrent, CacheCurrent, RootsCurrent

\* What changes outside makes its file dirty.
LEMMA CurrentEnvironment == Typed /\ Current /\ Environment => Current'
<1> SUFFICES ASSUME Typed, Current, Environment PROVE Current'
  OBVIOUS
<1>1. ASSUME NEW p \in Paths, Edit(p) PROVE Current'
  BY <1>1, CurrentDisk DEF Edit
<1>2. ASSUME NEW p \in Paths, Remove(p) PROVE Current'
  BY <1>2, CurrentDisk DEF Remove
<1>3. ASSUME NEW r \in Roots, Remanifest(r) PROVE Current'
  <2>1. /\ UNCHANGED <<disk, walked, db, draft, extRoots, todo, pc, fromCache, dirty>>
        /\ pc # "off" => rootsDirty'
    BY <1>3 DEF Remanifest, builder, Running
  <2>2. WalkCurrent'
    BY <2>1 DEF Current, WalkCurrent
  <2>3. DraftCurrent'
    BY <2>1 DEF Current, DraftCurrent, UpToDate
  <2>4. CacheCurrent'
    BY <2>1 DEF Current, CacheCurrent, CacheAccepted, UpToDate
  <2>5. RootsCurrent'
    BY <2>1 DEF RootsCurrent
  <2> QED
    BY <2>2, <2>3, <2>4, <2>5 DEF Current
<1>4. ASSUME NEW state \in {"absent", "damaged", "outdated"}, Tamper(state)
      PROVE  Current'
  <2>1. pc' = "off"
    BY <1>4 DEF Tamper, Running, builder
  <2> QED
    BY <2>1 DEF Current, WalkCurrent, DraftCurrent, CacheCurrent, RootsCurrent
<1>5. ASSUME NEW again \in BOOLEAN, Start(again) PROVE Current'
  <2>1. pc' = "discover"
    BY <1>5 DEF Start, Goto
  <2> QED
    BY <2>1 DEF Current, WalkCurrent, DraftCurrent, CacheCurrent, RootsCurrent
<1>6. CASE Kill
  <2>1. pc' = "off"
    BY <1>6 DEF Kill, Goto
  <2> QED
    BY <2>1 DEF Current, WalkCurrent, DraftCurrent, CacheCurrent, RootsCurrent
<1> QED
  BY <1>1, <1>2, <1>3, <1>4, <1>5, <1>6 DEF Environment

\* close() and search() touch neither walk nor draft.
LEMMA CurrentOtherThreads == Current /\ OtherThreads => Current'
<1> SUFFICES ASSUME Current, OtherThreads PROVE Current'
  OBVIOUS
<1>1. UNCHANGED <<env, db, builder, history>>
  BY DEF OtherThreads, CloseTest, CloseConnection, CloseNull, SearchAdmit, SearchQuery
<1> QED
  BY <1>1, CurrentFrame DEF builder, env

\* An accepted cache has the names of the manifests read.
LEMMA CurrentOpen == Current /\ OpenStep => Current'
<1> SUFFICES ASSUME Current, OpenStep PROVE Current'
  OBVIOUS
<1>1. CASE Discover
  <2>1. pc' = "dispatch"
    BY <1>1 DEF Discover, Goto
  <2>2. RootsCurrent'
    BY <1>1 DEF RootsCurrent, Discover, env
  <2> QED
    BY <2>1, <2>2 DEF Current, WalkCurrent, DraftCurrent, CacheCurrent
<1>2. CASE OpenOrRebuild
  <2>1. \/ pc' = "open"
        \/ pc' = "walk" /\ todo' = Paths
    BY <1>2 DEF OpenOrRebuild, BeginWalk, Goto
  <2>2. WalkCurrent' /\ DraftCurrent' /\ CacheCurrent'
    BY <2>1 DEF WalkCurrent, DraftCurrent, CacheCurrent
  <2>3. RootsCurrent'
    BY <1>2 DEF Current, RootsCurrent, OpenOrRebuild, env, history
  <2> QED
    BY <2>2, <2>3 DEF Current
<1>3. CASE OpenCache
  <2>1. pc = "open" /\ pc' = "check"
    BY <1>3 DEF OpenCache, Goto
  <2> QED
    BY <1>3, <2>1, CurrentFrame DEF OpenCache, env
<1>4. CASE CheckCache /\ CacheAccepted
  <2>1. pc = "check" /\ pc' = "walk" /\ todo' = Paths
    BY <1>4 DEF CheckCache, BeginWalk, Goto
  <2>2. WalkCurrent' /\ DraftCurrent' /\ CacheCurrent'
    BY <2>1 DEF WalkCurrent, DraftCurrent, CacheCurrent
  <2>3. RootsCurrent'
    BY <1>4, <2>1 DEF Current, RootsCurrent, CheckCache, env, history
  <2> QED
    BY <2>2, <2>3 DEF Current
<1>5. CASE CheckCache /\ ~CacheAccepted
  BY <1>5, CurrentRaise DEF CheckCache
<1> QED
  BY <1>1, <1>2, <1>3, <1>4, <1>5 DEF OpenStep

\* The rows other than p's are as they were.
LEMMA OtherRows ==
    ASSUME Typed, NEW p \in Paths, NEW row, draft'.docs = [draft.docs EXCEPT ![p] = row]
    PROVE  /\ draft'.docs[p] = row
           /\ \A q \in Paths : q # p => draft'.docs[q] = draft.docs[q]
BY DEF Typed, TypeOK, BuilderType, Images, Docs

\* One file of a loop over the draft: either its row is now that of the file,
\* or the file could not be read and is dirty.
LEMMA CurrentFile ==
    ASSUME Typed, Current, NEW p \in todo,
           pc \in {"read", "apply"},
           UNCHANGED <<disk, diskRoots, db, pc, extRoots, fromCache, walked, rootsDirty>>,
           todo' = todo \ {p},
           \/ /\ dirty' = dirty
              /\ \E row : /\ draft'.docs = [draft.docs EXCEPT ![p] = row]
                          /\ p \notin dirty => IF disk[p] = NoFile
                                               THEN row = NoRow
                                               ELSE row # NoRow /\ row.content = disk[p]
           \/ dirty' = dirty \cup {p} /\ draft' = draft
    PROVE  Current'
<1>1. p \in Paths
  BY DEF Typed, TypeOK, BuilderType
<1>2. WalkCurrent'
  BY DEF Current, WalkCurrent
<1>3. ASSUME NEW q \in Paths \ (todo' \cup dirty') PROVE UpToDate(draft.docs, q)'
  <2>1. CASE q # p
    <3>1. draft'.docs[q] = draft.docs[q]
      BY <1>1, <2>1, OtherRows
    <3> QED
      BY <1>3, <2>1, <3>1 DEF Current, DraftCurrent, UpToDate, HasRow
  <2>2. CASE q = p
    <3>1. p \notin dirty /\ p \notin dirty'
      BY <1>3, <2>2
    <3>2. PICK row : /\ draft'.docs = [draft.docs EXCEPT ![p] = row]
                     /\ p \notin dirty => IF disk[p] = NoFile
                                          THEN row = NoRow
                                          ELSE row # NoRow /\ row.content = disk[p]
      BY <3>1
    <3>3. draft'.docs[p] = row
      BY <1>1, <3>2, OtherRows
    <3> QED
      BY <2>2, <3>1, <3>2, <3>3 DEF UpToDate, HasRow
  <2> QED
    BY <2>1, <2>2
<1>4. DraftCurrent' /\ CacheCurrent'
  BY <1>3 DEF DraftCurrent, CacheCurrent
<1>5. RootsCurrent'
  BY DEF Current, RootsCurrent
<1> QED
  BY <1>2, <1>4, <1>5 DEF Current

\* Every file handled is current from then on, or dirty.
LEMMA CurrentFiles == Typed /\ Current /\ FileStep => Current'
<1> SUFFICES ASSUME Typed, Current, FileStep PROVE Current'
  OBVIOUS
<1>1. ASSUME NEW p \in Paths, WalkFile(p) PROVE Current'
  <2>1. /\ UNCHANGED <<disk, diskRoots, extRoots, pc, rootsDirty>> /\ pc = "walk"
        /\ todo' = todo \ {p}
    BY <1>1 DEF WalkFile, env
  <2>2. WalkCurrent'
    <3>1. \/ walked' = [walked EXCEPT ![p] = disk[p]] /\ dirty' = dirty
          \/ dirty' = dirty \cup {p} /\ walked' = walked
      BY <1>1 DEF WalkFile
    <3> QED
      BY <2>1, <3>1 DEF Current, WalkCurrent, Typed, TypeOK, BuilderType
  <2>3. DraftCurrent' /\ CacheCurrent'
    BY <2>1 DEF DraftCurrent, CacheCurrent
  <2>4. RootsCurrent'
    BY <2>1 DEF Current, RootsCurrent
  <2> QED
    BY <2>2, <2>3, <2>4 DEF Current
<1>2. ASSUME NEW p \in Paths, ReadOne(p) PROVE Current'
  <2>1. /\ pc = "read" /\ p \in todo /\ todo' = todo \ {p}
        /\ UNCHANGED <<disk, diskRoots, db, pc, extRoots, fromCache, walked, rootsDirty>>
    BY <1>2 DEF ReadOne, env
  <2>2. CASE disk[p] # NoFile /\ draft' = [draft EXCEPT !.docs[p] = RowFor(p)]
                             /\ dirty' = dirty
    <3>1. draft'.docs = [draft.docs EXCEPT ![p] = RowFor(p)]
      BY <2>2 DEF Typed, TypeOK, BuilderType, Images
    <3>2. RowFor(p) # NoRow /\ RowFor(p).content = disk[p]
      <4>1. RowFor(p) \in Row
        BY <2>1, <2>2, TypedNumbers DEF RowFor, Row, Versions, Typed, Phase
      <4> QED
        BY <4>1, SentinelAssumption DEF RowFor
    <3> QED
      BY <2>1, <2>2, <3>1, <3>2, CurrentFile
  <2>3. CASE dirty' = dirty \cup {p} /\ draft' = draft
    BY <2>1, <2>3, CurrentFile
  <2> QED
    BY <1>2, <2>2, <2>3 DEF ReadOne
<1>3. ASSUME NEW p \in Paths, ApplyDeleted(p) PROVE Current'
  <2>1. /\ pc = "apply" /\ p \in todo /\ todo' = todo \ {p} /\ dirty' = dirty
        /\ UNCHANGED <<disk, diskRoots, db, pc, extRoots, fromCache, walked, rootsDirty>>
        /\ draft'.docs = [draft.docs EXCEPT ![p] = NoRow]
    BY <1>3 DEF ApplyDeleted, DeleteRow, env, history
  <2>2. p \notin dirty => disk[p] = NoFile
    BY <1>3, <2>1 DEF Current, WalkCurrent, ApplyDeleted, Deleted
  <2> QED
    BY <2>1, <2>2, CurrentFile
<1>4. ASSUME NEW p \in Paths, ApplyModified(p) PROVE Current'
  <2>1. /\ pc = "apply" /\ p \in todo /\ todo' = todo \ {p}
        /\ UNCHANGED <<disk, diskRoots, db, pc, extRoots, fromCache, walked, rootsDirty>>
    BY <1>4 DEF ApplyModified, env
  <2>2. CASE disk[p] # NoFile /\ draft' = UpdateRow(draft, p) /\ dirty' = dirty
    <3> DEFINE row == [stamp |-> walked[p], content |-> disk[p],
                       named |-> draft.docs[p].named]
    <3>1. draft'.docs = [draft.docs EXCEPT ![p] = row]
      BY <2>2 DEF UpdateRow, Typed, TypeOK, BuilderType, Images, Docs
    <3>2. row # NoRow
      <4>1. HasRow(draft.docs, p)
        BY <1>4, <2>1 DEF ApplyModified, Modified, PathsIn, HasRow, Typed, Phase
      <4>2. draft.docs[p].named \in Roots
        BY <4>1, TypedNumbers DEF HasRow, Docs, Row
      <4>3. row \in Row
        BY <1>4, <2>2, <4>2, TypedNumbers DEF Row, Versions, ApplyModified, Modified
      <4> QED
        BY <4>3, SentinelAssumption
    <3>3. row.content = disk[p]
      OBVIOUS
    <3> HIDE DEF row
    <3> QED
      BY <2>1, <2>2, <3>1, <3>2, <3>3, CurrentFile
  <2>3. CASE dirty' = dirty \cup {p} /\ draft' = draft
    BY <2>1, <2>3, CurrentFile
  <2> QED
    BY <1>4, <2>2, <2>3 DEF ApplyModified
<1>5. ASSUME NEW p \in Paths, ApplyAdded(p) PROVE Current'
  <2>1. /\ pc = "apply" /\ p \in todo /\ todo' = todo \ {p}
        /\ UNCHANGED <<disk, diskRoots, db, pc, extRoots, fromCache, walked, rootsDirty>>
    BY <1>5 DEF ApplyAdded, env
  <2>2. CASE disk[p] # NoFile /\ draft' = InsertRow(draft, p) /\ dirty' = dirty
    <3>1. draft'.docs = [draft.docs EXCEPT ![p] = RowFor(p)]
      BY <2>2 DEF InsertRow
    <3>2. RowFor(p) # NoRow /\ RowFor(p).content = disk[p]
      <4>1. RowFor(p) \in Row
        BY <1>5, <2>1, <2>2, TypedNumbers
        DEF RowFor, Row, Versions, Typed, Phase, ApplyAdded, Added
      <4> QED
        BY <4>1, SentinelAssumption DEF RowFor
    <3> QED
      BY <2>1, <2>2, <3>1, <3>2, CurrentFile
  <2>3. CASE dirty' = dirty \cup {p} /\ draft' = draft
    BY <2>1, <2>3, CurrentFile
  <2> QED
    BY <1>5, <2>2, <2>3 DEF ApplyAdded
<1> QED
  BY <1>1, <1>2, <1>3, <1>4, <1>5 DEF FileStep

\* What the diff leaves alone is as the walk saw it.
LEMMA DiffComplete ==
    ASSUME Typed, Faithful, Current, pc = "walk", todo = {},
           NEW p \in Paths, p \notin dirty,
           p \notin Deleted \cup Modified \cup Added
    PROVE  UpToDate(db.docs, p)
<1>1. walked[p] = disk[p]
  BY DEF Current, WalkCurrent
<1>2. CASE HasRow(db.docs, p)
  <2>1. disk[p] # NoFile /\ db.docs[p].stamp = disk[p]
    BY <1>1, <1>2 DEF Deleted, Modified, PathsIn
  <2>2. db.docs[p].content = disk[p]
    BY <1>2, <2>1, TypedNumbers DEF Faithful, CacheRows, RowBounds
  <2> QED
    BY <1>2, <2>1, <2>2 DEF UpToDate
<1>3. CASE ~HasRow(db.docs, p)
  BY <1>1, <1>3 DEF Added, UpToDate
<1> QED
  BY <1>2, <1>3

\* Diff and transactions lose no file.
LEMMA CurrentBuild == CurrentIn /\ BuildStep => Current'
<1> SUFFICES ASSUME Typed, Faithful, Current, BuildStep PROVE Current'
  BY DEF CurrentIn
<1>1. CASE FullWalkDone /\ Raise
  BY <1>1, CurrentRaise DEF FullWalkDone
<1>2. CASE FullWalkDone /\ ~Raise
  <2>1. /\ pc = "walk" /\ pc' = "read" /\ todo = {} /\ draft = NoDraft
        /\ UNCHANGED <<disk, diskRoots, walked, extRoots, draft, dirty, rootsDirty>>
        /\ todo' = {p \in Paths : walked[p] # NoFile}
    BY <1>2 DEF FullWalkDone, Goto, env, history, Faithful, DraftRows
  <2>2. WalkCurrent'
    BY <2>1 DEF Current, WalkCurrent
  <2>3. \A p \in Paths : ~HasRow(draft'.docs, p)
    BY <2>1 DEF NoDraft, NoRows, HasRow
  <2>4. DraftCurrent' /\ CacheCurrent'
    BY <2>1, <2>3 DEF Current, WalkCurrent, DraftCurrent, CacheCurrent, UpToDate
  <2>5. RootsCurrent'
    BY <2>1 DEF Current, RootsCurrent
  <2> QED
    BY <2>2, <2>4, <2>5 DEF Current
<1>3. CASE CreateSchema /\ db.state = "absent"
  <2>1. /\ pc = "read" /\ todo = {} /\ pc' = "fill"
        /\ UNCHANGED <<disk, diskRoots, extRoots, draft, dirty, rootsDirty>>
    BY <1>3 DEF CreateSchema, Goto, env, history
  <2>2. DraftCurrent'
    BY <2>1 DEF Current, DraftCurrent, UpToDate
  <2>3. WalkCurrent' /\ CacheCurrent' /\ RootsCurrent'
    BY <2>1 DEF Current, WalkCurrent, CacheCurrent, RootsCurrent
  <2> QED
    BY <2>2, <2>3 DEF Current
<1>4. CASE CreateSchema /\ db.state # "absent"
  BY <1>4, CurrentRaise DEF CreateSchema
<1>5. CASE Fill
  <2>1. /\ pc = "fill" /\ pc' = "finish"
        /\ UNCHANGED <<disk, diskRoots, extRoots, dirty, rootsDirty>>
        /\ db'.state = "built" /\ db'.roots = extRoots /\ db'.docs = draft.docs
    BY <1>5 DEF Fill, Goto, env, history
  <2>2. CacheCurrent'
    BY <2>1 DEF Current, DraftCurrent, CacheCurrent, CacheAccepted, UpToDate
  <2>3. WalkCurrent' /\ DraftCurrent' /\ RootsCurrent'
    BY <2>1 DEF Current, WalkCurrent, DraftCurrent, RootsCurrent
  <2> QED
    BY <2>2, <2>3 DEF Current
<1>6. CASE Diff
  <2>1. /\ pc = "walk" /\ todo = {} /\ CacheAccepted
        /\ UNCHANGED <<disk, diskRoots, db, walked, extRoots, dirty, rootsDirty>>
        /\ todo' = Deleted \cup Modified \cup Added
        /\ \/ pc' = "finish" /\ todo' = {}
           \/ pc' = "apply" /\ draft'.docs = db.docs
    BY <1>6 DEF Diff, Goto, env, history, Faithful, DiffOnAccepted
  <2>2. \A p \in Paths \ (todo' \cup dirty) : UpToDate(db.docs, p)
    BY <2>1, DiffComplete
  <2>3. WalkCurrent'
    BY <2>1 DEF Current, WalkCurrent
  <2>4. DraftCurrent'
    BY <2>1, <2>2 DEF DraftCurrent, UpToDate
  <2>5. CacheCurrent'
    BY <2>1, <2>2 DEF CacheCurrent, CacheAccepted, UpToDate
  <2>6. RootsCurrent'
    BY <2>1 DEF Current, RootsCurrent
  <2> QED
    BY <2>3, <2>4, <2>5, <2>6 DEF Current
<1>7. CASE Commit
  <2>1. /\ pc = "apply" /\ pc' = "finish" /\ todo = {} /\ CacheAccepted
        /\ UNCHANGED <<disk, diskRoots, extRoots, dirty, rootsDirty>>
    BY <1>7 DEF Commit, Goto, env, history, Faithful, DiffOnAccepted
  <2>2. db'.state = "built" /\ db'.roots = extRoots /\ db'.docs = draft.docs
    BY <1>7, <2>1 DEF Commit, CacheAccepted, Typed, TypeOK, Databases
  <2>3. CacheCurrent'
    BY <2>1, <2>2 DEF Current, DraftCurrent, CacheCurrent, CacheAccepted, UpToDate
  <2>4. WalkCurrent' /\ DraftCurrent' /\ RootsCurrent'
    BY <2>1 DEF Current, WalkCurrent, DraftCurrent, RootsCurrent
  <2> QED
    BY <2>3, <2>4 DEF Current
<1>8. CASE Finish
  <2>1. pc = "finish" /\ pc' = "announce"
    BY <1>8 DEF Finish, Goto
  <2> QED
    BY <1>8, <2>1, CurrentFrame DEF Finish, env
<1>9. CASE Announce /\ Raise
  BY <1>9, CurrentRaise DEF Announce
<1>10. CASE Announce /\ ~Raise
  <2>1. pc = "announce" /\ pc' = "done"
    BY <1>10 DEF Announce, Goto
  <2> QED
    BY <1>10, <2>1, CurrentFrame DEF Announce, env
<1> QED
  BY <1>1, <1>2, <1>3, <1>4, <1>5, <1>6, <1>7, <1>8, <1>9, <1>10 DEF BuildStep

\* A failure ends the claims about walk and draft.
LEMMA CurrentFailure == Current /\ FailureStep => Current'
<1> SUFFICES ASSUME Current, FailureStep PROVE Current'
  OBVIOUS
<1>1. CASE StatementFails
  BY <1>1, CurrentRaise DEF StatementFails, UsesDatabase
<1>2. CASE SchemaFails
  BY <1>2, CurrentRaise DEF SchemaFails
<1>3. CASE UnlinkFails
  <2>1. pc \in {"unlink", "dispatch"} /\ pc' = "failed"
    BY <1>3 DEF UnlinkFails, Goto
  <2> QED
    BY <1>3, <2>1, CurrentFrame DEF UnlinkFails, env
<1> QED
  BY <1>1, <1>2, <1>3 DEF FailureStep

\* The rebuild after a discard starts without claims.
LEMMA CurrentDiscard == Current /\ DiscardStep => Current'
<1> SUFFICES ASSUME Current, DiscardStep PROVE Current'
  OBVIOUS
<1>1. CASE DiscardTest \/ DiscardClose \/ DiscardNull
  <2>1. /\ UNCHANGED <<disk, diskRoots, walked, db, draft, extRoots, todo, history>>
        /\ pc \in {"discard", "closing", "nulling"}
        /\ pc' \in {"unlink", "closing", "nulling", "failed"}
    BY <1>1 DEF DiscardTest, DiscardClose, DiscardNull, Goto, env
  <2> QED
    BY <2>1, CurrentFrame
<1>2. CASE Unlink
  <2>1. /\ pc = "unlink" /\ pc' = "walk" /\ todo' = Paths
        /\ UNCHANGED <<diskRoots, extRoots, rootsDirty>>
    BY <1>2 DEF Unlink, BeginWalk, Goto, env, history
  <2>2. WalkCurrent' /\ DraftCurrent' /\ CacheCurrent'
    BY <2>1 DEF WalkCurrent, DraftCurrent, CacheCurrent
  <2>3. RootsCurrent'
    BY <2>1 DEF Current, RootsCurrent
  <2> QED
    BY <2>2, <2>3 DEF Current
<1> QED
  BY <1>1, <1>2 DEF DiscardStep

\* Every step keeps walk, draft and cache current.
LEMMA CurrentStep == CurrentIn /\ [Next]_vars => Current'
<1> SUFFICES ASSUME CurrentIn, Typed, Faithful, Current, [Next]_vars PROVE Current'
  BY DEF CurrentIn
<1>1. CASE BuilderStep
  BY <1>1, CurrentOpen, CurrentFiles, CurrentBuild, CurrentFailure, CurrentDiscard
  DEF BuilderStep
<1>2. CASE UNCHANGED vars
  <2>1. UNCHANGED <<disk, diskRoots, walked, db, draft, extRoots, todo, history, pc>>
    BY <1>2 DEF vars, builder, env
  <2> QED
    BY <2>1, CurrentFrame
<1> QED
  BY <1>1, <1>2, CurrentEnvironment, CurrentOtherThreads DEF Next

\* The three layers hold together throughout.
LEMMA CurrentInvariant == Spec => []CurrentIn
<1>1. Init => CurrentIn
  BY TypedInit, FaithfulInit, CurrentInit DEF CurrentIn
<1>2. CurrentIn /\ [Next]_vars => CurrentIn'
  BY TypedStep, FaithfulStep, CurrentStep DEF CurrentIn
<1> QED
  BY <1>1, <1>2, PTL DEF Spec

\* A ready index is the dump as it was when the process started, up to the
\* files and manifests that changed or could not be read since.
THEOREM ReadyIsCurrent == Spec => []ReadyIndexIsCurrent
<1>1. CurrentIn => ReadyIndexIsCurrent
  BY DEF CurrentIn, Faithful, CacheRows, NamedBy, Current, CacheCurrent, RootsCurrent,
         CacheAccepted, UpToDate, ReadyIndexIsCurrent, PathsIn
<1> QED
  BY <1>1, CurrentInvariant, PTL

--------------------------------------------------------------------------------
(* Layer 4: the connection, when only the builder touches it *)

Undisturbed == {"close", "stderr"} \cap Faults = {}

Connected ==
    /\ closer = "idle"
    /\ ready <=> pc \in {"announce", "done"}
    /\ buildError <=> pc = "failed"
    /\ pc \in {"check", "apply", "finish", "announce", "done"} => conn = "open"
    /\ pc = "walk" /\ fromCache => conn = "open"
    /\ pc \in {"read", "fill"} => ~fromCache
    /\ ready => moduleCount = CountDocs(db.docs)
    /\ searcher = "admitted" => ready
    /\ searcher \notin {"assertion failed", "query failed"}

UndisturbedIn == CurrentIn /\ Connected

\* The part of Connected that each step of control has to check.
LEMMA ConnectedSame ==
    ASSUME Connected, UNCHANGED <<ready, moduleCount, closer, searcher, buildError>>,
           db'.docs = db.docs \/ ~ready,
           pc' = pc \/ {pc, pc'} \cap {"announce", "done", "failed"} = {},
           pc' \in {"check", "apply", "finish", "announce", "done"} => conn' = "open",
           pc' = "walk" /\ fromCache' => conn' = "open",
           pc' \notin {"read", "fill"}
    PROVE  Connected'
BY DEF Connected

\* Before it has said ready, the builder may raise: nothing was promised yet.
LEMMA ConnectedRaise ==
    ASSUME Connected, Raise, pc \notin {"announce", "done", "failed"},
           UNCHANGED <<closer, searcher>>
    PROVE  Connected'
<1>1. ~ready /\ ~buildError
  BY DEF Connected
<1>2. /\ ~ready' /\ pc' \in {"discard", "failed"}
      /\ buildError' <=> pc' = "failed"
  BY <1>1 DEF Raise, Goto
<1> QED
  BY <1>1, <1>2 DEF Connected

\* Edits, starts and kills keep the connection of a ready index.
LEMMA ConnectedEnvironment == Typed /\ Connected /\ Environment => Connected'
<1> SUFFICES ASSUME Typed, Connected, Environment PROVE Connected'
  OBVIOUS
<1>1. ASSUME UNCHANGED <<db, builder, shared, closer, searcher>> PROVE Connected'
  BY <1>1 DEF Connected, builder, shared
<1>2. ASSUME NEW p \in Paths, Edit(p) \/ Remove(p) PROVE Connected'
  BY <1>1, <1>2 DEF Edit, Remove
<1>3. ASSUME NEW r \in Roots, Remanifest(r) PROVE Connected'
  BY <1>1, <1>3 DEF Remanifest
<1>4. ASSUME NEW state \in {"absent", "damaged", "outdated"}, Tamper(state)
      PROVE  Connected'
  <2>1. /\ pc = "off" /\ UNCHANGED <<pc, fromCache, conn>>
        /\ UNCHANGED <<ready, moduleCount, closer, searcher, buildError>>
    BY <1>4 DEF Tamper, Running, builder, shared
  <2> QED
    BY <2>1 DEF Connected
<1>5. ASSUME NEW again \in BOOLEAN, Start(again) PROVE Connected'
  <2>1. /\ pc = "off" /\ pc' = "discover"
        /\ UNCHANGED <<ready, moduleCount, closer, searcher, buildError>>
    BY <1>5 DEF Start, Running, Goto, shared
  <2> QED
    BY <2>1 DEF Connected
<1>6. CASE Kill
  <2>1. /\ pc' = "off" /\ ~ready' /\ ~buildError'
        /\ closer' = "idle" /\ searcher' = "idle"
    BY <1>6 DEF Kill, Goto
  <2> QED
    BY <2>1 DEF Connected
<1> QED
  BY <1>2, <1>3, <1>4, <1>5, <1>6 DEF Environment

\* Without close(), a search finds the connection it was promised.
LEMMA ConnectedOtherThreads ==
    ASSUME Undisturbed, Typed, Connected, OtherThreads PROVE Connected'
<1>1. closer = "idle" /\ ~CloseTest /\ ~CloseConnection /\ ~CloseNull
  BY DEF Undisturbed, Connected, CloseTest, CloseConnection, CloseNull
<1>2. CASE SearchAdmit
  <2>1. /\ UNCHANGED <<db, builder, shared, closer>>
        /\ searcher' \in {"admitted", "build failed", "building"}
        /\ searcher' = "admitted" => ready
    BY <1>2 DEF SearchAdmit
  <2> QED
    BY <2>1 DEF Connected, builder, shared
<1>3. CASE SearchQuery
  <2>1. conn = "open"
    BY <1>3 DEF SearchQuery, Connected
  <2>2. UNCHANGED <<db, builder, shared, closer>> /\ searcher' = "answered"
    BY <1>3, <2>1 DEF SearchQuery
  <2> QED
    BY <2>2 DEF Connected, builder, shared
<1> QED
  BY <1>1, <1>2, <1>3 DEF OtherThreads

\* The builder keeps the connection once it has said ready.
LEMMA ConnectedBuilder ==
    ASSUME Undisturbed, Typed, Connected, BuilderStep PROVE Connected'
<1>1. CASE OpenStep
  <2>1. CASE Discover \/ OpenOrRebuild
    <3>1. /\ UNCHANGED <<ready, moduleCount, closer, searcher, buildError>>
          /\ pc \in {"discover", "dispatch"} /\ pc' \in {"dispatch", "open", "walk"}
          /\ pc' = "walk" => ~fromCache'
      BY <2>1 DEF Discover, OpenOrRebuild, BeginWalk, Goto, shared
    <3> QED
      BY <3>1 DEF Connected
  <2>2. CASE OpenCache
    BY <2>2, ConnectedSame DEF OpenCache, Goto
  <2>3. CASE CheckCache /\ CacheAccepted
    BY <2>3, ConnectedSame DEF CheckCache, BeginWalk, Goto, shared
  <2>4. CASE CheckCache /\ ~CacheAccepted
    BY <2>4, ConnectedRaise DEF CheckCache
  <2> QED
    BY <1>1, <2>1, <2>2, <2>3, <2>4 DEF OpenStep
<1>2. CASE FileStep
  <2>1. UNCHANGED <<db, pc, fromCache, shared, closer, searcher>>
    BY <1>2 DEF FileStep, WalkFile, ReadOne, ApplyDeleted, ApplyModified, ApplyAdded
  <2> QED
    BY <2>1 DEF Connected, shared
<1>3. CASE BuildStep
  <2>1. CASE FullWalkDone
    <3>1. /\ UNCHANGED <<ready, moduleCount, closer, searcher, buildError>>
          /\ pc = "walk" /\ pc' = "read" /\ ~fromCache'
      BY <2>1 DEF FullWalkDone, Undisturbed, Goto, shared
    <3> QED
      BY <3>1 DEF Connected
  <2>2. CASE CreateSchema /\ db.state = "absent"
    <3>1. /\ UNCHANGED <<ready, moduleCount, closer, searcher, buildError>>
          /\ pc = "read" /\ pc' = "fill" /\ fromCache' = fromCache
      BY <2>2 DEF CreateSchema, Goto, shared
    <3> QED
      BY <3>1 DEF Connected
  <2>3. CASE CreateSchema /\ db.state # "absent"
    BY <2>3, ConnectedRaise DEF CreateSchema
  <2>4. CASE Fill
    <3>1. /\ UNCHANGED <<ready, moduleCount, closer, searcher, buildError>>
          /\ pc = "fill" /\ pc' = "finish" /\ conn' = "open"
      BY <2>4 DEF Fill, Goto
    <3> QED
      BY <3>1 DEF Connected
  <2>5. CASE Diff \/ Commit
    <3>1. /\ UNCHANGED <<ready, moduleCount, closer, searcher, buildError, conn>>
          /\ pc \in {"walk", "apply"} /\ pc' \in {"finish", "apply"} /\ conn = "open"
      BY <2>5 DEF Diff, Commit, Goto, shared
    <3> QED
      BY <3>1 DEF Connected
  <2>6. CASE Finish
    <3>1. /\ UNCHANGED <<db, closer, searcher, buildError, conn>>
          /\ pc = "finish" /\ pc' = "announce" /\ conn = "open"
          /\ ready' = TRUE /\ moduleCount' = CountDocs(db.docs)
      BY <2>6 DEF Finish, Goto
    <3> QED
      BY <3>1 DEF Connected
  <2>7. CASE Announce
    <3>1. /\ UNCHANGED <<db, closer, searcher, buildError, conn, ready, moduleCount>>
          /\ pc = "announce" /\ pc' = "done"
      BY <2>7 DEF Announce, Undisturbed, Goto, shared
    <3> QED
      BY <3>1 DEF Connected
  <2> QED
    BY <1>3, <2>1, <2>2, <2>3, <2>4, <2>5, <2>6, <2>7 DEF BuildStep
<1>4. CASE FailureStep
  <2>1. CASE StatementFails
    BY <2>1, ConnectedRaise DEF StatementFails, UsesDatabase
  <2>2. CASE SchemaFails
    BY <2>2, ConnectedRaise DEF SchemaFails
  <2>3. CASE UnlinkFails
    <3>1. /\ UNCHANGED <<db, closer, searcher, conn, ready, moduleCount>>
          /\ pc \in {"unlink", "dispatch"} /\ pc' = "failed" /\ buildError' = TRUE
      BY <2>3 DEF UnlinkFails, Goto
    <3> QED
      BY <3>1 DEF Connected
  <2> QED
    BY <1>4, <2>1, <2>2, <2>3 DEF FailureStep
<1>5. CASE DiscardStep
  <2>1. CASE DiscardTest \/ DiscardNull
    <3>1. /\ UNCHANGED <<closer, searcher, buildError, ready, moduleCount>>
          /\ pc \in {"discard", "nulling"} /\ pc' \in {"unlink", "closing"}
      BY <2>1 DEF DiscardTest, DiscardNull, Goto, shared
    <3> QED
      BY <3>1 DEF Connected
  <2>2. CASE DiscardClose
    <3>1. pc = "closing" /\ ~ready /\ ~buildError
      BY <2>2 DEF DiscardClose, Connected
    <3>2. /\ UNCHANGED <<closer, searcher>> /\ ~ready'
          /\ pc' \in {"failed", "nulling"} /\ (buildError' <=> pc' = "failed")
      BY <2>2, <3>1 DEF DiscardClose, Goto
    <3> QED
      BY <3>1, <3>2 DEF Connected
  <2>3. CASE Unlink
    <3>1. /\ UNCHANGED <<closer, searcher, buildError, ready, moduleCount>>
          /\ pc = "unlink" /\ pc' = "walk" /\ ~fromCache'
      BY <2>3 DEF Unlink, BeginWalk, Goto, shared
    <3> QED
      BY <3>1 DEF Connected
  <2> QED
    BY <1>5, <2>1, <2>2, <2>3 DEF DiscardStep
<1> QED
  BY <1>1, <1>2, <1>3, <1>4, <1>5 DEF BuilderStep

\* Without close() and print errors, the connection layer holds throughout.
LEMMA ConnectedInvariant ==
    ASSUME Undisturbed PROVE Spec => []UndisturbedIn
<1>1. Init => UndisturbedIn
  BY TypedInit, FaithfulInit, CurrentInit
  DEF UndisturbedIn, CurrentIn, Init, Connected
<1>2. UndisturbedIn /\ [Next]_vars => UndisturbedIn'
  <2> SUFFICES ASSUME CurrentIn, Connected, [Next]_vars PROVE UndisturbedIn'
    BY DEF UndisturbedIn
  <2>1. CurrentIn'
    BY TypedStep, FaithfulStep, CurrentStep DEF CurrentIn
  <2>2. ASSUME UNCHANGED vars PROVE Connected'
    <3>1. UNCHANGED <<db, pc, fromCache, conn, ready, buildError, moduleCount,
                      closer, searcher>>
      BY <2>2 DEF vars, builder, shared
    <3> QED
      BY <3>1 DEF Connected
  <2>3. Connected'
    BY <2>2, ConnectedEnvironment, ConnectedOtherThreads, ConnectedBuilder
    DEF Next, CurrentIn
  <2> QED
    BY <2>1, <2>3 DEF UndisturbedIn
<1> QED
  BY <1>1, <1>2, PTL DEF Spec

\* When neither close() nor the progress print disturbs the builder, ready
\* promises a connection and a committed index, and no search fails its assert.
THEOREM ReadyIsWhole == ASSUME Undisturbed PROVE Spec => []ReadyHasWholeIndex
<1>1. UndisturbedIn => ReadyHasWholeIndex
  BY DEF UndisturbedIn, CurrentIn, Current, CacheCurrent, CacheAccepted, Connected,
         ReadyHasWholeIndex
<1> QED
  BY <1>1, ConnectedInvariant, PTL

--------------------------------------------------------------------------------
(* Layer 5: what leads to the removal of the cache *)

SoundDatabase == {"sqlite", "close", "stderr"} \cap Faults = {}

DiscardsBroken ==
    pc \in {"discard", "closing", "nulling", "unlink"} => ~CacheAccepted

DiscardsIn == UndisturbedIn /\ DiscardsBroken

\* Only a cache that was not accepted is on its way to removal.
LEMMA DiscardsStep ==
    ASSUME SoundDatabase, DiscardsIn, [Next]_vars PROVE DiscardsBroken'
<1>1. Typed /\ Connected /\ DiscardsBroken /\ Undisturbed
  BY DEF DiscardsIn, UndisturbedIn, CurrentIn, SoundDatabase, Undisturbed
<1>2. ASSUME pc' \notin {"discard", "closing", "nulling", "unlink"} PROVE DiscardsBroken'
  BY <1>2 DEF DiscardsBroken
<1>3. ASSUME UNCHANGED <<db, extRoots>>,
             pc \in {"discard", "closing", "nulling", "unlink"} \/ ~CacheAccepted
      PROVE  DiscardsBroken'
  BY <1>1, <1>3 DEF DiscardsBroken, CacheAccepted
<1>4. ASSUME UNCHANGED <<db, builder>> PROVE DiscardsBroken'
  BY <1>1, <1>4 DEF DiscardsBroken, CacheAccepted, builder
<1>5. CASE Environment
  <2>1. CASE Kill \/ \E again \in BOOLEAN : Start(again)
    BY <1>2, <2>1 DEF Kill, Start, Goto
  <2>2. CASE \E state \in {"absent", "damaged", "outdated"} : Tamper(state)
    BY <1>2, <2>2 DEF Tamper, Running, builder
  <2>3. CASE \/ \E p \in Paths : Edit(p) \/ Remove(p)
             \/ \E r \in Roots : Remanifest(r)
    BY <1>4, <2>3 DEF Edit, Remove, Remanifest
  <2> QED
    BY <1>5, <2>1, <2>2, <2>3 DEF Environment
<1>6. CASE OtherThreads
  BY <1>4, <1>6
  DEF OtherThreads, CloseTest, CloseConnection, CloseNull, SearchAdmit, SearchQuery
<1>7. CASE OpenStep
  <2>1. CASE CheckCache /\ ~CacheAccepted
    BY <1>3, <2>1 DEF CheckCache, Raise
  <2>2. CASE Discover \/ OpenOrRebuild \/ OpenCache \/ (CheckCache /\ CacheAccepted)
    BY <1>2, <2>2 DEF Discover, OpenOrRebuild, OpenCache, CheckCache, BeginWalk, Goto
  <2> QED
    BY <1>7, <2>1, <2>2 DEF OpenStep
<1>8. CASE FileStep
  <2>1. pc \in {"walk", "read", "apply"} /\ pc' = pc
    BY <1>8 DEF FileStep, WalkFile, ReadOne, ApplyDeleted, ApplyModified, ApplyAdded
  <2> QED
    BY <1>2, <2>1
<1>9. CASE BuildStep
  <2>1. CASE CreateSchema
    <3>1. pc = "read" /\ ~fromCache
      BY <1>1, <2>1 DEF CreateSchema, Connected
    <3>2. CASE db.state = "absent"
      BY <1>2, <2>1, <3>2 DEF CreateSchema, Goto
    <3>3. CASE db.state # "absent"
      BY <1>2, <2>1, <3>1, <3>3 DEF CreateSchema, Raise, Goto
    <3> QED
      BY <3>2, <3>3
  <2>2. CASE FullWalkDone \/ Announce
    BY <1>1, <1>2, <2>2 DEF FullWalkDone, Announce, Undisturbed, Goto
  <2>3. CASE Fill \/ Diff \/ Commit \/ Finish
    BY <1>2, <2>3 DEF Fill, Diff, Commit, Finish, Goto
  <2> QED
    BY <1>9, <2>1, <2>2, <2>3 DEF BuildStep
<1>10. CASE FailureStep
  <2>1. CASE UnlinkFails
    BY <1>2, <2>1 DEF UnlinkFails, Goto
  <2>2. ~StatementFails /\ ~SchemaFails
    BY <1>1 DEF StatementFails, SchemaFails, UsesDatabase, SoundDatabase, Connected
  <2> QED
    BY <1>10, <2>1, <2>2 DEF FailureStep
<1>11. CASE DiscardStep
  <2>1. CASE Unlink
    BY <1>2, <2>1 DEF Unlink, BeginWalk, Goto
  <2>2. CASE DiscardTest \/ DiscardClose \/ DiscardNull
    BY <1>3, <2>2 DEF DiscardTest, DiscardClose, DiscardNull
  <2> QED
    BY <1>11, <2>1, <2>2 DEF DiscardStep
<1>12. CASE UNCHANGED vars
  BY <1>4, <1>12 DEF vars
<1> QED
  BY <1>5, <1>6, <1>7, <1>8, <1>9, <1>10, <1>11, <1>12 DEF Next, BuilderStep

\* With a sound database file and nobody closing the connection or stderr, the
\* builder never deletes a cache it could have used.
THEOREM OnlyBrokenCacheIsDiscarded ==
    ASSUME SoundDatabase PROVE Spec => DiscardsOnlyBrokenCache
<1>1. Undisturbed
  BY DEF SoundDatabase, Undisturbed
<1>2. Spec => []UndisturbedIn
  BY <1>1, ConnectedInvariant
<1>3. Init => DiscardsBroken
  BY DEF Init, DiscardsBroken
<1>4. UndisturbedIn /\ DiscardsBroken /\ [Next]_vars => DiscardsBroken'
  BY DiscardsStep DEF DiscardsIn
<1>5. DiscardsBroken => [pc = "unlink" /\ pc' = "walk" => ~CacheAccepted]_vars
  BY DEF DiscardsBroken
<1> QED
  BY <1>2, <1>3, <1>4, <1>5, PTL DEF Spec, DiscardsOnlyBrokenCache

================================================================================
