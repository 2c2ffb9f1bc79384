---------------------------- MODULE InstallerProofs ----------------------------
(***************************************************************************)
(* Whatever DESIGNER answers, a normal return of install() means that the  *)
(* database runs the copy patched last, and the note about the role is     *)
(* given exactly when it is needed; that the chain of retries cures what   *)
(* it knows; and that what the command says of a dump is true of the       *)
(* directory.                                                              *)
(***************************************************************************)
EXTENDS Installer, DumpExport, TLAPS

\* DefaultRoles is one of the inherited properties.
HasRoles(c) == "inherited" \in c.parts

Updating == {"update", "update again"}

\* A load that succeeded was the load of the copy as it is.
LoadedIsCopy ==
    /\ pc = "chain" /\ error = {} => stored = copy
    /\ pc \in Updating => stored = copy
    /\ pc = "installed" => stored = copy /\ applied = copy

\* The inherited properties are gone without a note only while the load or the
\* update that will raise the note, or fail, is still to come.
NoteFollows ==
    /\ (pc = "retry" /\ step = 5) \/ pc \in {"reload", "update again"}
          => ~HasRoles(copy)
    /\ note => ~HasRoles(copy)
    /\ ~note /\ ~HasRoles(copy) =>
          \/ pc = "retry" /\ step = 5
          \/ pc = "chain" /\ step = 6 /\ error # {}
          \/ pc \in {"idle", "failed", "reload", "update again"}

\* A patch is made in the chain only.
RetryInChain == pc = "retry" => step \in 1 .. 5

IInv == TypeOK /\ LoadedIsCopy /\ NoteFollows /\ RetryInChain

--------------------------------------------------------------------------------
(* The parts of the installer keep their types *)

\* Stripping parts leaves a copy.
LEMMA StripType ==
    ASSUME NEW c \in Copies, NEW parts
    PROVE  Strip(c, parts) \in Copies /\ Strip(c, parts).parts = c.parts \ parts
BY DEF Strip, Copies

\* Every patch of the chain leaves a copy.
LEMMA PatchedType ==
    ASSUME copy \in Copies, NEW i \in 1 .. 5
    PROVE  /\ Patched(i) \in Copies
           /\ HasRoles(Patched(i)) <=> i # 5 /\ HasRoles(copy)
<1>1. CASE i = 1
  BY <1>1, StripType DEF Patched, HasRoles
<1>2. CASE i = 2
  BY <1>2, StripType DEF Patched, HasRoles
<1>3. CASE i = 3
  BY <1>3 DEF Patched, Copies, Modes, HasRoles
<1>4. CASE i = 4
  BY <1>4 DEF Patched, Copies, Modes, HasRoles
<1>5. CASE i = 5
  BY <1>5, StripType DEF Patched, StripInherited, HasRoles
<1> QED
  BY <1>1, <1>2, <1>3, <1>4, <1>5

\* The other error texts are texts, and not empty.
LEMMA OtherType == \A text \in OtherErrors : text \subseteq Phrases /\ text # {}
BY DEF OtherErrors, Phrases

\* Recording an error text keeps the types.
LEMMA RefusedType ==
    ASSUME NEW text, text \subseteq Phrases, text # {}, Refused(text)
    PROVE  error' \subseteq Phrases /\ error' # {} /\ foreign' \in BOOLEAN
<1>1. foreign' \in BOOLEAN
  BY Zenon DEF Refused
<1> QED
  BY <1>1 DEF Refused

\* A load ends in a type-correct state, with or without an error.
LEMMA LoadType ==
    ASSUME TypeOK, Load
    PROVE  /\ stored' \in Copies \cup Marks
           /\ applied' = applied
           /\ error' \subseteq Phrases
           /\ foreign' \in BOOLEAN
           /\ error' = {} => stored' = copy
<1>1. ASSUME NEW text \in OtherErrors \cup Told(Objections), text # {}, Refused(text)
      PROVE  error' \subseteq Phrases /\ error' # {} /\ foreign' \in BOOLEAN
  <2>1. text \subseteq Phrases
    BY OtherType DEF Told, Objections, Phrases, Late, TypeOK, Copies, Parts
  <2> QED
    BY <1>1, <2>1, RefusedType
<1>5. applied' = applied
  BY DEF Load
<1>2. CASE Objections = {} /\ stored' = copy /\ error' = {} /\ UNCHANGED foreign
  BY <1>2, <1>5 DEF TypeOK
<1>3. CASE (\E text \in OtherErrors \cup Told(Objections) : text # {} /\ Refused(text))
           /\ UNCHANGED stored
  BY <1>1, <1>3, <1>5 DEF TypeOK
<1>4. CASE HalfLoaded
  <2>1. PICK text \in OtherErrors : Refused(text)
    BY <1>4 DEF HalfLoaded
  <2> QED
    BY <1>1, <1>4, <1>5, <2>1, OtherType DEF HalfLoaded, Marks
<1> QED
  BY <1>2, <1>3, <1>4 DEF Load

\* An update ends in a type-correct state.
LEMMA UpdateType ==
    ASSUME TypeOK, Update
    PROVE  /\ stored' = stored
           /\ applied' \in Copies \cup Marks
           /\ error' \subseteq Phrases
           /\ foreign' \in BOOLEAN
           /\ error' = {} => applied' = stored
<1>1. ASSUME NEW text \in OtherErrors \cup {ObjectionsToUpdate}, text # {}, Refused(text)
      PROVE  error' \subseteq Phrases /\ error' # {} /\ foreign' \in BOOLEAN
  <2>1. text \subseteq Phrases
    BY OtherType DEF ObjectionsToUpdate, Late, Phrases
  <2> QED
    BY <1>1, <2>1, RefusedType
<1>2. CASE applied' = stored /\ error' = {} /\ UNCHANGED foreign
  BY <1>2 DEF TypeOK, Update
<1>3. CASE ObjectionsToUpdate # {} /\ Refused(ObjectionsToUpdate) /\ UNCHANGED applied
  BY <1>1, <1>3 DEF TypeOK, Update
<1>4. CASE (\E text \in OtherErrors : Refused(text)) /\ UNCHANGED applied
  BY <1>1, <1>4, OtherType DEF TypeOK, Update
<1> QED
  BY <1>2, <1>3, <1>4 DEF Update

--------------------------------------------------------------------------------
(* The inductive invariant *)

\* The inductive invariant holds before the first run.
LEMMA IInvInit == Init => IInv
<1> SUFFICES ASSUME Init PROVE IInv
  OBVIOUS
<1>1. Source \in Copies /\ HasRoles(Source)
  BY DEF Source, Copies, Modes, Parts, HasRoles
<1>2. TypeOK
  <2>1. note \in BOOLEAN /\ foreign \in BOOLEAN
    BY DEF Init
  <2>2. stored \in Marks /\ applied \in Marks
    BY DEF Init, Marks
  <2> QED
    BY <1>1, <2>1, <2>2 DEF Init, TypeOK, Phrases
<1>3. LoadedIsCopy /\ NoteFollows /\ RetryInChain
  BY <1>1 DEF Init, LoadedIsCopy, NoteFollows, RetryInChain, Updating
<1> QED
  BY <1>2, <1>3 DEF IInv

\* Every step of a run keeps the inductive invariant.
LEMMA IInvStep == IInv /\ [Next]_vars => IInv'
<1> SUFFICES ASSUME IInv, [Next]_vars PROVE IInv'
  OBVIOUS
<1> USE DEF IInv, Goto, world, onec
<1>1. CASE Prepare
  <2>1. Source \in Copies /\ HasRoles(Source)
    BY DEF Source, Copies, Modes, Parts, HasRoles
  <2>2. Prepatched \in Copies /\ ~HasRoles(Prepatched)
    BY DEF Prepatched, Copies, Modes, HasRoles
  <2>3. TypeOK'
    <3>1. note' \in BOOLEAN /\ foreign' \in BOOLEAN
      BY <1>1 DEF Prepare
    <3>2. copy' \in Copies
      BY <1>1, <2>1, <2>2 DEF Prepare, TypeOK
    <3>3. pc' \in {"load", "failed"} /\ step' = 1 /\ error' = {}
      BY <1>1 DEF Prepare
    <3>4. UNCHANGED <<version, base, reporting, stored, applied>>
      BY <1>1 DEF Prepare
    <3>5. version' \in Versions /\ base' \in Bases /\ reporting' \in {"all", "some"}
      BY <3>4 DEF TypeOK
    <3>6. {stored', applied'} \subseteq Copies \cup Marks
      BY <3>4 DEF TypeOK
    <3>7. step' \in 1 .. 6 /\ error' \subseteq Phrases
      BY <3>3
    <3> QED
      BY <3>1, <3>2, <3>3, <3>5, <3>6, <3>7, Zenon DEF TypeOK
  <2>4. LoadedIsCopy'
    BY <1>1 DEF Prepare, LoadedIsCopy, Updating
  <2>5. NoteFollows'
    BY <1>1, <2>1, <2>2 DEF Prepare, NoteFollows
  <2> QED
    BY <1>1, <2>3, <2>4, <2>5 DEF Prepare, RetryInChain
<1>2. CASE LoadFirst \/ LoadAgain
  <2>1. TypeOK'
    BY <1>2, LoadType DEF LoadFirst, LoadAgain, TypeOK
  <2>2. LoadedIsCopy'
    BY <1>2, LoadType DEF LoadFirst, LoadAgain, LoadedIsCopy, Updating
  <2>3. NoteFollows'
    <3>1. UNCHANGED <<note, copy>> /\ (note \/ HasRoles(copy)) /\ pc' \in {"delete", "chain"}
      BY <1>2 DEF LoadFirst, LoadAgain, NoteFollows
    <3> QED
      BY <3>1 DEF NoteFollows, HasRoles
  <2> QED
    BY <1>2, <2>1, <2>2, <2>3 DEF LoadFirst, LoadAgain, RetryInChain
<1>3. CASE Delete
  <2>1. error' \subseteq Phrases /\ foreign' \in BOOLEAN /\ stored' \in Copies \cup Marks
    BY <1>3 DEF Delete, Refused, OtherErrors, Phrases, TypeOK, Marks
  <2>2. TypeOK'
    BY <1>3, <2>1 DEF Delete, TypeOK
  <2>3. LoadedIsCopy' /\ NoteFollows'
    BY <1>3 DEF Delete, LoadedIsCopy, NoteFollows, Updating
  <2> QED
    BY <1>3, <2>2, <2>3 DEF Delete, RetryInChain
<1>4. CASE Patch
  <2>1. step \in 1 .. 5 /\ error # {}
    BY <1>4 DEF Patch, Applies, TypeOK
  <2>2. TypeOK'
    BY <1>4, <2>1, PatchedType DEF Patch, TypeOK
  <2>3. LoadedIsCopy'
    BY <1>4 DEF Patch, LoadedIsCopy, Updating
  <2>4. NoteFollows'
    BY <1>4, <2>1, PatchedType DEF Patch, NoteFollows, TypeOK
  <2> QED
    BY <1>4, <2>1, <2>2, <2>3, <2>4 DEF Patch, RetryInChain
<1>5. CASE Retry
  <2>1. step \in 1 .. 5
    BY <1>5 DEF Retry, RetryInChain
  <2>2. TypeOK'
    BY <1>5, <2>1, LoadType DEF Retry, TypeOK
  <2>3. LoadedIsCopy'
    BY <1>5, LoadType DEF Retry, LoadedIsCopy, Updating
  <2>4. NoteFollows'
    <3>1. copy' = copy /\ pc' = "chain" /\ step' = step + 1
      BY <1>5 DEF Retry
    <3>2. note' <=> note \/ (step = 5 /\ error' = {})
      BY <1>5 DEF Retry
    <3>3. note' => ~HasRoles(copy)
      BY <1>5, <3>2 DEF Retry, NoteFollows
    <3>4. ~note' /\ ~HasRoles(copy) => step' = 6 /\ error' # {}
      BY <1>5, <2>1, <3>1, <3>2 DEF Retry, NoteFollows
    <3> QED
      BY <3>1, <3>3, <3>4 DEF NoteFollows, HasRoles
  <2> QED
    BY <1>5, <2>2, <2>3, <2>4 DEF Retry, RetryInChain
<1>6. CASE Skip
  <2>1. TypeOK'
    BY <1>6 DEF Skip, TypeOK
  <2>2. LoadedIsCopy' /\ NoteFollows' /\ RetryInChain'
    BY <1>6 DEF Skip, LoadedIsCopy, NoteFollows, RetryInChain, Updating, TypeOK
  <2> QED
    BY <2>1, <2>2
<1>7. CASE EndChain
  <2>1. TypeOK'
    BY <1>7 DEF EndChain, TypeOK
  <2>2. LoadedIsCopy' /\ NoteFollows' /\ RetryInChain'
    BY <1>7 DEF EndChain, LoadedIsCopy, NoteFollows, RetryInChain, Updating
  <2> QED
    BY <2>1, <2>2
<1>8. CASE UpdateFirst
  <2>1. /\ copy' \in Copies
        /\ IF pc' = "reload" THEN ~HasRoles(copy') ELSE copy' = copy
        /\ pc' \in {"installed", "failed", "reload"}
    BY <1>8, StripType DEF UpdateFirst, StripInherited, TypeOK, HasRoles
  <2>2. TypeOK'
    BY <1>8, <2>1, UpdateType DEF UpdateFirst, TypeOK
  <2>3. LoadedIsCopy'
    BY <1>8, UpdateType DEF UpdateFirst, LoadedIsCopy, Updating
  <2>4. NoteFollows' /\ RetryInChain'
    BY <1>8, <2>1 DEF UpdateFirst, NoteFollows, RetryInChain
  <2> QED
    BY <2>2, <2>3, <2>4
<1>9. CASE Reload
  <2>1. TypeOK'
    BY <1>9, LoadType DEF Reload, TypeOK
  <2>2. LoadedIsCopy'
    BY <1>9, LoadType DEF Reload, LoadedIsCopy, Updating
  <2>3. NoteFollows' /\ RetryInChain'
    BY <1>9 DEF Reload, NoteFollows, RetryInChain
  <2> QED
    BY <2>1, <2>2, <2>3
<1>10. CASE UpdateAgain
  <2>1. TypeOK'
    BY <1>10, UpdateType DEF UpdateAgain, TypeOK
  <2>2. LoadedIsCopy'
    BY <1>10, UpdateType DEF UpdateAgain, LoadedIsCopy, Updating
  <2>3. NoteFollows' /\ RetryInChain'
    <3>1. copy' = copy /\ pc' \in {"installed", "failed"}
      BY <1>10 DEF UpdateAgain
    <3>2. note' <=> note \/ error' = {}
      BY <1>10 DEF UpdateAgain
    <3> QED
      BY <1>10, <3>1, <3>2 DEF UpdateAgain, NoteFollows, RetryInChain, HasRoles
  <2> QED
    BY <2>1, <2>2, <2>3
<1>11. CASE Kill
  <2>1. TypeOK'
    BY <1>11 DEF Kill, TypeOK
  <2>2. LoadedIsCopy' /\ NoteFollows' /\ RetryInChain'
    BY <1>11 DEF Kill, LoadedIsCopy, NoteFollows, RetryInChain, Updating
  <2> QED
    BY <2>1, <2>2
<1>12. CASE UNCHANGED vars
  BY <1>12 DEF vars, TypeOK, LoadedIsCopy, NoteFollows, RetryInChain, Updating
<1> QED
  BY <1>1, <1>2, <1>3, <1>4, <1>5, <1>6, <1>7, <1>8, <1>9, <1>10, <1>11, <1>12 DEF Next

\* The inductive invariant holds throughout.
LEMMA IInvInvariant == Spec => []IInv
BY IInvInit, IInvStep, PTL DEF Spec

--------------------------------------------------------------------------------
(* The invariants *)

\* Every variable keeps its type, whatever DESIGNER answers.
THEOREM TypeCorrect == Spec => []TypeOK
BY IInvInvariant, PTL DEF IInv

\* After a normal return the database runs exactly the copy patched last, given that
\* _DESIGNER_FATAL_LOG_RE knows the messages of a half-done load (see Installer).
THEOREM InstalledCopyRuns == Spec => []InstalledIsApplied
<1>1. IInv => InstalledIsApplied
  BY DEF IInv, LoadedIsCopy, InstalledIsApplied
<1> QED
  BY <1>1, IInvInvariant, PTL

\* The note about the role is given exactly when the copy lost DefaultRoles.
THEOREM NoteIsGiven == Spec => []NoteWhenRolesDropped
<1>1. IInv => NoteWhenRolesDropped
  BY DEF IInv, NoteFollows, NoteWhenRolesDropped, HasRoles, TypeOK
<1> QED
  BY <1>1, IInvInvariant, PTL

--------------------------------------------------------------------------------
(* What is cured *)

\* The platform does not object to what Init says it takes.
WorldIsFit ==
    /\ version = "8.3.15" => "elements" \notin base.refuses
    /\ version = "8.3.10" => "own" \notin base.modes

\* The base takes the copy: it may still refuse inherited properties at the update.
Agreeing == copy.parts \cap base.refuses \subseteq Late /\ copy.compat \in base.modes

\* Nothing that an earlier step of the chain takes out is objected to, and a mode
\* is left only for one that comes later in the chain.
Cured(s) ==
    /\ s > 1 => "elements" \notin copy.parts \cap base.refuses
    /\ s > 2 => "runmode" \notin copy.parts \cap base.refuses
    /\ s > 5 => "inherited" \notin (copy.parts \cap base.refuses) \ Late
    /\ copy.compat # "own" => "own" \notin base.modes
    /\ copy.compat = "DontUse" => "8_3_10" \notin base.modes
    /\ s <= 3 => copy.compat # "DontUse"
    /\ s > 3 /\ copy.compat \notin base.modes => copy.compat # "own"
    /\ s > 4 /\ copy.compat \notin base.modes => copy.compat = "DontUse"

\* No extension in the base can be in the way of a load.
NoneInTheWay == stored = None \/ ~base.keeps

\* DESIGNER names all its reasons and has none of its own.
Frank == reporting = "all" /\ ~foreign /\ version # "8.3.9"

CureInv ==
    /\ pc \in {"load", "delete", "again"} => step = 1 /\ Cured(1)
    /\ pc = "again" => stored = None
    /\ pc = "retry" => Cured(step + 1) /\ NoneInTheWay
    /\ pc = "chain" /\ error # {} => Cured(step) /\ error = Objections /\ NoneInTheWay
    /\ pc = "chain" /\ error = {} => Agreeing
    /\ pc = "update" => error = {} /\ Agreeing
    /\ pc = "reload" => base.late /\ Agreeing
    /\ pc = "failed" => base.modes = {} \/ (base.keeps /\ base.late)

KnownInv == IInv /\ WorldIsFit /\ (Frank => CureInv)

\* What DESIGNER objects to, phrase by phrase.
LEMMA ObjectionsFact ==
    ASSUME TypeOK
    PROVE  /\ "exists" \in Objections <=> stored # None /\ base.keeps
           /\ "compat" \in Objections <=> copy.compat \notin base.modes
           /\ "elements" \in Objections <=> "elements" \in copy.parts \cap base.refuses
           /\ "runmode" \in Objections <=> "runmode" \in copy.parts \cap base.refuses
           /\ "inherited" \in Objections <=> "inherited" \in (copy.parts \cap base.refuses) \ Late
           /\ Objections \subseteq {"exists", "compat", "elements", "runmode", "inherited"}
<1>1. copy.parts \subseteq {"elements", "runmode", "inherited"} /\ Late \subseteq {"inherited"}
  BY DEF TypeOK, Copies, Parts, Late
<1> HIDE DEF Late
<1> QED
  BY <1>1 DEF Objections

\* A copy the base takes meets at most an extension that is already there.
LEMMA AgreeingFact ==
    ASSUME TypeOK
    PROVE  /\ Objections = {} => Agreeing
           /\ Agreeing => Objections \subseteq {"exists"}
           /\ Agreeing /\ NoneInTheWay => Objections = {}
<1> HIDE DEF Late
<1>1. Objections = {} => Agreeing
  BY ObjectionsFact DEF Agreeing, Objections
<1>2. Agreeing => Objections \subseteq {"exists"}
  BY DEF Agreeing, Objections
<1> QED
  BY <1>1, <1>2, ObjectionsFact DEF NoneInTheWay

\* A load that tells the truth: the objections are the error.
LEMMA FrankLoad ==
    ASSUME TypeOK, Load, Frank', UNCHANGED world
    PROVE  /\ Frank
           /\ \/ Objections = {} /\ stored' = copy /\ error' = {}
              \/ Objections # {} /\ error' = Objections /\ stored' = stored
<1>1. reporting' = reporting /\ version' = version /\ reporting = "all" /\ ~foreign' /\ version # "8.3.9"
  BY DEF Frank, world
<1>2. Told(Objections) = {Objections}
  BY <1>1 DEF Told
<1>3. ASSUME NEW text, Refused(text) PROVE ~foreign /\ "other" \notin text /\ error' = text
  BY <1>1, <1>3, Zenon DEF Refused
<1>4. \A text \in OtherErrors : "other" \in text
  BY DEF OtherErrors
<1>5. ~HalfLoaded
  BY <1>3, <1>4 DEF HalfLoaded
<1>6. ~foreign
  BY <1>1, <1>2, <1>3, <1>5 DEF Load
<1> QED
  BY <1>1, <1>2, <1>3, <1>4, <1>5, <1>6 DEF Load, Frank

\* An update that tells the truth.
LEMMA FrankUpdate ==
    ASSUME TypeOK, Update, Frank', UNCHANGED world
    PROVE  Frank /\ error' = ObjectionsToUpdate
<1>1. reporting' = reporting /\ version' = version /\ reporting = "all" /\ ~foreign' /\ version # "8.3.9"
  BY DEF Frank, world
<1>2. ASSUME NEW text, Refused(text) PROVE ~foreign /\ "other" \notin text /\ error' = text
  BY <1>1, <1>2, Zenon DEF Refused
<1>3. \A text \in OtherErrors : "other" \in text
  BY DEF OtherErrors
<1>4. ~foreign
  BY <1>1, <1>2 DEF Update
<1> QED
  BY <1>1, <1>2, <1>3, <1>4 DEF Update, Frank

\* A patch takes out what it is for, and puts nothing back.
LEMMA PatchCures ==
    ASSUME TypeOK, step \in 1 .. 5, Cured(step), Chain[step] \in Objections,
           copy' = Patched(step), base' = base, step' = step
    PROVE  Cured(step + 1)'
<1> USE DEF Cured, Chain, Patched
<1>1. /\ "compat" \in Objections <=> copy.compat \notin base.modes
      /\ copy \in Copies /\ copy.compat \in {"own", "8_3_10", "DontUse"} /\ Late' = Late
  BY ObjectionsFact DEF TypeOK, Copies, Modes, Late
<1> HIDE DEF Late
<1>2. CASE step = 1
  <2>1. copy'.parts = copy.parts \ {"elements"} /\ copy'.compat = copy.compat
    BY <1>1, <1>2, StripType DEF Strip, Copies
  <2> QED
    BY <1>1, <1>2, <2>1
<1>3. CASE step = 2
  <2>1. copy'.parts = copy.parts \ {"runmode"} /\ copy'.compat = copy.compat
    BY <1>1, <1>3, StripType DEF Strip, Copies
  <2> QED
    BY <1>1, <1>3, <2>1
<1>4. CASE step = 3
  <2>1. copy'.parts = copy.parts /\ copy'.compat = "8_3_10"
    BY <1>1, <1>4 DEF Copies
  <2> QED
    BY <1>1, <1>4, <2>1
<1>5. CASE step = 4
  <2>1. copy'.parts = copy.parts /\ copy'.compat = "DontUse"
    BY <1>1, <1>5 DEF Copies
  <2> QED
    BY <1>1, <1>5, <2>1
<1>6. CASE step = 5
  <2>1. copy'.parts = copy.parts \ {"inherited", "runmode"} /\ copy'.compat = copy.compat
    BY <1>1, <1>6, StripType DEF Strip, StripInherited, Copies
  <2> QED
    BY <1>1, <1>6, <2>1
<1> QED
  BY <1>2, <1>3, <1>4, <1>5, <1>6

\* A step that does not apply had nothing to take out.
LEMMA SkipCures ==
    ASSUME TypeOK, WorldIsFit, Frank, step \in 1 .. 5, Cured(step), ~Applies(step), error = Objections
    PROVE  Cured(step + 1)
<1> USE DEF Cured, Chain, Applies
<1>1. /\ "compat" \in Objections <=> copy.compat \notin base.modes
      /\ "elements" \in Objections <=> "elements" \in copy.parts \cap base.refuses
      /\ "runmode" \in Objections <=> "runmode" \in copy.parts \cap base.refuses
      /\ "inherited" \in Objections <=> "inherited" \in (copy.parts \cap base.refuses) \ Late
      /\ copy.compat \in {"own", "8_3_10", "DontUse"}
  BY ObjectionsFact DEF TypeOK, Copies, Modes
<1> HIDE DEF Late
<1>2. CASE step = 1
  <2>1. ~StripAllowed => "elements" \notin base.refuses
    BY DEF StripAllowed, WorldIsFit, Frank, TypeOK, Versions
  <2> QED
    BY <1>1, <1>2, <2>1
<1>3. CASE step = 2
  BY <1>1, <1>3
<1>4. CASE step = 3
  BY <1>1, <1>4
<1>5. CASE step = 4
  BY <1>1, <1>5
<1>6. CASE step = 5
  BY <1>1, <1>6
<1> QED
  BY <1>2, <1>3, <1>4, <1>5, <1>6

\* The invariant of the cures holds before the first run.
LEMMA KnownInit == Init => KnownInv
<1> SUFFICES ASSUME Init PROVE KnownInv
  OBVIOUS
<1>1. WorldIsFit /\ pc = "idle"
  BY DEF Init, WorldIsFit
<1> QED
  BY <1>1, IInvInit DEF KnownInv, CureInv

\* One load: where it ends when DESIGNER is frank.
LEMMA LoadCures ==
    ASSUME TypeOK, Load, Frank', UNCHANGED <<world, copy>>
    PROVE  /\ Frank
           /\ error' = {} => Agreeing'
           /\ error' # {} => error' = Objections /\ error' = Objections' /\ stored' = stored
<1>1. copy' = copy /\ base' = base
  BY DEF world
<1>2. UNCHANGED world
  OBVIOUS
<1>3. /\ Frank
      /\ \/ Objections = {} /\ stored' = copy /\ error' = {}
         \/ Objections # {} /\ error' = Objections /\ stored' = stored
  BY <1>2, FrankLoad
<1>4. Agreeing => Agreeing'
  BY <1>1 DEF Agreeing, Late
<1>5. stored' = stored => Objections' = Objections /\ NoneInTheWay' = NoneInTheWay
  BY <1>1 DEF Objections, NoneInTheWay, Late
<1> QED
  BY <1>3, <1>4, <1>5, AgreeingFact

\* Every step of a run keeps it.
LEMMA KnownStep == KnownInv /\ [Next]_vars => KnownInv'
<1> SUFFICES ASSUME KnownInv, [Next]_vars, Frank' PROVE CureInv'
  <2>1. ASSUME KnownInv, [Next]_vars PROVE IInv' /\ WorldIsFit'
    <3>1. IInv'
      BY <2>1, IInvStep DEF KnownInv
    <3>2. world' = world
      BY <2>1 DEF Next, vars, Prepare, LoadFirst, Delete, LoadAgain, Patch, Retry, Skip,
                  EndChain, UpdateFirst, Reload, UpdateAgain, Kill
    <3> QED
      BY <2>1, <3>1, <3>2 DEF KnownInv, WorldIsFit, world
  <2> QED
    BY <2>1 DEF KnownInv
<1> USE DEF KnownInv, IInv, Goto
<1>1. TypeOK /\ WorldIsFit /\ IInv
  OBVIOUS
<1>2. CASE Prepare
  <2>1. version # "8.3.9"
    BY <1>2 DEF Prepare, Frank, world
  <2>2. /\ pc' = "load" /\ step' = 1 /\ base' = base
        /\ copy' = IF version = "8.3.10" THEN Prepatched ELSE Source
    BY <1>2, <2>1 DEF Prepare, world
  <2>3. Cured(1)'
    BY <1>1, <2>2 DEF Cured, Prepatched, Source, WorldIsFit
  <2> QED
    BY <2>2, <2>3 DEF CureInv
<1>3. CASE LoadFirst
  <2>1. /\ Load /\ UNCHANGED <<world, copy>> /\ pc = "load" /\ step' = step /\ copy' = copy /\ base' = base
        /\ pc' = IF "exists" \in error' THEN "delete" ELSE "chain"
    BY <1>3 DEF LoadFirst, world
  <2>2. /\ Frank
        /\ error' = {} => Agreeing'
        /\ error' # {} => error' = Objections /\ error' = Objections' /\ stored' = stored
    BY <1>1, <2>1, LoadCures
  <2>3. step = 1 /\ Cured(1) /\ Cured(1)'
    BY <2>1, <2>2 DEF CureInv, Cured, Late
  <2>4. error' # {} /\ "exists" \notin error' => NoneInTheWay'
    BY <1>1, <2>1, <2>2, ObjectionsFact DEF NoneInTheWay
  <2> QED
    BY <2>1, <2>2, <2>3, <2>4 DEF CureInv
<1>4. CASE Delete
  <2>1. /\ pc = "delete" /\ step' = step /\ copy' = copy /\ base' = base
        /\ \/ stored' = None /\ pc' = "again" /\ foreign' = foreign
           \/ \E text \in OtherErrors : Refused(text)
        /\ version' = version /\ reporting' = reporting
    BY <1>4 DEF Delete, world
  <2>2. ~ \E text \in OtherErrors : Refused(text)
    <3>1. ASSUME NEW text, Refused(text) PROVE "other" \notin text
      BY <3>1, Zenon DEF Refused, Frank
    <3> QED
      BY <3>1 DEF OtherErrors
  <2>3. Frank
    BY <2>1, <2>2 DEF Frank
  <2>4. step = 1 /\ Cured(1) /\ Cured(1)'
    BY <2>1, <2>3 DEF CureInv, Cured, Late
  <2> QED
    BY <2>1, <2>2, <2>4 DEF CureInv
<1>5. CASE LoadAgain
  <2>1. /\ Load /\ UNCHANGED <<world, copy>> /\ pc = "again" /\ step' = step /\ copy' = copy
        /\ base' = base /\ pc' = "chain"
    BY <1>5 DEF LoadAgain, world
  <2>2. /\ Frank
        /\ error' = {} => Agreeing'
        /\ error' # {} => error' = Objections /\ error' = Objections' /\ stored' = stored
    BY <1>1, <2>1, LoadCures
  <2>3. step = 1 /\ Cured(1) /\ Cured(1)' /\ stored = None
    BY <2>1, <2>2 DEF CureInv, Cured, Late
  <2>4. error' # {} => NoneInTheWay'
    BY <2>2, <2>3 DEF NoneInTheWay
  <2> QED
    BY <2>1, <2>2, <2>3, <2>4 DEF CureInv
<1>6. CASE Patch
  <2>1. /\ pc = "chain" /\ step <= 5 /\ Chain[step] \in error /\ copy' = Patched(step)
        /\ pc' = "retry" /\ step' = step /\ base' = base /\ stored' = stored /\ foreign' = foreign
        /\ version' = version /\ reporting' = reporting
    BY <1>6 DEF Patch, Applies, world, onec
  <2>2. Frank /\ step \in 1 .. 5
    BY <2>1 DEF Frank, TypeOK
  <2>3. Cured(step) /\ error = Objections /\ NoneInTheWay
    BY <2>1, <2>2 DEF CureInv
  <2>4. Cured(step + 1)'
    BY <1>1, <2>1, <2>2, <2>3, PatchCures
  <2>5. NoneInTheWay'
    BY <2>1, <2>3 DEF NoneInTheWay
  <2> QED
    BY <2>1, <2>4, <2>5 DEF CureInv
<1>7. CASE Retry
  <2>1. /\ Load /\ UNCHANGED <<world, copy>> /\ pc = "retry" /\ step' = step + 1 /\ copy' = copy
        /\ base' = base /\ pc' = "chain"
    BY <1>7 DEF Retry, world
  <2>2. /\ Frank
        /\ error' = {} => Agreeing'
        /\ error' # {} => error' = Objections /\ error' = Objections' /\ stored' = stored
    BY <1>1, <2>1, LoadCures
  <2>3. Cured(step + 1) /\ NoneInTheWay
    BY <2>1, <2>2 DEF CureInv
  <2>4. Cured(step)'
    BY <2>1, <2>3 DEF Cured, Late
  <2>5. error' # {} => NoneInTheWay'
    BY <2>1, <2>2, <2>3 DEF NoneInTheWay
  <2> QED
    BY <2>1, <2>2, <2>4, <2>5 DEF CureInv
<1>8. CASE Skip
  <2>1. /\ pc = "chain" /\ step <= 5 /\ ~Applies(step) /\ step' = step + 1 /\ pc' = pc /\ copy' = copy
        /\ error' = error /\ base' = base /\ stored' = stored /\ foreign' = foreign
        /\ version' = version /\ reporting' = reporting
    BY <1>8 DEF Skip, world, onec
  <2>2. Frank /\ step \in 1 .. 5
    BY <2>1 DEF Frank, TypeOK
  <2>3. CASE error = {}
    <3>1. Agreeing
      BY <2>1, <2>2, <2>3 DEF CureInv
    <3>2. Agreeing'
      BY <2>1, <3>1 DEF Agreeing, Late
    <3> QED
      BY <2>1, <2>3, <3>2 DEF CureInv
  <2>4. CASE error # {}
    <3>1. Cured(step) /\ error = Objections /\ NoneInTheWay
      BY <2>1, <2>2, <2>4 DEF CureInv
    <3>2. Cured(step + 1)
      BY <1>1, <2>1, <2>2, <3>1, SkipCures
    <3>3. Cured(step)'
      BY <2>1, <3>2 DEF Cured, Late
    <3>4. Objections' = Objections /\ NoneInTheWay'
      BY <2>1, <3>1 DEF Objections, NoneInTheWay, Late
    <3> QED
      BY <2>1, <2>4, <3>1, <3>3, <3>4 DEF CureInv
  <2> QED
    BY <2>3, <2>4
<1>9. CASE EndChain
  <2>1. /\ pc = "chain" /\ step > 5 /\ pc' = (IF error = {} THEN "update" ELSE "failed")
        /\ copy' = copy /\ error' = error /\ base' = base /\ foreign' = foreign
        /\ version' = version /\ reporting' = reporting
    BY <1>9 DEF EndChain, world
  <2>2. Frank /\ step = 6
    BY <2>1 DEF Frank, TypeOK
  <2>3. CASE error = {}
    <3>1. Agreeing
      BY <2>1, <2>2, <2>3 DEF CureInv
    <3>2. Agreeing'
      BY <2>1, <3>1 DEF Agreeing, Late
    <3> QED
      BY <2>1, <2>3, <3>2 DEF CureInv
  <2>4. CASE error # {}
    <3>1. Cured(6) /\ error = Objections /\ NoneInTheWay
      BY <2>1, <2>2, <2>4 DEF CureInv
    <3>2. copy.compat \notin base.modes
      BY <1>1, <2>4, <3>1, ObjectionsFact DEF Cured, NoneInTheWay
    <3>3. \A mode \in Modes : mode \notin base.modes
      BY <3>1, <3>2 DEF Cured, Modes
    <3>4. base.modes = {}
      BY <3>3 DEF TypeOK, Bases
    <3> QED
      BY <2>1, <2>4, <3>4 DEF CureInv
  <2> QED
    BY <2>3, <2>4
<1>10. CASE UpdateFirst
  <2>1. /\ Update /\ UNCHANGED world /\ pc = "update" /\ base' = base
        /\ IF error' = {} THEN pc' = "installed" /\ copy' = copy
           ELSE IF "inherited" \in error' THEN pc' = "reload" /\ copy' = StripInherited(copy)
           ELSE pc' = "failed" /\ copy' = copy
    BY <1>10 DEF UpdateFirst, world
  <2>2. Frank /\ error' = ObjectionsToUpdate
    BY <1>1, <2>1, FrankUpdate
  <2>3. Agreeing
    BY <2>1, <2>2 DEF CureInv
  <2>4. error' # {} => "inherited" \in error' /\ base.late
    BY <2>2 DEF ObjectionsToUpdate, Late
  <2>5. CASE error' = {}
    BY <2>1, <2>5 DEF CureInv
  <2>6. CASE error' # {}
    <3>1. /\ StripInherited(copy).parts \subseteq copy.parts
          /\ StripInherited(copy).compat = copy.compat
      BY DEF StripInherited, Strip, TypeOK, Copies
    <3>2. Agreeing'
      BY <2>1, <2>3, <2>4, <2>6, <3>1 DEF Agreeing, Late
    <3> QED
      BY <2>1, <2>4, <2>6, <3>2 DEF CureInv
  <2> QED
    BY <2>5, <2>6
<1>11. CASE Reload
  <2>1. /\ Load /\ UNCHANGED <<world, copy>> /\ pc = "reload" /\ base' = base
        /\ pc' = IF error' = {} THEN "update again" ELSE "failed"
    BY <1>11 DEF Reload, world
  <2>2. Frank /\ (error' # {} => error' = Objections)
    BY <1>1, <2>1, LoadCures
  <2>3. base.late /\ Agreeing
    BY <2>1, <2>2 DEF CureInv
  <2>4. error' # {} => base.keeps
    BY <1>1, <2>2, <2>3, AgreeingFact DEF NoneInTheWay
  <2> QED
    BY <2>1, <2>3, <2>4 DEF CureInv
<1>12. CASE UpdateAgain
  <2>1. /\ Update /\ UNCHANGED world /\ pc = "update again"
        /\ pc' = IF error' = {} THEN "installed" ELSE "failed"
    BY <1>12 DEF UpdateAgain
  <2>2. error' = ObjectionsToUpdate
    BY <1>1, <2>1, FrankUpdate
  <2>3. "inherited" \notin copy.parts
    BY <2>1 DEF NoteFollows, HasRoles
  <2>4. error' = {}
    BY <2>2, <2>3 DEF ObjectionsToUpdate, Late
  <2> QED
    BY <2>1, <2>4 DEF CureInv
<1>13. CASE Kill
  BY <1>13 DEF Kill, CureInv
<1>14. CASE UNCHANGED vars
  <2>1. UNCHANGED <<version, base, reporting, stored, applied, pc, copy, error, step, note, foreign>>
    BY <1>14 DEF vars, world, onec
  <2>2. Frank /\ CureInv
    BY <2>1 DEF Frank
  <2> QED
    BY <2>1, <2>2 DEF CureInv, Cured, Agreeing, NoneInTheWay, Objections, Late
<1> QED
  BY <1>2, <1>3, <1>4, <1>5, <1>6, <1>7, <1>8, <1>9, <1>10, <1>11, <1>12, <1>13, <1>14 DEF Next

\* install(): if DESIGNER tells all its reasons at once and has none the chain does
\* not know, the chain cures them, whatever parts the base and its platform refuse and
\* in whichever combination, but for the exceptions KnownErrorsAreCured names.
THEOREM ChainCures == Spec => []KnownErrorsAreCured
<1>1. KnownInv => KnownErrorsAreCured
  BY DEF KnownInv, CureInv, Frank, KnownErrorsAreCured
<1>2. Spec => []KnownInv
  BY KnownInit, KnownStep, PTL DEF Spec
<1> QED
  BY <1>1, <1>2, PTL

--------------------------------------------------------------------------------
(* dump(): what it takes *)

\* None of the names that are asked for and accepted is the name of a standard
\* directory. (The code compares the spelling as it is.)
ApartFromBase == \A n \in Asked \ RejectedNames : Fold[n] \notin StandardDirs

\* How far the command is.
ExportOrder ==
    /\ stage = "stopped" <=> code # "none"
    /\ stage # "stopped" => runs \in 1 .. MaxRuns
    /\ stage \in {"export all", "next"} => command = All
    /\ stage = "list" => command # All
    /\ stage \in {"install", "base", "export all"} => report = NoReport
    /\ stage = "next" => todo \cup report.done \cup report.failed = extensions
    /\ stage \in {"install", "base", "list"} /\ command # All =>
          /\ todo \cup report.done \cup report.failed = Distinct(command)
          /\ todo \cap RejectedNames = {}
    /\ report.done \subseteq Asked
    /\ command = All => report.done \cap RejectedNames = {}

\* What is reported as done is there.
DoneIsThere ==
    \A n \in report.done : IF command = All THEN out[Fold[n]] = Whole(Fold[n], runs)
                                            ELSE Whole(Fold[n], runs) \subseteq out[Fold[n]]

ExportInv == ExportTypeOK /\ ExportOrder /\ DoneIsThere

\* Two spellings of one name are not asked for.
LEMMA DistinctFact ==
    ASSUME NEW names \in Requests, names # All
    PROVE  /\ Distinct(names) \subseteq ExtNames
           /\ \A n, m \in Distinct(names) : Fold[n] = Fold[m] => n = m
           /\ names = NoExtensions => Distinct(names) = {}
           /\ (~ \E i \in DOMAIN names : names[i] \in RejectedNames)
                 => Distinct(names) \cap RejectedNames = {}
<1> DEFINE kept == {k \in DOMAIN names : \A j \in DOMAIN names : j > k => Fold[names[j]] # Fold[names[k]]}
<1>1. CASE names = NoExtensions
  BY <1>1 DEF NoExtensions, Distinct
<1>2. ASSUME NEW n \in ExtNames, names = <<n>>
      PROVE  DOMAIN names = {1} /\ names[1] = n
  BY <1>2
<1>3. ASSUME NEW n \in ExtNames, NEW m \in ExtNames, names = <<n, m>>
      PROVE  DOMAIN names = {1, 2} /\ names[1] = n /\ names[2] = m
  BY <1>3
<1>4. DOMAIN names \subseteq Nat /\ \A i \in DOMAIN names : names[i] \in ExtNames
  <2>1. \/ names = NoExtensions
        \/ \E n \in ExtNames : names = <<n>>
        \/ \E n, m \in ExtNames : names = <<n, m>>
    BY DEF Requests
  <2>2. CASE names = NoExtensions
    BY <2>2 DEF NoExtensions
  <2> QED
    BY <1>2, <1>3, <2>1, <2>2
<1>5. Distinct(names) = {names[i] : i \in kept}
  BY DEF Distinct
<1>6. ASSUME NEW i \in kept, NEW j \in kept, Fold[names[i]] = Fold[names[j]] PROVE i = j
  BY <1>4, <1>6
<1>7. \A n, m \in Distinct(names) : Fold[n] = Fold[m] => n = m
  BY <1>5, <1>6
<1> QED
  BY <1>1, <1>4, <1>5, <1>7

\* A whole export fits a directory.
LEMMA WholeType ==
    ASSUME NEW owner \in Owners, NEW r \in 1 .. MaxRuns
    PROVE  Whole(owner, r) \in SUBSET Items
  BY DEF Whole, Items

\* Every extension has its directory.
LEMMA FoldType ==
    ASSUME NEW n \in ExtNames
    PROVE  Fold[n] \in Dirs /\ Fold[n] \in Owners
  BY DEF Dirs, Owners

\* Of the names that are asked for no two have one directory.
LEMMA AskedFact ==
    ASSUME ExportTypeOK
    PROVE  Asked \subseteq ExtNames /\ \A n, m \in Asked : Fold[n] = Fold[m] => n = m
<1>1. CASE command = All
  BY <1>1 DEF Asked, ExportTypeOK, Bases1C
<1>2. CASE command # All
  BY <1>2, DistinctFact DEF Asked, ExportTypeOK
<1> QED
  BY <1>1, <1>2

\* The empty report is a report.
LEMMA NoReportType ==
    /\ NoReport \in [done : SUBSET ExtNames, failed : SUBSET ExtNames]
    /\ NoReport.done = {} /\ NoReport.failed = {}
  BY DEF NoReport

\* main() starts a command or refuses its names.
LEMMA CommandStep ==
    ASSUME ExportInv, Command
    PROVE  ExportInv' /\ stage' \in {"stopped", "install"} /\ code' # "0"
<1>1. /\ runs' = runs + 1 /\ runs < MaxRuns /\ command' \in Requests /\ extensions' \in Bases1C
      /\ report' = NoReport /\ tmp' = {} /\ out' = out
  BY DEF Command
<1>2. runs' \in 1 .. MaxRuns /\ runs' \in 0 .. MaxRuns
  <2>1. runs \in 0 .. MaxRuns
    BY DEF ExportInv, ExportTypeOK
  <2> QED
    BY <1>1, <2>1, ExportAssumption
<1>3. /\ report' \in [done : SUBSET ExtNames, failed : SUBSET ExtNames]
      /\ report'.done = {} /\ report'.failed = {}
  BY <1>1, NoReportType
<1>4. command' = NoExtensions => command' # All
  BY DEF NoExtensions, All
<1>5. /\ todo' \subseteq ExtNames
      /\ \/ stage' = "install" /\ code' = "none"
         \/ stage' = "stopped" /\ code' = "1"
      /\ command' # All => todo' = Distinct(command')
      /\ command' # All /\ stage' = "install" => todo' \cap RejectedNames = {}
  <2>1. CASE command' \in {All, NoExtensions}
    <3>1. todo' = {} /\ stage' = "install" /\ code' = "none"
      BY <2>1 DEF Command
    <3>2. command' = NoExtensions => Distinct(command') = {}
      BY <1>1, <1>4, DistinctFact
    <3> QED
      BY <2>1, <3>1, <3>2
  <2>2. CASE command' \notin {All, NoExtensions}
    <3>1. /\ todo' = Distinct(command')
          /\ IF \E i \in DOMAIN command' : command'[i] \in RejectedNames
             THEN stage' = "stopped" /\ code' = "1" ELSE stage' = "install" /\ code' = "none"
      BY <2>2 DEF Command, Exit
    <3>2. /\ Distinct(command') \subseteq ExtNames
          /\ (~ \E i \in DOMAIN command' : command'[i] \in RejectedNames)
                 => Distinct(command') \cap RejectedNames = {}
      BY <1>1, <2>2, DistinctFact
    <3> QED
      BY <3>1, <3>2
  <2> QED
    BY <2>1, <2>2
<1>6. ExportTypeOK'
  <2>1. out' \in [Dirs -> SUBSET Items]
    BY <1>1 DEF ExportInv, ExportTypeOK
  <2> QED
    BY <1>1, <1>2, <1>3, <1>5, <2>1 DEF ExportTypeOK
<1>7. ExportOrder'
  BY <1>1, <1>2, <1>3, <1>5 DEF ExportOrder
<1>8. DoneIsThere'
  BY <1>3 DEF DoneIsThere
<1> QED
  BY <1>5, <1>6, <1>7, <1>8 DEF ExportInv

\* A step that leaves command, report, todo and directories alone.
LEMMA MoveStep ==
    ASSUME ExportInv, UNCHANGED <<extensions, command, runs, out, todo, report>>,
           tmp' \subseteq ExtNames, stage # "stopped",
           \/ stage' = "stopped" /\ code' \in {"0", "1", "killed"}
           \/ stage = "install" /\ stage' = "base" /\ UNCHANGED code
    PROVE  ExportInv'
<1> USE DEF ExportInv
<1>1. /\ extensions' = extensions /\ command' = command /\ runs' = runs
      /\ out' = out /\ todo' = todo /\ report' = report
  OBVIOUS
<1>2. stage' \in {"stopped", "base"} /\ code' \in {"none", "0", "1", "killed"}
  BY DEF ExportTypeOK
<1>3. ExportTypeOK'
  BY <1>1, <1>2 DEF ExportTypeOK
<1>4. Asked' = Asked
  BY <1>1 DEF Asked, Distinct
<1>5. ExportOrder'
  BY <1>1, <1>4 DEF ExportOrder, Distinct
<1>6. DoneIsThere'
  BY <1>1 DEF DoneIsThere, Whole
<1> QED
  BY <1>3, <1>5, <1>6

\* The export of the configuration fills the standard directories, or ends the command.
LEMMA BaseStep ==
    ASSUME ExportInv, ExportBase
    PROVE  /\ ExportInv' /\ UNCHANGED <<extensions, command, runs>> /\ code' # "0"
           /\ stage' # "stopped" => \A d \in StandardDirs : Whole("base", runs) \subseteq out'[d]
<1>1. /\ stage = "base" /\ extensions' = extensions /\ command' = command /\ runs' = runs
      /\ tmp' = tmp /\ todo' = todo /\ report' = report
  BY DEF ExportBase
<1>2. runs \in 1 .. MaxRuns /\ report = NoReport /\ report.done = {} /\ report.failed = {}
  BY <1>1, NoReportType DEF ExportInv, ExportOrder
<1>3. out \in [Dirs -> SUBSET Items] /\ code \in {"none", "1"}
  BY <1>1 DEF ExportInv, ExportTypeOK, ExportOrder
<1>4. Whole("base", runs) \in SUBSET Items /\ StandardDirs \subseteq Dirs
  BY <1>2, WholeType DEF Owners, Dirs
<1>5. ASSUME NEW clears \in BOOLEAN,
             out' = [d \in Dirs |-> IF d \in StandardDirs
                                    THEN Exported(out[d], "base", clears) ELSE out[d]]
      PROVE  /\ out' \in [Dirs -> SUBSET Items]
             /\ \A d \in StandardDirs : Whole("base", runs) \subseteq out'[d]
  <2>1. \A d \in Dirs : Exported(out[d], "base", clears) \in SUBSET Items
                        /\ Whole("base", runs) \subseteq Exported(out[d], "base", clears)
    BY <1>3, <1>4 DEF Exported
  <2> QED
    BY <1>3, <1>4, <1>5, <2>1
<1>6. ASSUME NEW d \in StandardDirs, NEW content \in HalfExported(out[d], "base"),
             out' = [out EXCEPT ![d] = content]
      PROVE  out' \in [Dirs -> SUBSET Items]
  <2>1. content \in SUBSET Items
    BY <1>3, <1>4 DEF HalfExported
  <2> QED
    BY <1>3, <1>4, <1>6, <2>1
<1>7. /\ out' \in [Dirs -> SUBSET Items]
      /\ \/ /\ stage' = (IF command = All THEN "export all" ELSE "list") /\ code' = code
            /\ \A d \in StandardDirs : Whole("base", runs) \subseteq out'[d]
         \/ stage' = "stopped" /\ code' = "1"
  BY <1>5, <1>6 DEF ExportBase, Exit
<1>8. ExportTypeOK'
  BY <1>1, <1>3, <1>7 DEF ExportInv, ExportTypeOK
<1>9. Asked' = Asked
  BY <1>1 DEF Asked, Distinct
<1>10. ExportOrder'
  BY <1>1, <1>7, <1>9 DEF ExportInv, ExportOrder, Distinct
<1>11. DoneIsThere'
  BY <1>1, <1>2 DEF DoneIsThere
<1>12. code' # "0"
  BY <1>1, <1>7 DEF ExportInv, ExportOrder
<1> QED
  BY <1>1, <1>7, <1>8, <1>10, <1>11, <1>12 DEF ExportInv

\* -AllExtensions writes to the temporary directory only.
LEMMA AllStep ==
    ASSUME ExportInv, ExportAll
    PROVE  ExportInv' /\ UNCHANGED <<extensions, command, runs, out>> /\ code' # "0"
<1>1. /\ stage = "export all" /\ extensions' = extensions /\ command' = command /\ runs' = runs
      /\ out' = out /\ report' = report
      /\ \/ tmp' = extensions /\ todo' = extensions /\ stage' = "next" /\ code' = code
         \/ stage' = "stopped" /\ code' = "1" /\ tmp' = tmp /\ todo' = todo
  BY DEF ExportAll, Exit
<1>2. command = All /\ report = NoReport /\ report.done = {} /\ report.failed = {}
  BY <1>1, NoReportType DEF ExportInv, ExportOrder
<1>3. ExportTypeOK'
  BY <1>1, <1>2 DEF ExportInv, ExportTypeOK, Bases1C
<1>4. Asked' = Asked
  BY <1>1 DEF Asked, Distinct
<1>5. ExportOrder'
  BY <1>1, <1>2, <1>4 DEF ExportInv, ExportOrder, Distinct
<1>6. DoneIsThere'
  BY <1>1, <1>2 DEF DoneIsThere
<1>7. code' # "0"
  BY <1>1 DEF ExportInv, ExportOrder
<1> QED
  BY <1>1, <1>3, <1>5, <1>6, <1>7 DEF ExportInv

\* The name n is settled: done, with its directory, or failed; or move itself
\* fails and ends the command.
LEMMA SettleStep ==
    ASSUME ExportInv, NEW n \in todo, todo' = todo \ {n},
           UNCHANGED <<extensions, command, runs>>, tmp' \subseteq ExtNames,
           NEW content \in SUBSET Items, out' = [out EXCEPT ![Fold[n]] = content],
           stage \in {"next", "list"},
           \/ /\ UNCHANGED <<stage, code>>
              /\ report' = [report EXCEPT !.done = report.done \cup {n}]
              /\ IF command = All THEN content = Whole(Fold[n], runs) /\ n \notin RejectedNames
                                  ELSE Whole(Fold[n], runs) \subseteq content
           \/ /\ UNCHANGED <<stage, code>>
              /\ report' = [report EXCEPT !.failed = report.failed \cup {n}]
           \/ stage' = "stopped" /\ code' = "1" /\ UNCHANGED report
    PROVE  ExportInv' /\ code' # "0"
<1> USE DEF ExportInv
<1>1. /\ n \in ExtNames /\ Fold[n] \in Dirs /\ out \in [Dirs -> SUBSET Items]
      /\ n \notin report.done \cup report.failed /\ n \in Asked /\ report.done \subseteq Asked
  BY FoldType DEF ExportTypeOK, ExportOrder, Asked
<1>2. /\ extensions' = extensions /\ command' = command /\ runs' = runs /\ Asked' = Asked
  BY DEF Asked, Distinct
<1>3. \A m \in report.done : out'[Fold[m]] = out[Fold[m]]
  BY <1>1, AskedFact, FoldType
<1>4. /\ report' \in [done : SUBSET ExtNames, failed : SUBSET ExtNames]
      /\ \/ stage' = stage /\ code' = code /\ report'.done = report.done \cup {n}
            /\ report'.failed = report.failed
            /\ IF command = All THEN content = Whole(Fold[n], runs) /\ n \notin RejectedNames
                                ELSE Whole(Fold[n], runs) \subseteq content
         \/ stage' = stage /\ code' = code /\ report'.done = report.done
            /\ report'.failed = report.failed \cup {n}
         \/ stage' = "stopped" /\ code' = "1" /\ report' = report
  BY <1>1 DEF ExportTypeOK
<1>5. ExportTypeOK'
  <2>1. out' \in [Dirs -> SUBSET Items]
    BY <1>1
  <2>2. /\ report'.done \cap report'.failed = {}
        /\ todo' \cap (report'.done \cup report'.failed) = {}
    BY <1>1, <1>4 DEF ExportTypeOK
  <2>3. stage' \in {"stopped", "next", "list"} /\ code' \in {"none", "0", "1", "killed"}
    BY <1>4 DEF ExportTypeOK
  <2> QED
    BY <1>1, <1>2, <1>4, <2>1, <2>2, <2>3 DEF ExportTypeOK
<1>6. ExportOrder'
  <2>1. stage' # "stopped" => todo' \cup report'.done \cup report'.failed
                                  = todo \cup report.done \cup report.failed
    BY <1>4
  <2>2. /\ report'.done \subseteq Asked'
        /\ command = All => report'.done \cap RejectedNames = {}
    BY <1>1, <1>2, <1>4 DEF ExportOrder
  <2>3. code = "none" /\ runs \in 1 .. MaxRuns
    BY DEF ExportOrder
  <2>4. /\ stage = "next" => command = All /\ todo \cup report.done \cup report.failed = extensions
        /\ stage = "list" => /\ command # All /\ todo \cap RejectedNames = {}
                             /\ todo \cup report.done \cup report.failed = Distinct(command)
    BY DEF ExportOrder
  <2>5. CASE stage' = stage /\ code' = code
    <3>1. /\ stage' = "next" => todo' \cup report'.done \cup report'.failed = extensions'
          /\ stage' = "list" => todo' \cup report'.done \cup report'.failed = Distinct(command')
          /\ todo' \subseteq todo /\ stage' \in {"next", "list"}
      BY <1>2, <2>1, <2>4, <2>5
    <3>2. stage' = "list" => command' # All /\ todo' \cap RejectedNames = {}
      BY <1>2, <2>4, <2>5, <3>1
    <3>3. stage' = "next" => command' = All
      BY <1>2, <2>4, <2>5
    <3> QED
      BY <1>2, <2>2, <2>3, <2>5, <3>1, <3>2, <3>3 DEF ExportOrder
  <2>6. CASE stage' = "stopped" /\ code' = "1"
    BY <1>2, <2>2, <2>6 DEF ExportOrder
  <2> QED
    BY <1>4, <2>5, <2>6
<1>7. DoneIsThere'
  <2>1. ASSUME NEW m \in report'.done
        PROVE  IF command = All THEN out'[Fold[m]] = Whole(Fold[m], runs)
                                ELSE Whole(Fold[m], runs) \subseteq out'[Fold[m]]
    <3>1. CASE m = n /\ n \notin report.done
      <4>1. out'[Fold[n]] = content
        BY <1>1
      <4> QED
        BY <1>4, <2>1, <3>1, <4>1
    <3>2. CASE m \in report.done
      BY <1>3, <3>2 DEF DoneIsThere
    <3> QED
      BY <1>4, <2>1, <3>1, <3>2
  <2> QED
    BY <1>2, <2>1 DEF DoneIsThere, Whole
<1>8. code' # "0"
  BY <1>4 DEF ExportOrder
<1> QED
  BY <1>5, <1>6, <1>7, <1>8

\* A refused name is in error, and its directory stays.
LEMMA RefuseStep ==
    ASSUME ExportInv, NEW n \in ExtNames, RefuseName(n)
    PROVE  ExportInv' /\ out' = out /\ UNCHANGED <<extensions, command, runs, stage>> /\ code' # "0"
<1>1. /\ stage = "next" /\ n \in todo /\ todo' = todo \ {n} /\ UNCHANGED <<stage, code>>
      /\ extensions' = extensions /\ command' = command /\ runs' = runs /\ tmp' = tmp /\ out' = out
      /\ report' = [report EXCEPT !.failed = report.failed \cup {n}]
  BY DEF RefuseName, Fails
<1>2. tmp' \subseteq ExtNames /\ out \in [Dirs -> SUBSET Items] /\ Fold[n] \in Dirs
  BY <1>1, FoldType DEF ExportInv, ExportTypeOK
<1>3. out' = [out EXCEPT ![Fold[n]] = out[Fold[n]]] /\ out[Fold[n]] \in SUBSET Items
  BY <1>1, <1>2
<1> QED
  BY <1>1, <1>2, <1>3, SettleStep

\* Replacing one extension settles its name and leaves the other directories alone.
LEMMA ReplaceStep ==
    ASSUME ExportInv, NEW n \in ExtNames, Replace(n)
    PROVE  /\ ExportInv' /\ UNCHANGED <<extensions, command, runs>> /\ code' # "0"
           /\ n \in Asked \ RejectedNames /\ stage = "next"
           /\ \A d \in Dirs : d # Fold[n] => out'[d] = out[d]
<1>1. /\ stage = "next" /\ n \in todo /\ n \notin RejectedNames /\ todo' = todo \ {n}
      /\ extensions' = extensions /\ command' = command /\ runs' = runs
  BY DEF Replace
<1>2. /\ runs \in 1 .. MaxRuns /\ command = All /\ n \in extensions
      /\ tmp \subseteq ExtNames /\ out \in [Dirs -> SUBSET Items] /\ Fold[n] \in Dirs
  BY <1>1, FoldType DEF ExportInv, ExportTypeOK, ExportOrder
<1>3. Whole(Fold[n], runs) \in SUBSET Items /\ out[Fold[n]] \in SUBSET Items
  BY <1>2, WholeType, FoldType
<1>4. ASSUME out' = [out EXCEPT ![Fold[n]] = Whole(Fold[n], runs)],
             report' = [report EXCEPT !.done = @ \cup {n}],
             tmp' = tmp \ {n}, UNCHANGED <<stage, code>>
      PROVE  ExportInv' /\ code' # "0"
  <2>1. report' = [report EXCEPT !.done = report.done \cup {n}] /\ tmp' \subseteq ExtNames
    BY <1>2, <1>4
  <2> QED
    BY <1>1, <1>2, <1>3, <1>4, <2>1, SettleStep
<1>5. ASSUME NEW left \in SUBSET out[Fold[n]], out' = [out EXCEPT ![Fold[n]] = left],
             report' = [report EXCEPT !.failed = @ \cup {n}], UNCHANGED <<tmp, stage, code>>
      PROVE  ExportInv' /\ code' # "0"
  <2>1. left \in SUBSET Items
    BY <1>3
  <2> QED
    BY <1>1, <1>2, <1>5, <2>1, SettleStep
<1>6. ASSUME NEW part \in SUBSET Whole(Fold[n], runs), out' = [out EXCEPT ![Fold[n]] = part],
             tmp' = {}, stage' = "stopped", code' = "1", UNCHANGED report
      PROVE  ExportInv' /\ code' # "0"
  <2>1. part \in SUBSET Items
    BY <1>3
  <2> QED
    BY <1>1, <1>2, <1>6, <2>1, SettleStep
<1>7. ExportInv' /\ code' # "0"
  BY <1>1, <1>2, <1>3, <1>4, <1>5, <1>6 DEF Replace, Fails, Exit
<1>8. \A d \in Dirs : d # Fold[n] => out'[d] = out[d]
  BY <1>2 DEF Replace
<1>9. n \in Asked
  BY <1>2 DEF Asked
<1> QED
  BY <1>1, <1>7, <1>8, <1>9

\* So does the export of one extension.
LEMMA ExportOneStep ==
    ASSUME ExportInv, NEW n \in ExtNames, ExportOne(n)
    PROVE  /\ ExportInv' /\ UNCHANGED <<extensions, command, runs>> /\ code' # "0"
           /\ n \in Asked \ RejectedNames /\ stage = "list"
           /\ \A d \in Dirs : d # Fold[n] => out'[d] = out[d]
<1>1. /\ stage = "list" /\ n \in todo /\ todo' = todo \ {n} /\ UNCHANGED <<stage, code>>
      /\ extensions' = extensions /\ command' = command /\ runs' = runs /\ tmp' = tmp
  BY DEF ExportOne
<1>2. /\ runs \in 1 .. MaxRuns /\ command # All /\ n \in Distinct(command) /\ n \notin RejectedNames
      /\ tmp \subseteq ExtNames /\ out \in [Dirs -> SUBSET Items] /\ Fold[n] \in Dirs
  BY <1>1, FoldType DEF ExportInv, ExportTypeOK, ExportOrder
<1>3. Whole(Fold[n], runs) \in SUBSET Items /\ out[Fold[n]] \in SUBSET Items
  BY <1>2, WholeType, FoldType
<1>4. ASSUME NEW clears \in BOOLEAN,
             out' = [out EXCEPT ![Fold[n]] = Exported(@, Fold[n], clears)],
             report' = [report EXCEPT !.done = @ \cup {n}]
      PROVE  ExportInv' /\ code' # "0"
  <2>1. /\ Exported(out[Fold[n]], Fold[n], clears) \in SUBSET Items
        /\ Whole(Fold[n], runs) \subseteq Exported(out[Fold[n]], Fold[n], clears)
    BY <1>3 DEF Exported
  <2>2. out' = [out EXCEPT ![Fold[n]] = Exported(out[Fold[n]], Fold[n], clears)]
    BY <1>4
  <2> HIDE DEF Exported
  <2> QED
    BY <1>1, <1>2, <1>4, <2>1, <2>2, SettleStep
<1>5. ASSUME NEW content \in HalfExported(out[Fold[n]], Fold[n]),
             out' = [out EXCEPT ![Fold[n]] = content],
             report' = [report EXCEPT !.failed = @ \cup {n}]
      PROVE  ExportInv' /\ code' # "0"
  <2>1. content \in SUBSET Items
    BY <1>3 DEF HalfExported
  <2> QED
    BY <1>1, <1>2, <1>5, <2>1, SettleStep
<1>6. ExportInv' /\ code' # "0"
  BY <1>4, <1>5 DEF ExportOne, Fails
<1>7. \A d \in Dirs : d # Fold[n] => out'[d] = out[d]
  BY <1>2 DEF ExportOne
<1>8. n \in Asked
  BY <1>2 DEF Asked
<1> QED
  BY <1>1, <1>2, <1>6, <1>7, <1>8

--------------------------------------------------------------------------------
(* The base *)

\* Where the configuration is exported, it stays, unless it was asked for an
\* extension that has a directory of its own.
BaseIsThere ==
    stage \in {"export all", "next", "list"} /\ ApartFromBase =>
        \A d \in StandardDirs : Whole("base", runs) \subseteq out[d]

\* What an exit code of 0 says.
ZeroIsTrue == ApartFromBase => ExitZeroIsComplete

DumpInv == ExportInv /\ BaseIsThere /\ ZeroIsTrue

\* The names that are asked for stay for the whole command.
LEMMA SameAsked ==
    ASSUME UNCHANGED <<extensions, command>> PROVE Asked' = Asked /\ ApartFromBase' = ApartFromBase
  BY DEF Asked, Distinct, ApartFromBase

\* The exit code is 0 after Finish only, and only a new command takes it back.
LEMMA NotZero == ASSUME code' # "0" PROVE ZeroIsTrue'
  BY DEF ZeroIsTrue, ExitZeroIsComplete

\* A step for a name of its own leaves the configuration alone.
LEMMA OneNameStep ==
    ASSUME BaseIsThere, NEW n \in Asked \ RejectedNames, UNCHANGED <<extensions, command, runs>>,
           stage \in {"export all", "next", "list"},
           \A d \in Dirs : d # Fold[n] => out'[d] = out[d]
    PROVE  BaseIsThere'
<1>1. /\ runs' = runs /\ ApartFromBase' = ApartFromBase
      /\ ApartFromBase => Fold[n] \notin StandardDirs
  BY SameAsked DEF ApartFromBase
<1> QED
  BY <1>1 DEF BaseIsThere, Dirs, Whole

\* The exit code is 0 only when everything that was asked for is done.
LEMMA FinishStep ==
    ASSUME DumpInv, Finish PROVE ExportInv' /\ stage' = "stopped" /\ ZeroIsTrue'
<1>1. /\ stage \in {"next", "list"} /\ todo = {} /\ tmp' = {} /\ stage' = "stopped"
      /\ code' = IF report.failed = {} THEN "0" ELSE "1"
      /\ UNCHANGED <<extensions, command, runs, out, todo, report>>
  BY DEF Finish, Exit
<1>2. ExportInv'
  BY <1>1, MoveStep DEF DumpInv
<1>3. ASSUME code' = "0", ApartFromBase
      PROVE  /\ \A d \in StandardDirs : Whole("base", runs) \subseteq out[d]
             /\ \A n \in Asked : Whole(Fold[n], runs) \subseteq out[Fold[n]]
  <2>1. Asked = report.done
    BY <1>1, <1>3 DEF DumpInv, ExportInv, ExportOrder, Asked
  <2> QED
    BY <1>1, <1>3, <2>1 DEF DumpInv, ExportInv, DoneIsThere, BaseIsThere
<1>4. ApartFromBase' = ApartFromBase /\ Asked' = Asked /\ runs' = runs /\ out' = out
  BY <1>1, SameAsked
<1> QED
  BY <1>1, <1>2, <1>3, <1>4 DEF ZeroIsTrue, ExitZeroIsComplete, Whole

\* The invariant of the export holds before the first command.
LEMMA DumpInitially == ExportInit => DumpInv
<1> SUFFICES ASSUME ExportInit PROVE DumpInv
  OBVIOUS
<1>1. /\ extensions = {} /\ command = NoExtensions /\ runs = 0
      /\ out = [d \in Dirs |-> {}] /\ tmp = {} /\ todo = {}
      /\ report = NoReport /\ stage = "stopped" /\ code = "0"
  BY DEF ExportInit
<1>2. ExportTypeOK
  <2>1. {} \in Bases1C /\ NoExtensions \in Requests /\ 0 \in 0 .. MaxRuns
    BY ExportAssumption DEF Bases1C, Requests
  <2> QED
    BY <1>1, <2>1, NoReportType DEF ExportTypeOK
<1>3. ExportOrder
  BY <1>1, NoReportType DEF ExportOrder
<1>4. DoneIsThere /\ BaseIsThere
  BY <1>1, NoReportType DEF DoneIsThere, BaseIsThere
<1>5. ZeroIsTrue
  BY <1>1 DEF ZeroIsTrue, ExitZeroIsComplete
<1> QED
  BY <1>2, <1>3, <1>4, <1>5 DEF DumpInv, ExportInv

\* Every step of the command keeps it.
LEMMA DumpStep == DumpInv /\ [ExportNext]_exportVars => DumpInv'
<1> SUFFICES ASSUME DumpInv, [ExportNext]_exportVars PROVE DumpInv'
  OBVIOUS
<1> USE DEF DumpInv
<1>1. CASE Command
  <2>1. ExportInv' /\ stage' \in {"stopped", "install"} /\ code' # "0"
    BY <1>1, CommandStep
  <2> QED
    BY <2>1, NotZero DEF BaseIsThere
<1>2. CASE Install
  <2>1. /\ UNCHANGED <<extensions, command, runs, out, tmp, todo, report>> /\ stage = "install"
        /\ \/ stage' = "stopped" /\ code' = "1"
           \/ stage' = "base" /\ code' = code
    BY <1>2 DEF Install, Exit
  <2>2. tmp' \subseteq ExtNames /\ code = "none"
    BY <2>1 DEF ExportInv, ExportTypeOK, ExportOrder
  <2>3. ExportInv'
    BY <2>1, <2>2, MoveStep
  <2>4. code' # "0" /\ stage' \in {"stopped", "base"}
    BY <2>1, <2>2
  <2> QED
    BY <2>3, <2>4, NotZero DEF BaseIsThere
<1>3. CASE ExportBase
  <2>1. /\ ExportInv' /\ UNCHANGED <<extensions, command, runs>> /\ code' # "0"
        /\ stage' # "stopped" => \A d \in StandardDirs : Whole("base", runs) \subseteq out'[d]
    BY <1>3, BaseStep
  <2> QED
    BY <2>1, NotZero DEF BaseIsThere, Whole
<1>4. CASE ExportAll
  <2>1. ExportInv' /\ UNCHANGED <<extensions, command, runs, out>> /\ code' # "0" /\ stage = "export all"
    BY <1>4, AllStep DEF ExportAll
  <2>2. ApartFromBase' = ApartFromBase /\ runs' = runs /\ out' = out
    BY <2>1, SameAsked
  <2>3. BaseIsThere'
    BY <2>1, <2>2 DEF BaseIsThere, Whole
  <2> QED
    BY <2>1, <2>3, NotZero
<1>5. ASSUME NEW n \in ExtNames, RefuseName(n) PROVE DumpInv'
  <2>1. ExportInv' /\ out' = out /\ UNCHANGED <<extensions, command, runs, stage>> /\ code' # "0"
    BY <1>5, RefuseStep
  <2>2. ApartFromBase' = ApartFromBase
    BY <2>1, SameAsked
  <2>3. BaseIsThere'
    BY <2>1, <2>2 DEF BaseIsThere, Whole
  <2> QED
    BY <2>1, <2>3, NotZero
<1>6. ASSUME NEW n \in ExtNames, Replace(n) PROVE DumpInv'
  <2>1. /\ ExportInv' /\ UNCHANGED <<extensions, command, runs>> /\ code' # "0"
        /\ n \in Asked \ RejectedNames /\ stage = "next"
        /\ \A d \in Dirs : d # Fold[n] => out'[d] = out[d]
    BY <1>6, ReplaceStep
  <2> QED
    BY <2>1, OneNameStep, NotZero
<1>7. ASSUME NEW n \in ExtNames, ExportOne(n) PROVE DumpInv'
  <2>1. /\ ExportInv' /\ UNCHANGED <<extensions, command, runs>> /\ code' # "0"
        /\ n \in Asked \ RejectedNames /\ stage = "list"
        /\ \A d \in Dirs : d # Fold[n] => out'[d] = out[d]
    BY <1>7, ExportOneStep
  <2> QED
    BY <2>1, OneNameStep, NotZero
<1>8. CASE Finish
  BY <1>8, FinishStep DEF BaseIsThere
<1>9. CASE KillCommand
  <2>1. /\ UNCHANGED <<extensions, command, runs, out, tmp, todo, report>> /\ stage # "stopped"
        /\ stage' = "stopped" /\ code' = "killed"
    BY <1>9 DEF KillCommand, Exit
  <2>2. tmp' \subseteq ExtNames
    BY <2>1 DEF ExportInv, ExportTypeOK
  <2>3. ExportInv'
    BY <2>1, <2>2, MoveStep
  <2> QED
    BY <2>1, <2>3, NotZero DEF BaseIsThere
<1>10. CASE UNCHANGED exportVars
  <2>1. UNCHANGED <<extensions, command, runs, out, tmp, todo, report, stage, code>>
    BY <1>10 DEF exportVars
  <2>2. Asked' = Asked /\ ApartFromBase' = ApartFromBase
    BY <2>1, SameAsked
  <2>3. ExportTypeOK'
    BY <2>1 DEF ExportInv, ExportTypeOK
  <2>4. ExportOrder' /\ DoneIsThere'
    BY <2>1, <2>2 DEF ExportInv, ExportOrder, DoneIsThere, Distinct, Whole
  <2>5. BaseIsThere' /\ ZeroIsTrue'
    BY <2>1, <2>2 DEF BaseIsThere, ZeroIsTrue, ExitZeroIsComplete, Whole
  <2> QED
    BY <2>3, <2>4, <2>5 DEF ExportInv
<1> QED
  BY <1>1, <1>2, <1>3, <1>4, <1>5, <1>6, <1>7, <1>8, <1>9, <1>10 DEF ExportNext

\* The invariant of the export holds throughout.
LEMMA DumpInductive == ExportSpec => []DumpInv
  BY DumpInitially, DumpStep, PTL DEF ExportSpec

\* Directories, reports and the names still to do keep their shape, and no
\* extension is both done and in error.
THEOREM ExportTypeCorrect == ExportSpec => []ExportTypeOK
<1>1. DumpInv => ExportTypeOK
  BY DEF DumpInv, ExportInv
<1> QED
  BY <1>1, DumpInductive, PTL

\* dump() with -AllExtensions: an extension that is reported without an error has
\* exactly the export of this run in its directory, whatever rmtree and move left.
THEOREM ReplacedIsWhole == ExportSpec => []AllReplacesWhole
<1>1. DumpInv => AllReplacesWhole
  BY DEF DumpInv, ExportInv, DoneIsThere, AllReplacesWhole
<1> QED
  BY <1>1, DumpInductive, PTL

\* _run_dump: exit code 0 means that the whole export is there, as long as no
\* extension that is asked for and accepted has the directory of the
\* configuration: the comparison of names is what the command rests on.
THEOREM ReportHolds == ExportSpec => [](ApartFromBase => ReportIsTrue)
<1>1. DumpInv => (ApartFromBase => ReportIsTrue)
  BY DEF DumpInv, ExportInv, DoneIsThere, AllReplacesWhole, ZeroIsTrue, ReportIsTrue
<1> QED
  BY <1>1, DumpInductive, PTL

\* dump() with -AllExtensions: without such a name no extension overwrites the
\* configuration (with one it does: the run dump_base_survives).
THEOREM BaseIsSafe == ExportSpec => [](ApartFromBase => BaseSurvives)
<1>1. DumpInv => (ApartFromBase => BaseSurvives)
  BY DEF DumpInv, BaseIsThere, BaseSurvives
<1> QED
  BY <1>1, DumpInductive, PTL

================================================================================
