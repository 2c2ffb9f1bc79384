-------------------------------- MODULE DumpProofs --------------------------------
(***************************************************************************)
(* What is proved about the dump outside of its index.                     *)
(*                                                                         *)
(* The scan for extensions looks at every directory once and keeps to its  *)
(* budget of manifests; an extension it came to and does not recognize has *)
(* a name the log calls disputed, or a manifest beyond the budget, which   *)
(* the log mentions once; the roots are exactly the directories whose      *)
(* manifest was read and has a name nobody else is known to have; and of   *)
(* the modules of objects, forms and commands no two get one name.         *)
(*                                                                         *)
(* A search by lines counts every line that matches and lists the first    *)
(* of them; a smart search shows of each module a line with a token of the *)
(* query or else a synonym of one, on its own or inside of a longer word.  *)
(***************************************************************************)
EXTENDS ExtRoots, DumpSearch, FiniteSetTheorems, SequenceTheorems, WellFoundedInduction,
        TLAPS

\* Directories of the dump and of its directories.
TopSet == {Tops[i] : i \in DOMAIN Tops}
Paths == {<<t>> : t \in TopSet} \cup (TopSet \X Nat)

\* No directory is looked at twice: it is in the queue or found, once, and one
\* of the second level only behind its parent.
OnceEach ==
    /\ queue \in Seq(Paths) /\ DOMAIN found \subseteq Paths
    /\ \A i, j \in DOMAIN queue : queue[i] = queue[j] => i = j
    /\ \A i \in DOMAIN queue : queue[i] \notin DOMAIN found
    /\ \A i \in DOMAIN queue : Len(queue[i]) = 2 => <<queue[i][1]>> \in DOMAIN found
    /\ \A d \in DOMAIN found : Len(d) = 2 => <<d[1]>> \in DOMAIN found
    /\ scan = "start" => queue = <<>> /\ found = <<>>

Answers == ManifestNames \cup {Unnamed, Broken}
Given == {found[d].what : d \in DOMAIN found}
Spent == Dealt("read")

\* The budget and the names are what the manifests give.
BooksAgree ==
    /\ found \in [DOMAIN found -> [what : Answers, how : Hows]]
    /\ IsFiniteSet(DOMAIN found) /\ IsFiniteSet(Given)
    /\ budget \in -1 .. MaxReads
    /\ Cardinality(Spent) = MaxReads - (IF budget = -1 THEN 0 ELSE budget)
    /\ byName = [n \in ManifestNames |-> {d \in Spent : found[d].what = n}]

\* So is the log.
LogAgrees ==
    /\ DOMAIN warned = Warnings /\ warned = [w \in Warnings |-> warned[w]]
    /\ warned["disputed"] \subseteq ManifestNames
    /\ \A w \in Warnings \ {"disputed"} : warned[w] \subseteq DOMAIN found
    /\ warned["wide"] = Dealt("wide")
    /\ budget # -1 => Skipped = {} /\ warned["budget"] = {}
    /\ budget = -1 => \E d \in Skipped : warned["budget"] = {d}

\* The roots are the directories that have a name alone.
Settled ==
    /\ \A d \in DOMAIN roots :
          roots[d] \in ManifestNames /\ byName[roots[d]] = {d} /\ roots[d] \notin claimed
    /\ \A n \in ManifestNames, d \in DOMAIN found :
          byName[n] = {d} /\ n \notin claimed => d \in DOMAIN roots /\ roots[d] = n
    /\ \A n \in ManifestNames :
          byName[n] # {} /\ (n \in claimed \/ \A d \in DOMAIN found : byName[n] # {d})
              => n \in warned["disputed"]

ScanInv ==
    /\ scan \in {"start", "scan", "done"} /\ claimed \subseteq ManifestNames
    /\ OnceEach /\ BooksAgree /\ LogAgrees
    /\ scan # "done" => roots = <<>>
    /\ scan = "done" => Settled

--------------------------------------------------------------------------------
(* The queue *)

\* The next directory, and what is left behind it.
LEMMA NextDirectory ==
    ASSUME OnceEach, queue # <<>>
    PROVE  /\ Head(queue) \in Paths /\ Head(queue) \notin DOMAIN found
           /\ Tail(queue) \in Seq(Paths)
           /\ \A i \in DOMAIN Tail(queue) :
                 /\ i + 1 \in DOMAIN queue /\ Tail(queue)[i] = queue[i + 1]
                 /\ Tail(queue)[i] # Head(queue)
           /\ \A i, j \in DOMAIN Tail(queue) : Tail(queue)[i] = Tail(queue)[j] => i = j
           /\ Len(Head(queue)) = 2 => <<Head(queue)[1]>> \in DOMAIN found
<1>1. queue \in Seq(Paths) /\ Len(queue) \in Nat /\ Len(queue) > 0 /\ DOMAIN queue = 1 .. Len(queue)
  BY EmptySeq, LenProperties DEF OnceEach
<1>2. /\ Head(queue) = queue[1] /\ Head(queue) \in Paths /\ Tail(queue) \in Seq(Paths)
      /\ Len(Tail(queue)) = Len(queue) - 1
      /\ \A i \in 1 .. Len(Tail(queue)) : Tail(queue)[i] = queue[i + 1]
  BY <1>1, HeadTailProperties
<1>3. DOMAIN Tail(queue) = 1 .. Len(queue) - 1
  BY <1>2, LenProperties
<1>4. \A i \in DOMAIN Tail(queue) : i + 1 \in DOMAIN queue /\ i + 1 # 1 /\ Tail(queue)[i] = queue[i + 1]
  BY <1>1, <1>2, <1>3
<1>5. \A i, j \in DOMAIN Tail(queue) : Tail(queue)[i] = Tail(queue)[j] => i = j
  <2>1. ASSUME NEW i \in DOMAIN Tail(queue), NEW j \in DOMAIN Tail(queue), Tail(queue)[i] = Tail(queue)[j]
        PROVE  i = j
    <3>1. i + 1 = j + 1
      BY <1>4, <2>1 DEF OnceEach
    <3> QED
      BY <1>1, <1>3, <3>1
  <2> QED
    BY <2>1
<1>6. 1 \in DOMAIN queue
  BY <1>1
<1> QED
  BY <1>2, <1>4, <1>5, <1>6 DEF OnceEach

\* Looking at the next directory.
LEMMA LookOnce ==
    ASSUME OnceEach, queue # <<>>, scan = "scan", scan' = "scan", queue' = Tail(queue),
           DOMAIN found' = DOMAIN found \cup {Head(queue)}
    PROVE  OnceEach'
<1>1. /\ Head(queue) \in Paths /\ Head(queue) \notin DOMAIN found
      /\ Tail(queue) \in Seq(Paths)
      /\ \A i \in DOMAIN Tail(queue) :
            /\ i + 1 \in DOMAIN queue /\ Tail(queue)[i] = queue[i + 1]
            /\ Tail(queue)[i] # Head(queue)
      /\ \A i, j \in DOMAIN Tail(queue) : Tail(queue)[i] = Tail(queue)[j] => i = j
      /\ Len(Head(queue)) = 2 => <<Head(queue)[1]>> \in DOMAIN found
  BY NextDirectory
<1>2. \A i \in DOMAIN Tail(queue) : Tail(queue)[i] \notin DOMAIN found
                                    /\ (Len(Tail(queue)[i]) = 2 => <<Tail(queue)[i][1]>> \in DOMAIN found)
  BY <1>1 DEF OnceEach
<1> QED
  BY <1>1, <1>2 DEF OnceEach

\* The path to a directory below another one.
LEMMA AppendPair == ASSUME NEW t, NEW k PROVE Append(<<t>>, k) = <<t, k>>
<1> DEFINE S == {t, k}
<1>1. <<t>> \in Seq(S) /\ Len(<<t>>) = 1 /\ <<t>>[1] = t /\ t \in S /\ k \in S
  OBVIOUS
<1>2. <<t, k>> \in Seq(S) /\ Len(<<t, k>>) = 2 /\ <<t, k>>[1] = t /\ <<t, k>>[2] = k
  BY <1>1
<1> HIDE DEF S
<1>3. /\ Append(<<t>>, k) \in Seq(S) /\ Len(Append(<<t>>, k)) = 2
      /\ Append(<<t>>, k)[1] = t /\ Append(<<t>>, k)[2] = k
  BY <1>1, AppendProperties
<1> QED
  <2>1. \A i \in 1 .. 2 : Append(<<t>>, k)[i] = <<t, k>>[i]
    BY <1>2, <1>3
  <2> QED
    BY <1>2, <1>3, <2>1, SeqEqual

\* The directories of a directory of the first level.
Below(directory, n) == [i \in 1 .. n |-> Append(directory, i)]

\* They are directories of the second level.
LEMMA NestedPaths ==
    ASSUME NEW t \in TopSet, NEW n \in Nat
    PROVE  /\ Below(<<t>>, n) \in Seq(Paths) /\ Len(Below(<<t>>, n)) = n
           /\ \A i \in 1 .. n : Below(<<t>>, n)[i] = <<t, i>>
<1>1. \A i \in 1 .. n : Append(<<t>>, i) = <<t, i>>
  BY AppendPair
<1>2. \A i \in 1 .. n : <<t, i>> \in Paths
  BY DEF Paths
<1>3. Below(<<t>>, n) \in [1 .. n -> Paths]
  BY <1>1, <1>2 DEF Below
<1>4. Below(<<t>>, n) \in Seq(Paths)
  BY <1>3
<1>5. Len(Below(<<t>>, n)) = n
  BY <1>3, <1>4
<1> QED
  BY <1>1, <1>4, <1>5 DEF Below

\* They come before the rest of the queue.
LEMMA NestedQueue ==
    ASSUME NEW t \in TopSet, NEW n \in Nat, NEW rest \in Seq(Paths)
    PROVE  LET longer == Below(<<t>>, n) \o rest IN
           /\ longer \in Seq(Paths)
           /\ \A i \in DOMAIN longer :
                 \/ i \in 1 .. n /\ longer[i] = <<t, i>>
                 \/ i \in Nat /\ i > n /\ i - n \in DOMAIN rest /\ longer[i] = rest[i - n]
<1> DEFINE nested == Below(<<t>>, n)
           longer == nested \o rest
<1>1. nested \in Seq(Paths) /\ Len(nested) = n /\ \A i \in 1 .. n : nested[i] = <<t, i>>
  BY NestedPaths
<1>2. Len(rest) \in Nat /\ DOMAIN rest = 1 .. Len(rest)
  BY LenProperties
<1> HIDE DEF nested
<1>4. /\ longer \in Seq(Paths) /\ Len(longer) = n + Len(rest)
      /\ \A i \in 1 .. n + Len(rest) : longer[i] = IF i <= n THEN nested[i] ELSE rest[i - n]
  <2>1. /\ nested \o rest \in Seq(Paths) /\ Len(nested \o rest) = Len(nested) + Len(rest)
        /\ \A i \in 1 .. Len(nested) + Len(rest) :
              (nested \o rest)[i] = IF i <= Len(nested) THEN nested[i] ELSE rest[i - Len(nested)]
    BY <1>1, ConcatProperties
  <2> QED
    BY <1>1, <2>1
<1> HIDE DEF longer
<1>5. DOMAIN longer = 1 .. n + Len(rest)
  BY <1>4, LenProperties
<1>6. ASSUME NEW i \in 1 .. n + Len(rest)
      PROVE  \/ i \in 1 .. n /\ longer[i] = <<t, i>>
             \/ i \in Nat /\ i > n /\ i - n \in 1 .. Len(rest) /\ longer[i] = rest[i - n]
  <2>1. CASE i <= n
    BY <1>1, <1>4, <2>1
  <2>2. CASE i > n
    BY <1>2, <1>4, <2>2
  <2> QED
    BY <1>2, <2>1, <2>2
<1> QED
  BY <1>2, <1>4, <1>5, <1>6 DEF longer, nested

\* Looking into the next directory: none of its directories was looked at or is
\* in the queue, for their parent comes only now.
LEMMA DescendOnce ==
    ASSUME OnceEach, queue # <<>>, scan = "scan", scan' = "scan", Len(Head(queue)) = 1,
           NEW n \in Nat, queue' = [i \in 1 .. n |-> Append(Head(queue), i)] \o Tail(queue),
           DOMAIN found' = DOMAIN found \cup {Head(queue)}
    PROVE  OnceEach'
<1>1. /\ Head(queue) \in Paths /\ Head(queue) \notin DOMAIN found
      /\ Tail(queue) \in Seq(Paths)
      /\ \A i \in DOMAIN Tail(queue) :
            /\ i + 1 \in DOMAIN queue /\ Tail(queue)[i] = queue[i + 1]
            /\ Tail(queue)[i] # Head(queue)
      /\ \A i, j \in DOMAIN Tail(queue) : Tail(queue)[i] = Tail(queue)[j] => i = j
  BY NextDirectory
<1>2. PICK t \in TopSet : Head(queue) = <<t>>
  BY <1>1 DEF Paths
<1>3. /\ queue' \in Seq(Paths)
      /\ \A i \in DOMAIN queue' :
            \/ i \in 1 .. n /\ queue'[i] = <<t, i>>
            \/ i \in Nat /\ i > n /\ i - n \in DOMAIN Tail(queue) /\ queue'[i] = Tail(queue)[i - n]
  <2>1. queue' = Below(<<t>>, n) \o Tail(queue)
    BY <1>2 DEF Below
  <2>2. Tail(queue) \in Seq(Paths)
    BY <1>1
  <2> DEFINE longer == Below(<<t>>, n) \o Tail(queue)
  <2>3. /\ longer \in Seq(Paths)
        /\ \A i \in DOMAIN longer :
              \/ i \in 1 .. n /\ longer[i] = <<t, i>>
              \/ i \in Nat /\ i > n /\ i - n \in DOMAIN Tail(queue) /\ longer[i] = Tail(queue)[i - n]
    BY <2>2, NestedQueue, Zenon
  <2>4. queue' = longer
    BY <2>1
  <2> HIDE DEF longer
  <2> QED
    BY <2>3, <2>4
<1>4. ASSUME NEW i PROVE <<t, i>> \notin DOMAIN found
  BY <1>1, <1>2 DEF OnceEach
<1>5. ASSUME NEW j \in DOMAIN Tail(queue)
      PROVE  /\ Tail(queue)[j] \notin DOMAIN found /\ Tail(queue)[j] # <<t>>
             /\ Len(Tail(queue)[j]) = 2 => <<Tail(queue)[j][1]>> \in DOMAIN found
             /\ \A i : Tail(queue)[j] # <<t, i>>
  <2>1. j + 1 \in DOMAIN queue /\ Tail(queue)[j] = queue[j + 1] /\ Tail(queue)[j] # <<t>>
    BY <1>1, <1>2
  <2>2. /\ queue[j + 1] \notin DOMAIN found
        /\ Len(queue[j + 1]) = 2 => <<queue[j + 1][1]>> \in DOMAIN found
    BY <2>1 DEF OnceEach
  <2>3. ASSUME NEW i, queue[j + 1] = <<t, i>> PROVE FALSE
    <3>1. Len(<<t, i>>) = 2 /\ <<t, i>>[1] = t
      OBVIOUS
    <3>2. <<t>> \in DOMAIN found
      BY <2>2, <2>3, <3>1
    <3> QED
      BY <1>1, <1>2, <3>2
  <2> QED
    BY <2>1, <2>2, <2>3
<1>6. ASSUME NEW i \in DOMAIN queue', NEW j \in DOMAIN queue', queue'[i] = queue'[j] PROVE i = j
  <2>1. CASE i \in 1 .. n /\ queue'[i] = <<t, i>>
    <3>1. queue'[j] = <<t, i>>
      BY <1>6, <2>1
    <3>2. j \in 1 .. n /\ queue'[j] = <<t, j>>
      BY <1>3, <1>5, <3>1
    <3> QED
      BY <3>1, <3>2
  <2>2. CASE i \in Nat /\ i > n /\ i - n \in DOMAIN Tail(queue) /\ queue'[i] = Tail(queue)[i - n]
    <3>1. j \in Nat /\ j > n /\ j - n \in DOMAIN Tail(queue) /\ queue'[j] = Tail(queue)[j - n]
      BY <1>3, <1>5, <1>6, <2>2
    <3>2. i - n = j - n
      BY <1>1, <1>6, <2>2, <3>1
    <3> QED
      BY <2>2, <3>1, <3>2
  <2> QED
    BY <1>3, <2>1, <2>2
<1>7. ASSUME NEW i \in DOMAIN queue'
      PROVE  /\ queue'[i] \notin DOMAIN found /\ queue'[i] # <<t>>
             /\ Len(queue'[i]) = 2 => <<queue'[i][1]>> \in DOMAIN found \cup {<<t>>}
  <2>1. CASE i \in 1 .. n /\ queue'[i] = <<t, i>>
    <3>1. <<t, i>>[1] = t /\ <<t, i>> # <<t>>
      OBVIOUS
    <3> QED
      BY <1>4, <2>1, <3>1
  <2>2. CASE i - n \in DOMAIN Tail(queue) /\ queue'[i] = Tail(queue)[i - n]
    BY <1>5, <2>2
  <2> QED
    BY <1>3, <2>1, <2>2
<1>8. DOMAIN found' \subseteq Paths /\ DOMAIN found' = DOMAIN found \cup {<<t>>}
  BY <1>1, <1>2 DEF OnceEach
<1>9. \A d \in DOMAIN found' : Len(d) = 2 => <<d[1]>> \in DOMAIN found'
  BY <1>8 DEF OnceEach
<1> QED
  BY <1>3, <1>6, <1>7, <1>8, <1>9 DEF OnceEach

\* The queue is filled with the directories of the dump.
LEMMA StartOnce == ASSUME OnceEach, StartScan PROVE OnceEach'
<1> DEFINE all == [i \in DOMAIN Tops |-> <<Tops[i]>>]
<1>1. /\ scan = "start" /\ scan' = "scan" /\ found = <<>> /\ found' = found /\ queue = <<>>
      /\ queue' \in {<<>>, all}
  BY DEF StartScan, OnceEach
<1>2. DOMAIN Tops = 1 .. Len(Tops) /\ Len(Tops) \in Nat
  BY ExtRootsAssumption
<1>3. \A i \in DOMAIN Tops : <<Tops[i]>> \in Paths
  BY DEF Paths, TopSet
<1>4. all \in [1 .. Len(Tops) -> Paths]
  BY <1>2, <1>3
<1>5. all \in Seq(Paths)
  BY <1>2, <1>4
<1>6. DOMAIN all = DOMAIN Tops /\ \A i \in DOMAIN Tops : all[i] = <<Tops[i]>>
  OBVIOUS
<1>7. /\ \A i \in DOMAIN all : Len(all[i]) = 1
      /\ \A i, j \in DOMAIN all : all[i] = all[j] => i = j
  BY <1>6, ExtRootsAssumption
<1>8. DOMAIN found' = {}
  BY <1>1
<1> HIDE DEF all
<1>9. CASE queue' = all
  <2>1. /\ queue' \in Seq(Paths)
        /\ \A i \in DOMAIN queue' : Len(queue'[i]) = 1
        /\ \A i, j \in DOMAIN queue' : queue'[i] = queue'[j] => i = j
    BY <1>5, <1>7, <1>9
  <2>2. \A i \in DOMAIN queue' : queue'[i] \notin DOMAIN found' /\ Len(queue'[i]) # 2
    BY <1>8, <2>1
  <2>3. DOMAIN found' \subseteq Paths /\ scan' # "start"
    BY <1>1, <1>8
  <2> QED
    BY <1>8, <2>1, <2>2, <2>3 DEF OnceEach
<1>10. CASE queue' = <<>>
  <2>1. queue' \in Seq(Paths) /\ DOMAIN queue' = {}
    BY <1>10
  <2> QED
    BY <1>1, <1>8, <2>1 DEF OnceEach
<1> QED
  BY <1>1, <1>9, <1>10

--------------------------------------------------------------------------------
(* The books *)

\* What Found does to the directories, the answers and the reads.
LEMMA FoundFact ==
    ASSUME BooksAgree, NEW d, d = Head(queue), d \notin DOMAIN found,
           NEW what \in Answers, NEW how \in Hows, Found(what, how)
    PROVE  /\ DOMAIN found' = DOMAIN found \cup {d} /\ d \in DOMAIN found'
           /\ found' \in [DOMAIN found' -> [what : Answers, how : Hows]]
           /\ found'[d].what = what /\ found'[d].how = how
           /\ \A e \in DOMAIN found : found'[e] = found[e]
           /\ IsFiniteSet(DOMAIN found') /\ IsFiniteSet(Given')
           /\ \A h : Dealt(h)' = IF h = how THEN Dealt(h) \cup {d} ELSE Dealt(h)
           /\ Cardinality(Spent') = IF how = "read" THEN Cardinality(Spent) + 1 ELSE Cardinality(Spent)
<1>1. found' = [e \in DOMAIN found \cup {d} |->
                   IF e = d THEN [what |-> what, how |-> how] ELSE found[e]]
  BY DEF Found
<1>2. /\ DOMAIN found' = DOMAIN found \cup {d} /\ d \in DOMAIN found'
      /\ found'[d] = [what |-> what, how |-> how]
      /\ \A e \in DOMAIN found : found'[e] = found[e]
  BY <1>1
<1>3. found \in [DOMAIN found -> [what : Answers, how : Hows]]
  BY DEF BooksAgree
<1>4. found' \in [DOMAIN found' -> [what : Answers, how : Hows]]
  BY <1>1, <1>3
<1>5. found'[d].what = what /\ found'[d].how = how
  BY <1>2
<1>6. IsFiniteSet(DOMAIN found')
  BY <1>2, FS_AddElement DEF BooksAgree
<1>7. IsFiniteSet(Given')
  <2>1. Given' = Given \cup {what}
    BY <1>2, <1>5 DEF Given
  <2> QED
    BY <2>1, FS_AddElement DEF BooksAgree
<1>8. ASSUME NEW h PROVE Dealt(h)' = IF h = how THEN Dealt(h) \cup {d} ELSE Dealt(h)
  BY <1>2, <1>5 DEF Dealt
<1>9. Cardinality(Spent') = IF how = "read" THEN Cardinality(Spent) + 1 ELSE Cardinality(Spent)
  <2>1. Spent \in SUBSET DOMAIN found /\ d \notin Spent
    BY DEF Spent, Dealt
  <2>2. IsFiniteSet(Spent)
    BY <2>1, FS_Subset DEF BooksAgree
  <2>3. Spent' = IF how = "read" THEN Spent \cup {d} ELSE Spent
    BY <1>8 DEF Spent
  <2> QED
    BY <2>1, <2>2, <2>3, FS_AddElement
<1> QED
  BY <1>2, <1>4, <1>5, <1>6, <1>7, <1>8, <1>9

\* A directory whose manifest is not read leaves the names alone.
LEMMA UnreadBooks ==
    ASSUME BooksAgree, NEW d, d = Head(queue), d \notin DOMAIN found,
           NEW what \in Answers, NEW how \in Hows \ {"read"}, Found(what, how), byName' = byName,
           budget' = budget \/ (budget = 0 /\ budget' = -1)
    PROVE  BooksAgree'
<1>1. /\ DOMAIN found' = DOMAIN found \cup {d}
      /\ found' \in [DOMAIN found' -> [what : Answers, how : Hows]]
      /\ \A e \in DOMAIN found : found'[e] = found[e]
      /\ IsFiniteSet(DOMAIN found') /\ IsFiniteSet(Given')
      /\ \A h : Dealt(h)' = IF h = how THEN Dealt(h) \cup {d} ELSE Dealt(h)
      /\ Cardinality(Spent') = Cardinality(Spent)
  BY FoundFact
<1>2. Spent' = Spent
  BY <1>1 DEF Spent
<1>3. byName' = [n \in ManifestNames |-> {e \in Spent' : found'[e].what = n}]
  <2>1. \A e \in Spent : found'[e] = found[e]
    BY <1>1 DEF Spent, Dealt
  <2>2. byName = [n \in ManifestNames |-> {e \in Spent : found[e].what = n}]
    BY DEF BooksAgree
  <2>3. \A n : {e \in Spent' : found'[e].what = n} = {e \in Spent : found[e].what = n}
    BY <1>2, <2>1
  <2> HIDE DEF Spent
  <2> QED
    BY <2>2, <2>3
<1>4. /\ budget \in -1 .. MaxReads /\ MaxReads \in Nat
      /\ Cardinality(Spent) = MaxReads - (IF budget = -1 THEN 0 ELSE budget)
  BY ExtRootsAssumption DEF BooksAgree
<1>5. /\ budget' \in -1 .. MaxReads
      /\ Cardinality(Spent)' = MaxReads - (IF budget' = -1 THEN 0 ELSE budget')
  <2>1. CASE budget' = budget
    BY <1>1, <1>4, <2>1
  <2>2. CASE budget = 0 /\ budget' = -1
    BY <1>1, <1>4, <2>2
  <2> QED
    BY <2>1, <2>2
<1> QED
  BY <1>1, <1>3, <1>5 DEF BooksAgree

\* A manifest that is read costs one of the budget and enters its name.
LEMMA ReadBooks ==
    ASSUME BooksAgree, NEW d, d = Head(queue), d \notin DOMAIN found, budget > 0,
           NEW what \in Answers, Found(what, "read"), budget' = budget - 1,
           byName' = [n \in ManifestNames |->
                         byName[n] \cup IF n = what THEN {Head(queue)} ELSE {}]
    PROVE  BooksAgree'
<1>1. /\ DOMAIN found' = DOMAIN found \cup {d} /\ found'[d].what = what
      /\ found' \in [DOMAIN found' -> [what : Answers, how : Hows]]
      /\ \A e \in DOMAIN found : found'[e] = found[e]
      /\ IsFiniteSet(DOMAIN found') /\ IsFiniteSet(Given')
      /\ Spent' = Spent \cup {d} /\ Cardinality(Spent') = Cardinality(Spent) + 1
  <2>1. "read" \in Hows
    BY DEF Hows
  <2> QED
    BY <2>1, FoundFact DEF Spent
<1>2. byName' = [n \in ManifestNames |-> {e \in Spent' : found'[e].what = n}]
  <2>1. \A e \in Spent : found'[e] = found[e]
    BY <1>1 DEF Spent, Dealt
  <2>2. \A n \in ManifestNames : byName[n] = {e \in Spent : found[e].what = n}
    BY DEF BooksAgree
  <2>3. \A n \in ManifestNames : {e \in Spent' : found'[e].what = n}
                                    = byName[n] \cup IF n = what THEN {d} ELSE {}
    <3> HIDE DEF Spent
    <3> QED
      BY <1>1, <2>1, <2>2
  <2> QED
    BY <2>3
<1>3. /\ budget \in -1 .. MaxReads /\ MaxReads \in Nat
      /\ Cardinality(Spent) = MaxReads - (IF budget = -1 THEN 0 ELSE budget)
  BY ExtRootsAssumption DEF BooksAgree
<1>4. /\ budget' \in -1 .. MaxReads /\ budget' # -1
      /\ MaxReads - budget + 1 = MaxReads - budget' /\ budget # -1
  BY <1>3
<1> QED
  BY <1>1, <1>2, <1>3, <1>4 DEF BooksAgree

\* What the steps of the scan write into the log.
LEMMA LogBooks ==
    ASSUME BooksAgree, LogAgrees, NEW d, d = Head(queue), d \notin DOMAIN found,
           NEW what \in Answers, NEW how \in Hows, Found(what, how),
           \/ how \in {"passed", "entered", "unlisted"} /\ budget' = budget /\ warned' = warned
           \/ how = "wide" /\ budget' = budget /\ Warn("wide")
           \/ /\ how = "read" /\ budget > 0 /\ budget' = budget - 1
              /\ warned' = warned \/ Warn("manifest")
           \/ how = "skipped" /\ budget = 0 /\ budget' = -1 /\ Warn("budget")
           \/ how = "skipped" /\ budget = -1 /\ budget' = -1 /\ warned' = warned
    PROVE  LogAgrees'
<1>1. /\ DOMAIN found' = DOMAIN found \cup {d}
      /\ \A h : Dealt(h)' = IF h = how THEN Dealt(h) \cup {d} ELSE Dealt(h)
  BY FoundFact
<1>2. /\ DOMAIN warned = Warnings /\ warned = [w \in Warnings |-> warned[w]]
      /\ warned["disputed"] \subseteq ManifestNames
      /\ \A w \in Warnings \ {"disputed"} : warned[w] \subseteq DOMAIN found
      /\ warned["wide"] = Dealt("wide")
      /\ budget # -1 => Skipped = {} /\ warned["budget"] = {}
      /\ budget = -1 => \E e \in Skipped : warned["budget"] = {e}
  BY DEF LogAgrees
<1>3. ASSUME NEW kind \in Warnings, Warn(kind)
      PROVE  /\ DOMAIN warned' = Warnings /\ warned' = [w \in Warnings |-> warned'[w]]
             /\ \A w \in Warnings : warned'[w] = IF w = kind THEN warned[w] \cup {d} ELSE warned[w]
  BY <1>2, <1>3 DEF Warn
<1>4. CASE how \in {"passed", "entered", "unlisted"} /\ budget' = budget /\ warned' = warned
  <2>1. Skipped' = Skipped /\ Dealt("wide")' = Dealt("wide")
    BY <1>1, <1>4 DEF Skipped
  <2> QED
    BY <1>1, <1>2, <1>4, <2>1 DEF LogAgrees
<1>5. CASE how = "wide" /\ budget' = budget /\ Warn("wide")
  <2>1. Skipped' = Skipped /\ Dealt("wide")' = Dealt("wide") \cup {d}
    BY <1>1, <1>5 DEF Skipped
  <2>2. /\ DOMAIN warned' = Warnings /\ warned' = [w \in Warnings |-> warned'[w]]
        /\ \A w \in Warnings : warned'[w] = IF w = "wide" THEN warned[w] \cup {d} ELSE warned[w]
    BY <1>3, <1>5 DEF Warnings
  <2> QED
    BY <1>1, <1>2, <1>5, <2>1, <2>2 DEF LogAgrees, Warnings
<1>6. CASE /\ how = "read" /\ budget > 0 /\ budget' = budget - 1
           /\ warned' = warned \/ Warn("manifest")
  <2>1. Skipped' = Skipped /\ Dealt("wide")' = Dealt("wide")
    BY <1>1, <1>6 DEF Skipped
  <2>2. budget # -1 /\ budget' # -1
    BY <1>6 DEF BooksAgree
  <2>3. CASE warned' = warned
    BY <1>1, <1>2, <2>1, <2>2, <2>3 DEF LogAgrees
  <2>4. CASE Warn("manifest")
    <3>1. /\ DOMAIN warned' = Warnings /\ warned' = [w \in Warnings |-> warned'[w]]
          /\ \A w \in Warnings :
                warned'[w] = IF w = "manifest" THEN warned[w] \cup {d} ELSE warned[w]
      BY <1>3, <2>4 DEF Warnings
    <3> QED
      BY <1>1, <1>2, <2>1, <2>2, <3>1 DEF LogAgrees, Warnings
  <2> QED
    BY <1>6, <2>3, <2>4
<1>7. CASE how = "skipped" /\ budget = 0 /\ budget' = -1 /\ Warn("budget")
  <2>1. Skipped' = Skipped \cup {d} /\ Dealt("wide")' = Dealt("wide") /\ Skipped = {}
        /\ warned["budget"] = {}
    BY <1>1, <1>2, <1>7 DEF Skipped
  <2>2. /\ DOMAIN warned' = Warnings /\ warned' = [w \in Warnings |-> warned'[w]]
        /\ \A w \in Warnings :
              warned'[w] = IF w = "budget" THEN warned[w] \cup {d} ELSE warned[w]
    BY <1>3, <1>7 DEF Warnings
  <2>3. warned'["budget"] = {d} /\ d \in Skipped'
    BY <2>1, <2>2 DEF Warnings
  <2> QED
    BY <1>1, <1>2, <1>7, <2>1, <2>2, <2>3 DEF LogAgrees, Warnings
<1>8. CASE how = "skipped" /\ budget = -1 /\ budget' = -1 /\ warned' = warned
  <2>1. Skipped' = Skipped \cup {d} /\ Dealt("wide")' = Dealt("wide")
    BY <1>1, <1>8 DEF Skipped
  <2> QED
    BY <1>1, <1>2, <1>8, <2>1 DEF LogAgrees
<1> QED
  BY <1>4, <1>5, <1>6, <1>7, <1>8

--------------------------------------------------------------------------------
(* The roots *)

\* The names a directory was found with.
LEMMA NamesFact ==
    ASSUME BooksAgree, NEW n \in ManifestNames
    PROVE  /\ byName[n] \subseteq DOMAIN found /\ IsFiniteSet(byName[n])
           /\ \A d \in byName[n] : found[d].what = n /\ d \in Spent
           /\ Cardinality(byName[n]) \in Nat
           /\ byName[n] # {} => (Cardinality(byName[n]) > 1 <=> \A d \in DOMAIN found : byName[n] # {d})
<1>1. byName[n] = {d \in Spent : found[d].what = n} /\ Spent \subseteq DOMAIN found
  BY DEF BooksAgree, Spent, Dealt
<1>2. byName[n] \in SUBSET DOMAIN found /\ IsFiniteSet(DOMAIN found)
  BY <1>1 DEF BooksAgree
<1>3. IsFiniteSet(byName[n])
  BY <1>2, FS_Subset
<1>4. Cardinality(byName[n]) \in Nat /\ (Cardinality(byName[n]) = 0 <=> byName[n] = {})
  BY <1>3, FS_CardinalityType, FS_EmptySet
<1>5. Cardinality(byName[n]) = 1 <=> \E d : byName[n] = {d}
  BY <1>3, FS_Singleton
<1>6. (\E d : byName[n] = {d}) <=> (\E d \in DOMAIN found : byName[n] = {d})
  BY <1>2
<1> QED
  BY <1>1, <1>2, <1>3, <1>4, <1>5, <1>6

\* SettleNames: a directory is a root exactly when it has its name alone.
LEMMA ScanSettles ==
    ASSUME ScanInv, SettleNames
    PROVE  ScanInv'
<1> DEFINE sure == {n \in ManifestNames : byName[n] # {} /\ ~Disputed(n)}
           disputed == {n \in ManifestNames : byName[n] # {} /\ Disputed(n)}
<1>1. /\ scan = "scan" /\ queue = <<>> /\ scan' = "done" /\ claimed' = claimed /\ queue' = queue
      /\ budget' = budget /\ byName' = byName /\ found' = found
      /\ warned' = [warned EXCEPT !["disputed"] = disputed]
      /\ roots' = [d \in {CHOOSE e \in byName[n] : TRUE : n \in sure} |->
                      CHOOSE n \in sure : d \in byName[n]]
  BY DEF SettleNames
<1>2. BooksAgree /\ LogAgrees /\ OnceEach /\ claimed \subseteq ManifestNames
  BY DEF ScanInv
<1>3. ASSUME NEW n \in ManifestNames, byName[n] # {}
      PROVE  Disputed(n) <=> n \in claimed \/ \A d \in DOMAIN found : byName[n] # {d}
  BY <1>2, <1>3, NamesFact DEF Disputed
<1>5. /\ DOMAIN warned' = Warnings /\ warned' = [w \in Warnings |-> warned'[w]]
      /\ warned'["disputed"] = disputed /\ disputed \subseteq ManifestNames
      /\ \A w \in Warnings \ {"disputed"} : warned'[w] = warned[w]
  BY <1>1, <1>2 DEF LogAgrees, Warnings
<1>6. LogAgrees'
  <2>1. Skipped' = Skipped /\ Dealt("wide")' = Dealt("wide")
    BY <1>1 DEF Dealt, Skipped
  <2>2. warned'["wide"] = warned["wide"] /\ warned'["budget"] = warned["budget"]
    BY <1>5 DEF Warnings
  <2> HIDE DEF disputed
  <2> QED
    BY <1>1, <1>2, <1>5, <2>1, <2>2 DEF LogAgrees
<1>7. BooksAgree'
  <2>1. Given' = Given /\ Spent' = Spent
    BY <1>1 DEF Given, Spent, Dealt
  <2> QED
    BY <1>1, <1>2, <2>1 DEF BooksAgree
<1>8. OnceEach'
  BY <1>1, <1>2 DEF OnceEach
<1>9. ASSUME NEW n \in sure PROVE \E d \in DOMAIN found : byName[n] = {d} /\ n \notin claimed
  BY <1>3
<1>10. ASSUME NEW n \in ManifestNames, NEW m \in ManifestNames, NEW d \in byName[n], d \in byName[m]
       PROVE  n = m
  BY <1>2, <1>10, NamesFact
<1>11. ASSUME NEW d \in DOMAIN roots'
       PROVE  roots'[d] \in sure /\ byName[roots'[d]] = {d}
  <2>1. PICK n \in sure : d = CHOOSE e \in byName[n] : TRUE
    BY <1>1
  <2>2. PICK e \in DOMAIN found : byName[n] = {e}
    BY <1>9
  <2>3. byName[n] = {d}
    BY <2>1, <2>2
  <2>4. roots'[d] = CHOOSE m \in sure : d \in byName[m]
    BY <1>1
  <2>5. roots'[d] \in sure /\ d \in byName[roots'[d]]
    BY <2>3, <2>4
  <2> QED
    BY <1>10, <2>3, <2>5
<1>12. ASSUME NEW n \in ManifestNames, NEW d \in DOMAIN found, byName[n] = {d}, n \notin claimed
       PROVE  d \in DOMAIN roots' /\ roots'[d] = n
  <2>1. n \in sure
    BY <1>3, <1>12
  <2>2. d = CHOOSE e \in byName[n] : TRUE
    BY <1>12
  <2>3. d \in DOMAIN roots'
    BY <1>1, <2>1, <2>2
  <2>4. roots'[d] \in ManifestNames /\ d \in byName[roots'[d]]
    BY <1>11, <2>3
  <2> QED
    BY <1>10, <1>12, <2>3, <2>4
<1>13. Settled'
  <2>1. \A d \in DOMAIN roots' :
            roots'[d] \in ManifestNames /\ byName[roots'[d]] = {d} /\ roots'[d] \notin claimed
    BY <1>9, <1>11
  <2>2. \A n \in ManifestNames :
            byName[n] # {} /\ (n \in claimed \/ \A d \in DOMAIN found : byName[n] # {d})
                => n \in warned'["disputed"]
    BY <1>3, <1>5
  <2>3. \A n \in ManifestNames, d \in DOMAIN found :
            byName[n] = {d} /\ n \notin claimed => d \in DOMAIN roots' /\ roots'[d] = n
    BY <1>12
  <2>4. claimed' = claimed /\ byName' = byName /\ found' = found
    BY <1>1
  <2> QED
    BY <2>1, <2>2, <2>3, <2>4 DEF Settled
<1> QED
  BY <1>1, <1>2, <1>6, <1>7, <1>8, <1>13 DEF ScanInv

--------------------------------------------------------------------------------
(* The scan *)

\* The invariant of the scan holds at the start.
LEMMA ScanInit == ExtInit => ScanInv
<1> SUFFICES ASSUME ExtInit PROVE ScanInv
  OBVIOUS
<1>1. /\ scan = "start" /\ claimed = {} /\ queue = <<>> /\ budget = MaxReads
      /\ byName = [n \in ManifestNames |-> {}]
      /\ warned = [w \in Warnings |-> {}] /\ roots = <<>> /\ found = <<>>
  BY DEF ExtInit
<1>2. DOMAIN found = {}
  BY <1>1
<1>3. OnceEach
  <2>1. queue \in Seq(Paths) /\ DOMAIN queue = {}
    BY <1>1
  <2> QED
    BY <1>1, <1>2, <2>1 DEF OnceEach
<1>4. BooksAgree
  <2>1. Given = {} /\ Spent = {}
    BY <1>2 DEF Given, Spent, Dealt
  <2>2. byName = [n \in ManifestNames |-> {d \in Spent : found[d].what = n}]
    BY <1>1, <2>1
  <2>3. found \in [DOMAIN found -> [what : Answers, how : Hows]]
    <3>1. found = [d \in {} |-> found[d]]
      BY <1>1
    <3> QED
      BY <1>2, <3>1
  <2>5. MaxReads \in Nat /\ budget \in -1 .. MaxReads /\ budget # -1 /\ MaxReads - budget = 0
    BY <1>1, ExtRootsAssumption
  <2> QED
    BY <1>2, <2>1, <2>2, <2>3, <2>5, FS_EmptySet DEF BooksAgree
<1>5. LogAgrees
  <2>1. \A h : Dealt(h) = {}
    BY <1>2 DEF Dealt
  <2>2. budget # -1
    BY <1>1, ExtRootsAssumption
  <2> QED
    BY <1>1, <2>1, <2>2 DEF LogAgrees, Warnings, Skipped
<1> QED
  BY <1>1, <1>3, <1>4, <1>5 DEF ScanInv

\* Every step of the scan keeps it.
LEMMA ScanStep == ScanInv /\ [ExtNext]_extVars => ScanInv'
<1> SUFFICES ASSUME ScanInv, [ExtNext]_extVars PROVE ScanInv'
  OBVIOUS
<1> USE DEF ScanInv
<1> DEFINE next == Head(queue)
<1>1. CASE StartScan
  <2>1. /\ scan' = "scan" /\ scan = "start" /\ claimed' \subseteq ManifestNames
        /\ UNCHANGED <<budget, byName, warned, roots, found>>
    BY <1>1 DEF StartScan
  <2>2. BooksAgree'
    BY <2>1 DEF BooksAgree, Given, Spent, Dealt
  <2>3. LogAgrees'
    BY <2>1 DEF LogAgrees, Skipped, Dealt
  <2> QED
    BY <1>1, <2>1, <2>2, <2>3, StartOnce
<1>2. ASSUME scan = "scan", queue # <<>> PROVE next \notin DOMAIN found
  BY <1>2, NextDirectory
<1>3. CASE PassOver
  <2>1. /\ scan = "scan" /\ queue # <<>> /\ Found(Unnamed, "passed") /\ queue' = Tail(queue)
        /\ UNCHANGED <<scan, claimed, budget, byName, warned, roots>> /\ warned' = warned
    BY <1>3 DEF PassOver
  <2>2. DOMAIN found' = DOMAIN found \cup {next}
    BY <2>1 DEF Found
  <2>3. OnceEach'
    BY <2>1, <2>2, LookOnce
  <2>4. Unnamed \in Answers /\ "passed" \in Hows \ {"read"}
    BY DEF Answers, Hows
  <2>5. BooksAgree'
    BY <1>2, <2>1, <2>4, UnreadBooks
  <2>6. LogAgrees'
    BY <1>2, <2>1, <2>4, LogBooks
  <2> QED
    BY <2>1, <2>3, <2>5, <2>6
<1>4. CASE ReadManifest
  <2>1. /\ scan = "scan" /\ queue # <<>> /\ queue' = Tail(queue)
        /\ UNCHANGED <<scan, claimed, roots>>
    BY <1>4 DEF ReadManifest
  <2>2. PICK manifest \in Answers :
          IF budget <= 0
          THEN /\ Found(manifest, "skipped") /\ UNCHANGED byName
               /\ IF budget = 0 THEN Warn("budget") /\ budget' = budget - 1
                                ELSE UNCHANGED <<warned, budget>>
          ELSE /\ Found(manifest, "read") /\ budget' = budget - 1
               /\ IF manifest = Broken THEN Warn("manifest") ELSE UNCHANGED warned
               /\ byName' = [n \in ManifestNames |->
                      byName[n] \cup IF n = manifest THEN {Head(queue)} ELSE {}]
    BY <1>4 DEF ReadManifest, Answers
  <2>3. DOMAIN found' = DOMAIN found \cup {next}
    BY <2>2 DEF Found
  <2>4. OnceEach'
    BY <2>1, <2>3, LookOnce
  <2>5. budget \in -1 .. MaxReads /\ MaxReads \in Nat
        /\ "skipped" \in Hows \ {"read"} /\ "read" \in Hows
    BY ExtRootsAssumption DEF BooksAgree, Hows
  <2>6. CASE budget = 0
    <3>1. Found(manifest, "skipped") /\ byName' = byName /\ Warn("budget") /\ budget' = -1
      <4>1. budget <= 0 /\ budget - 1 = -1
        BY <2>6
      <4>2. Found(manifest, "skipped") /\ byName' = byName /\ Warn("budget") /\ budget' = budget - 1
        BY <2>2, <2>6, <4>1, Zenon
      <4> QED
        BY <4>1, <4>2
    <3> QED
      BY <1>2, <2>1, <2>4, <2>5, <2>6, <3>1, UnreadBooks, LogBooks
  <2>7. CASE budget = -1
    <3>1. /\ Found(manifest, "skipped") /\ byName' = byName /\ warned' = warned /\ budget' = budget
      <4>1. budget <= 0 /\ budget # 0
        BY <2>7
      <4>2. Found(manifest, "skipped") /\ byName' = byName /\ UNCHANGED <<warned, budget>>
        BY <2>2, <4>1, Zenon
      <4> QED
        BY <2>5, <4>2
    <3> QED
      BY <1>2, <2>1, <2>4, <2>5, <2>7, <3>1, UnreadBooks, LogBooks
  <2>8. CASE budget > 0
    <3>1. /\ Found(manifest, "read") /\ budget' = budget - 1
          /\ IF manifest = Broken THEN Warn("manifest") ELSE UNCHANGED warned
          /\ byName' = [n \in ManifestNames |->
                            byName[n] \cup IF n = manifest THEN {Head(queue)} ELSE {}]
      <4>1. ~(budget <= 0)
        BY <2>5, <2>8
      <4> QED
        BY <2>2, <4>1, Zenon
    <3> QED
      BY <1>2, <2>1, <2>4, <2>5, <2>8, <3>1, ReadBooks, LogBooks
  <2> QED
    BY <2>5, <2>6, <2>7, <2>8
<1>5. CASE Descend
  <2>1. /\ scan = "scan" /\ queue # <<>> /\ Len(Head(queue)) = 1
        /\ UNCHANGED <<scan, claimed, budget, byName, roots>>
    BY <1>5 DEF Descend
  <2>2. /\ Unnamed \in Answers
        /\ {"entered", "wide", "unlisted"} \subseteq Hows \ {"read"}
    BY DEF Answers, Hows
  <2>3. CASE /\ Found(Unnamed, "entered") /\ UNCHANGED warned
             /\ \E n \in 0 .. MaxNested :
                   queue' = [i \in 1 .. n |-> Append(Head(queue), i)] \o Tail(queue)
    <3>1. PICK n \in 0 .. MaxNested :
             queue' = [i \in 1 .. n |-> Append(Head(queue), i)] \o Tail(queue)
      BY <2>3
    <3>2. n \in Nat /\ DOMAIN found' = DOMAIN found \cup {next}
      BY <2>3 DEF Found
    <3>3. OnceEach'
      BY <2>1, <3>1, <3>2, DescendOnce, Zenon
    <3>4. BooksAgree' /\ LogAgrees'
      BY <1>2, <2>1, <2>2, <2>3, UnreadBooks, LogBooks
    <3> QED
      BY <2>1, <3>3, <3>4
  <2>4. CASE Found(Unnamed, "wide") /\ Warn("wide") /\ queue' = Tail(queue)
    <3>1. DOMAIN found' = DOMAIN found \cup {next}
      BY <2>4 DEF Found
    <3> QED
      BY <1>2, <2>1, <2>2, <2>4, <3>1, LookOnce, UnreadBooks, LogBooks
  <2>5. CASE Found(Unnamed, "unlisted") /\ UNCHANGED warned /\ queue' = Tail(queue)
    <3>1. DOMAIN found' = DOMAIN found \cup {next}
      BY <2>5 DEF Found
    <3> QED
      BY <1>2, <2>1, <2>2, <2>5, <3>1, LookOnce, UnreadBooks, LogBooks
  <2> QED
    BY <1>5, <2>3, <2>4, <2>5 DEF Descend
<1>6. CASE SettleNames
  BY <1>6, ScanSettles
<1>7. CASE UNCHANGED extVars
  <2>1. UNCHANGED <<scan, claimed, queue, budget, byName, warned, roots, found>>
    BY <1>7 DEF extVars
  <2>2. OnceEach'
    BY <2>1 DEF OnceEach
  <2>3. BooksAgree' /\ LogAgrees'
    BY <2>1 DEF BooksAgree, LogAgrees, Given, Spent, Skipped, Dealt
  <2> QED
    BY <2>1, <2>2, <2>3 DEF Settled
<1> QED
  BY <1>1, <1>3, <1>4, <1>5, <1>6, <1>7 DEF ExtNext

\* The invariant of the scan holds throughout.
LEMMA ScanInvariant == RootsSpec => []ScanInv
  BY ScanInit, ScanStep, PTL DEF RootsSpec

\* At the end a directory whose manifest was read has its name in the books, and is
\* a root or has a disputed name.
LEMMA WhereNamesGo ==
    ASSUME ScanInv, scan = "done", NEW d \in Dealt("read"), NEW n \in ManifestNames, Holds(d, n)
    PROVE  d \in byName[n] /\ (d \in DOMAIN roots \/ n \in warned["disputed"])
<1>1. BooksAgree /\ Settled
  BY DEF ScanInv
<1>2. d \in byName[n] /\ d \in DOMAIN found
  BY <1>1 DEF BooksAgree, Spent, Dealt, Holds
<1> QED
  BY <1>1, <1>2 DEF Settled

\* Whatever has a name has a manifest, which was read or skipped.
NamedIsManifest ==
    \A d \in DOMAIN found : found[d].what \in ManifestNames => d \in Spent \cup Skipped

LEMMA NamedFound ==
    ASSUME BooksAgree, NamedIsManifest, NEW d, d = Head(queue), d \notin DOMAIN found,
           NEW what \in Answers, NEW how \in Hows, Found(what, how),
           what = Unnamed \/ how \in {"read", "skipped"}
    PROVE  NamedIsManifest'
<1>1. /\ DOMAIN found' = DOMAIN found \cup {d} /\ found'[d].what = what
      /\ \A e \in DOMAIN found : found'[e] = found[e]
      /\ \A h : Dealt(h)' = IF h = how THEN Dealt(h) \cup {d} ELSE Dealt(h)
  BY FoundFact
<1>2. /\ Spent' = IF how = "read" THEN Spent \cup {d} ELSE Spent
      /\ Skipped' = IF how = "skipped" THEN Skipped \cup {d} ELSE Skipped
  BY <1>1 DEF Spent, Skipped
<1>3. Unnamed \notin ManifestNames
  BY ExtRootsAssumption
<1> QED
  BY <1>1, <1>2, <1>3 DEF NamedIsManifest

LEMMA NamedInvariant == RootsSpec => []NamedIsManifest
<1>1. ExtInit => NamedIsManifest
  BY DEF ExtInit, NamedIsManifest
<1>2. ScanInv /\ NamedIsManifest /\ [ExtNext]_extVars => NamedIsManifest'
  <2> SUFFICES ASSUME ScanInv, NamedIsManifest, [ExtNext]_extVars PROVE NamedIsManifest'
    OBVIOUS
  <2>1. CASE UNCHANGED found
    BY <2>1 DEF NamedIsManifest, Spent, Skipped, Dealt
  <2>2. StartScan \/ SettleNames \/ UNCHANGED extVars => UNCHANGED found
    BY DEF StartScan, SettleNames, extVars
  <2>3. CASE PassOver \/ ReadManifest \/ Descend
    <3>1. scan = "scan" /\ queue # <<>> /\ BooksAgree /\ OnceEach
      BY <2>3 DEF PassOver, ReadManifest, Descend, ScanInv
    <3>2. Head(queue) \notin DOMAIN found
      BY <3>1, NextDirectory
    <3>3. /\ Unnamed \in Answers /\ ManifestNames \cup {Unnamed, Broken} = Answers
          /\ {"passed", "read", "skipped", "entered", "wide", "unlisted"} = Hows
      BY DEF Answers, Hows
    <3>4. \E what \in Answers, how \in Hows :
             Found(what, how) /\ (what = Unnamed \/ how \in {"read", "skipped"})
      <4>1. CASE PassOver
        BY <3>3, <4>1 DEF PassOver
      <4>2. CASE ReadManifest
        BY <3>3, <4>2 DEF ReadManifest
      <4>3. CASE Descend
        BY <3>3, <4>3 DEF Descend
      <4> QED
        BY <2>3, <4>1, <4>2, <4>3
    <3> QED
      BY <3>1, <3>2, <3>4, NamedFound
  <2> QED
    BY <2>1, <2>2, <2>3 DEF ExtNext
<1> QED
  BY <1>1, <1>2, ScanInvariant, PTL DEF RootsSpec

--------------------------------------------------------------------------------
(* The invariants *)

\* The scan keeps to its types, and reads no more manifests than its budget.
THEOREM ScanTypeCorrect == RootsSpec => []ExtTypeOK
<1>1. ScanInv => ExtTypeOK
  <2> SUFFICES ASSUME ScanInv PROVE ExtTypeOK
    OBVIOUS
  <2>1. BooksAgree /\ MaxReads \in Nat
    BY ExtRootsAssumption DEF ScanInv
  <2>2. DOMAIN roots \subseteq DOMAIN found
    <3>1. CASE scan # "done"
      BY <3>1 DEF ScanInv
    <3>2. CASE scan = "done"
      <4>1. ASSUME NEW d \in DOMAIN roots PROVE d \in DOMAIN found
        <5>1. roots[d] \in ManifestNames /\ d \in byName[roots[d]]
          BY <3>2 DEF ScanInv, Settled
        <5> QED
          BY <2>1, <5>1, NamesFact
      <4> QED
        BY <4>1
    <3> QED
      BY <3>1, <3>2
  <2>3. Cardinality(Spent) <= MaxReads
    BY <2>1 DEF BooksAgree
  <2> QED
    BY <2>1, <2>2, <2>3 DEF ScanInv, BooksAgree, LogAgrees, ExtTypeOK, Spent, Dealt
<1> QED
  BY <1>1, ScanInvariant, PTL

\* discover_extension_roots: an extension that was found and has no namespace has a
\* name the log calls disputed, or was beyond the budget, which has one line in the
\* log; and each wrapper that was too wide has one.
THEOREM LossIsLogged == RootsSpec => []NoSilentLoss
<1>1. ScanInv /\ NamedIsManifest => NoSilentLoss
  <2> SUFFICES ASSUME ScanInv, NamedIsManifest, scan = "done" PROVE NoSilentLoss
    BY DEF NoSilentLoss
  <2>1. /\ warned["wide"] = Dealt("wide")
        /\ budget # -1 => Skipped = {} /\ warned["budget"] = {}
        /\ budget = -1 => \E d \in Skipped : warned["budget"] = {d}
    BY DEF ScanInv, LogAgrees
  <2>2. ASSUME NEW d \in DOMAIN found, NEW n \in ManifestNames, Holds(d, n), d \notin DOMAIN roots
        PROVE  n \in warned["disputed"] \/ d \in Skipped
    BY <2>2, WhereNamesGo DEF NamedIsManifest, Holds, Spent
  <2>3. IF Skipped = {} THEN warned["budget"] = {}
                        ELSE \E d \in Skipped : warned["budget"] = {d}
    BY <2>1
  <2> QED
    BY <2>1, <2>2, <2>3 DEF NoSilentLoss
<1> QED
  BY <1>1, ScanInvariant, NamedInvariant, PTL

\* The roots are the directories whose manifest was read and whose name nobody else
\* has of which that is so: the order of the scan decides nothing among those.
THEOREM RootsAreSure == RootsSpec => []RootsAreUndisputed
<1>1. ScanInv => RootsAreUndisputed
  <2> SUFFICES ASSUME ScanInv, scan = "done", NEW d \in DOMAIN found, NEW n \in ManifestNames
               PROVE  (d \in DOMAIN roots /\ roots[d] = n) =
                      /\ d \in Dealt("read") /\ Holds(d, n) /\ n \notin claimed
                      /\ \A e \in Dealt("read") : Holds(e, n) => e = d
    BY DEF RootsAreUndisputed
  <2>1. BooksAgree /\ Settled
    BY DEF ScanInv
  <2>2. byName[n] = {e \in Dealt("read") : Holds(e, n)}
    BY <2>1 DEF BooksAgree, Spent, Holds
  <2>3. byName[n] = {d} <=> /\ d \in Dealt("read") /\ Holds(d, n)
                            /\ \A e \in Dealt("read") : Holds(e, n) => e = d
    BY <2>2
  <2>4. (d \in DOMAIN roots /\ roots[d] = n) <=> byName[n] = {d} /\ n \notin claimed
    BY <2>1 DEF Settled
  <2> QED
    BY <2>3, <2>4
<1> QED
  BY <1>1, ScanInvariant, PTL

--------------------------------------------------------------------------------
(* Names of modules: ModuleNames                                                *)

\* Short names put together.
LEMMA ShortNames ==
    ASSUME NEW a, NEW b, NEW c, NEW d, NEW e
    PROVE  /\ <<a, b>> \o <<>> \o <<e>> = <<a, b, e>>
           /\ <<a, b>> \o <<c, d>> \o <<e>> = <<a, b, c, d, e>>
<1> DEFINE S == {a, b, c, d, e}
<1>1. /\ <<a, b>> \in Seq(S) /\ <<c, d>> \in Seq(S) /\ <<e>> \in Seq(S) /\ <<>> \in Seq(S)
      /\ <<a, b, e>> \in Seq(S) /\ <<a, b, c, d, e>> \in Seq(S)
  OBVIOUS
<1> HIDE DEF S
<1>2. <<a, b>> \o <<>> \o <<e>> = <<a, b, e>>
  <2>1. <<a, b>> \o <<>> = <<a, b>>
    BY <1>1, ConcatEmptySeq
  <2>2. /\ <<a, b>> \o <<e>> \in Seq(S) /\ Len(<<a, b>> \o <<e>>) = 3
        /\ \A i \in 1 .. 3 : (<<a, b>> \o <<e>>)[i] = <<a, b, e>>[i]
    BY <1>1, ConcatProperties
  <2> QED
    BY <1>1, <2>1, <2>2, SeqEqual
<1>3. <<a, b>> \o <<c, d>> \o <<e>> = <<a, b, c, d, e>>
  <2>1. /\ <<a, b>> \o <<c, d>> \in Seq(S) /\ Len(<<a, b>> \o <<c, d>>) = 4
        /\ \A i \in 1 .. 4 : (<<a, b>> \o <<c, d>>)[i] = <<a, b, c, d>>[i]
    BY <1>1, ConcatProperties
  <2>2. <<a, b, c, d>> \in Seq(S) /\ Len(<<a, b, c, d>>) = 4
    BY DEF S
  <2>3. <<a, b>> \o <<c, d>> = <<a, b, c, d>>
    BY <2>1, <2>2, SeqEqual
  <2>4. /\ <<a, b, c, d>> \o <<e>> \in Seq(S) /\ Len(<<a, b, c, d>> \o <<e>>) = 5
        /\ \A i \in 1 .. 5 : (<<a, b, c, d>> \o <<e>>)[i] = <<a, b, c, d, e>>[i]
    BY <1>1, <2>2, ConcatProperties
  <2> QED
    BY <1>1, <2>3, <2>4, SeqEqual
<1> QED
  BY <1>2, <1>3

\* A name is put together from four parts.
LEMMA BaseParts ==
    ASSUME NEW parts, NEW a, NEW b, NEW s, NEW e,
           Prefix(parts[1]) = a, parts[2] = b,
           (IF parts[1] = "CommonModules" /\ parts[Len(parts)] = "Module" /\ "Forms" \notin Segments(parts)
            THEN "Module" ELSE Suffix(parts[Len(parts)])) = e
    PROVE  /\ Child(parts) = {} => BaseName(parts) = <<a, b, e>>
           /\ \A i, c, d : Child(parts) = {i} /\ Subdirs[parts[i]] = c /\ parts[i + 1] = d
                 => BaseName(parts) = <<a, b, c, d, e>>
<1> DEFINE child == {<<Subdirs[parts[i]], parts[i + 1]>> : i \in Child(parts)}
           middle == IF child = {} THEN <<>> ELSE CHOOSE segment \in child : TRUE
<1>1. BaseName(parts) = <<a, b>> \o middle \o <<e>>
  BY DEF BaseName
<1>2. Child(parts) = {} => middle = <<>>
  OBVIOUS
<1>3. ASSUME NEW i, NEW c, NEW d, Child(parts) = {i}, Subdirs[parts[i]] = c, parts[i + 1] = d
      PROVE  middle = <<c, d>>
  <2>1. child = {<<c, d>>}
    BY <1>3
  <2> QED
    BY <2>1
<1> HIDE DEF middle
<1>4. ASSUME Child(parts) = {}
      PROVE  BaseName(parts) = <<a, b, e>>
  <2>1. BaseName(parts) = <<a, b>> \o <<>> \o <<e>>
    BY <1>1, <1>2, <1>4
  <2> QED
    BY <2>1, ShortNames
<1>5. ASSUME NEW i, NEW c, NEW d, Child(parts) = {i}, Subdirs[parts[i]] = c, parts[i + 1] = d
      PROVE  BaseName(parts) = <<a, b, c, d, e>>
  <2>1. BaseName(parts) = <<a, b>> \o <<c, d>> \o <<e>>
    BY <1>1, <1>3, <1>5
  <2> QED
    BY <2>1, ShortNames
<1> QED
  BY <1>4, <1>5

\* The words of the names.
LEMMA SegmentWords ==
    /\ Prefix("Catalogs") = "Catalog" /\ Prefix("CommonModules") = "CommonModule"
    /\ Prefix("CommonForms") = "CommonForm"
    /\ Suffix("ObjectModule") = "ModuleOfObject" /\ Suffix("Module") = "ModuleOfForm"
    /\ Suffix("CommandModule") = "ModuleOfCommand"
    /\ Suffix("RecordSetModule") = "ModuleOfRecordSet"
    /\ Prefix("CalculationRegisters") = "CalculationRegister"
    /\ Prefix("ExternalDataSources") = "ExternalDataSources"
    /\ Subdirs["Forms"] = "Form" /\ Subdirs["Commands"] = "Command"
  BY DEF Prefix, Suffix, Subdirs, DumpDirNames, FileSuffixes

\* The names of the files say which file it is, and none begins with "ext".
LEMMA BaseNames ==
    /\ BaseName(<<"Catalogs", "A", "Ext", "ObjectModule">>)
         = <<"Catalog", "A", "ModuleOfObject">>
    /\ BaseName(<<"CommonModules", "A", "Ext", "Module">>) = <<"CommonModule", "A", "Module">>
    /\ BaseName(<<"CommonForms", "A", "Ext", "Form", "Module">>)
         = <<"CommonForm", "A", "ModuleOfForm">>
    /\ BaseName(<<"Catalogs", "A", "Forms", "F", "Ext", "Form", "Module">>)
         = <<"Catalog", "A", "Form", "F", "ModuleOfForm">>
    /\ BaseName(<<"Catalogs", "A", "Forms", "G", "Ext", "Form", "Module">>)
         = <<"Catalog", "A", "Form", "G", "ModuleOfForm">>
    /\ BaseName(<<"Catalogs", "A", "Commands", "F", "Ext", "CommandModule">>)
         = <<"Catalog", "A", "Command", "F", "ModuleOfCommand">>
    /\ BaseName(<<"CalculationRegisters", "A", "Ext", "RecordSetModule">>)
         = <<"CalculationRegister", "A", "ModuleOfRecordSet">>
    /\ BaseName(<<"CalculationRegisters", "A", "Recalculations", "R", "Ext", "RecordSetModule">>)
         = <<"CalculationRegister", "A", "ModuleOfRecordSet">>
    /\ BaseName(<<"ExternalDataSources", "A", "Tables", "T", "Ext", "ObjectModule">>)
         = <<"ExternalDataSources", "A", "ModuleOfObject">>
    /\ BaseName(<<"ExternalDataSources", "A", "Tables", "T", "Forms", "F", "Ext", "Form", "Module">>)
         = <<"ExternalDataSources", "A", "Form", "F", "ModuleOfForm">>
<1>1. BaseName(<<"Catalogs", "A", "Ext", "ObjectModule">>)
        = <<"Catalog", "A", "ModuleOfObject">>
  <2> DEFINE p == <<"Catalogs", "A", "Ext", "ObjectModule">>
  <2>1. p[1] = "Catalogs" /\ p[2] = "A" /\ p[Len(p)] = "ObjectModule"
    OBVIOUS
  <2>2. Child(p) = {}
    BY DEF Child, Subdirs
  <2> HIDE DEF p
  <2>4. BaseName(p) = <<"Catalog", "A", "ModuleOfObject">>
    BY <2>1, <2>2, BaseParts, SegmentWords
  <2> QED
    BY <2>4 DEF p
<1>2. BaseName(<<"CommonModules", "A", "Ext", "Module">>)
        = <<"CommonModule", "A", "Module">>
  <2> DEFINE p == <<"CommonModules", "A", "Ext", "Module">>
  <2>1. p[1] = "CommonModules" /\ p[2] = "A" /\ p[Len(p)] = "Module"
    OBVIOUS
  <2>2. Child(p) = {}
    BY DEF Child, Subdirs
  <2>3. "Forms" \notin Segments(p)
    BY DEF Segments
  <2> HIDE DEF p
  <2>4. BaseName(p) = <<"CommonModule", "A", "Module">>
    BY <2>1, <2>2, <2>3, BaseParts, SegmentWords
  <2> QED
    BY <2>4 DEF p
<1>3. BaseName(<<"CommonForms", "A", "Ext", "Form", "Module">>)
        = <<"CommonForm", "A", "ModuleOfForm">>
  <2> DEFINE p == <<"CommonForms", "A", "Ext", "Form", "Module">>
  <2>1. p[1] = "CommonForms" /\ p[2] = "A" /\ p[Len(p)] = "Module"
    OBVIOUS
  <2>2. Child(p) = {}
    BY DEF Child, Subdirs
  <2> HIDE DEF p
  <2>4. BaseName(p) = <<"CommonForm", "A", "ModuleOfForm">>
    BY <2>1, <2>2, BaseParts, SegmentWords
  <2> QED
    BY <2>4 DEF p
<1>4. BaseName(<<"Catalogs", "A", "Forms", "F", "Ext", "Form", "Module">>)
        = <<"Catalog", "A", "Form", "F", "ModuleOfForm">>
  <2> DEFINE p == <<"Catalogs", "A", "Forms", "F", "Ext", "Form", "Module">>
  <2>1. p[1] = "Catalogs" /\ p[2] = "A" /\ p[Len(p)] = "Module"
    OBVIOUS
  <2>2. Child(p) = {3} /\ p[3] = "Forms" /\ p[3 + 1] = "F"
    BY DEF Child, Subdirs
  <2> HIDE DEF p
  <2>4. BaseName(p) = <<"Catalog", "A", "Form", "F", "ModuleOfForm">>
    BY <2>1, <2>2, BaseParts, SegmentWords
  <2> QED
    BY <2>4 DEF p
<1>5. BaseName(<<"Catalogs", "A", "Forms", "G", "Ext", "Form", "Module">>)
        = <<"Catalog", "A", "Form", "G", "ModuleOfForm">>
  <2> DEFINE p == <<"Catalogs", "A", "Forms", "G", "Ext", "Form", "Module">>
  <2>1. p[1] = "Catalogs" /\ p[2] = "A" /\ p[Len(p)] = "Module"
    OBVIOUS
  <2>2. Child(p) = {3} /\ p[3] = "Forms" /\ p[3 + 1] = "G"
    BY DEF Child, Subdirs
  <2> HIDE DEF p
  <2>4. BaseName(p) = <<"Catalog", "A", "Form", "G", "ModuleOfForm">>
    BY <2>1, <2>2, BaseParts, SegmentWords
  <2> QED
    BY <2>4 DEF p
<1>6. BaseName(<<"Catalogs", "A", "Commands", "F", "Ext", "CommandModule">>)
        = <<"Catalog", "A", "Command", "F", "ModuleOfCommand">>
  <2> DEFINE p == <<"Catalogs", "A", "Commands", "F", "Ext", "CommandModule">>
  <2>1. p[1] = "Catalogs" /\ p[2] = "A" /\ p[Len(p)] = "CommandModule"
    OBVIOUS
  <2>2. Child(p) = {3} /\ p[3] = "Commands" /\ p[3 + 1] = "F"
    BY DEF Child, Subdirs
  <2> HIDE DEF p
  <2>4. BaseName(p) = <<"Catalog", "A", "Command", "F", "ModuleOfCommand">>
    BY <2>1, <2>2, BaseParts, SegmentWords
  <2> QED
    BY <2>4 DEF p
<1>7. BaseName(<<"CalculationRegisters", "A", "Ext", "RecordSetModule">>)
        = <<"CalculationRegister", "A", "ModuleOfRecordSet">>
  <2> DEFINE p == <<"CalculationRegisters", "A", "Ext", "RecordSetModule">>
  <2>1. p[1] = "CalculationRegisters" /\ p[2] = "A" /\ p[Len(p)] = "RecordSetModule"
    OBVIOUS
  <2>2. Child(p) = {}
    BY DEF Child, Subdirs
  <2> HIDE DEF p
  <2>4. BaseName(p) = <<"CalculationRegister", "A", "ModuleOfRecordSet">>
    BY <2>1, <2>2, BaseParts, SegmentWords
  <2> QED
    BY <2>4 DEF p
<1>8. BaseName(<<"CalculationRegisters", "A", "Recalculations", "R", "Ext", "RecordSetModule">>)
        = <<"CalculationRegister", "A", "ModuleOfRecordSet">>
  <2> DEFINE p == <<"CalculationRegisters", "A", "Recalculations", "R", "Ext", "RecordSetModule">>
  <2>1. p[1] = "CalculationRegisters" /\ p[2] = "A" /\ p[Len(p)] = "RecordSetModule"
    OBVIOUS
  <2>2. Child(p) = {}
    BY DEF Child, Subdirs
  <2> HIDE DEF p
  <2>4. BaseName(p) = <<"CalculationRegister", "A", "ModuleOfRecordSet">>
    BY <2>1, <2>2, BaseParts, SegmentWords
  <2> QED
    BY <2>4 DEF p
<1>9. BaseName(<<"ExternalDataSources", "A", "Tables", "T", "Ext", "ObjectModule">>)
        = <<"ExternalDataSources", "A", "ModuleOfObject">>
  <2> DEFINE p == <<"ExternalDataSources", "A", "Tables", "T", "Ext", "ObjectModule">>
  <2>1. p[1] = "ExternalDataSources" /\ p[2] = "A" /\ p[Len(p)] = "ObjectModule"
    OBVIOUS
  <2>2. Child(p) = {}
    BY DEF Child, Subdirs
  <2> HIDE DEF p
  <2>4. BaseName(p) = <<"ExternalDataSources", "A", "ModuleOfObject">>
    BY <2>1, <2>2, BaseParts, SegmentWords
  <2> QED
    BY <2>4 DEF p
<1>10. BaseName(<<"ExternalDataSources", "A", "Tables", "T", "Forms", "F", "Ext", "Form", "Module">>)
        = <<"ExternalDataSources", "A", "Form", "F", "ModuleOfForm">>
  <2> DEFINE p == <<"ExternalDataSources", "A", "Tables", "T", "Forms", "F", "Ext", "Form", "Module">>
  <2>1. p[1] = "ExternalDataSources" /\ p[2] = "A" /\ p[Len(p)] = "Module"
    OBVIOUS
  <2>2. Child(p) = {5} /\ p[5] = "Forms" /\ p[5 + 1] = "F"
    BY DEF Child, Subdirs
  <2> HIDE DEF p
  <2>4. BaseName(p) = <<"ExternalDataSources", "A", "Form", "F", "ModuleOfForm">>
    BY <2>1, <2>2, BaseParts, SegmentWords
  <2> QED
    BY <2>4 DEF p
<1> QED
  BY <1>1, <1>2, <1>3, <1>4, <1>5, <1>6, <1>7, <1>8, <1>9, <1>10

--------------------------------------------------------------------------------
(* Where the roots are                                                          *)

\* Only what is not rejected has a name, and a directory that was looked into has
\* none itself.
HomesApart ==
    /\ \A d \in DOMAIN found : found[d].what # Unnamed => ~Rejected(d)
    /\ \A d \in DOMAIN found : Len(d) = 2 => found[<<d[1]>>].what = Unnamed
    /\ \A i \in DOMAIN queue : Len(queue[i]) = 2 => found[<<queue[i][1]>>].what = Unnamed

\* One more directory is found: what was known of the others stays.
LEMMA FoundApart ==
    ASSUME ScanInv, HomesApart, queue # <<>>, NEW what, NEW how, Found(what, how),
           what # Unnamed => ~Rejected(Head(queue))
    PROVE  /\ \A d \in DOMAIN found' : found'[d].what # Unnamed => ~Rejected(d)
           /\ \A d \in DOMAIN found' : Len(d) = 2 => found'[<<d[1]>>].what = Unnamed
           /\ \A i \in DOMAIN Tail(queue) :
                 Len(Tail(queue)[i]) = 2 => found'[<<Tail(queue)[i][1]>>].what = Unnamed
           /\ found'[Head(queue)].what = what
<1> DEFINE next == Head(queue)
<1>1. /\ DOMAIN found' = DOMAIN found \cup {next}
      /\ found'[next] = [what |-> what, how |-> how]
      /\ next \notin DOMAIN found => \A e \in DOMAIN found : found'[e] = found[e]
  BY DEF Found
<1>2. /\ next \in Paths /\ next \notin DOMAIN found
      /\ \A i \in DOMAIN Tail(queue) : i + 1 \in DOMAIN queue /\ Tail(queue)[i] = queue[i + 1]
      /\ Len(next) = 2 => <<next[1]>> \in DOMAIN found
  BY NextDirectory DEF ScanInv
<1>3. /\ \A d \in DOMAIN found : Len(d) = 2 => <<d[1]>> \in DOMAIN found
      /\ \A i \in DOMAIN queue : Len(queue[i]) = 2 => <<queue[i][1]>> \in DOMAIN found
  BY DEF ScanInv, OnceEach
<1>4. 1 \in DOMAIN queue /\ queue[1] = next
  <2>1. queue \in Seq(Paths)
    BY DEF ScanInv, OnceEach
  <2> QED
    BY <2>1, EmptySeq, LenProperties, HeadTailProperties
<1>5. Len(next) = 2 => found[<<next[1]>>].what = Unnamed
  BY <1>4 DEF HomesApart
<1> QED
  BY <1>1, <1>2, <1>3, <1>5 DEF HomesApart

\* Every step of the scan keeps it.
LEMMA ApartStep == ScanInv /\ HomesApart /\ [ExtNext]_extVars => HomesApart'
<1> SUFFICES ASSUME ScanInv, HomesApart, [ExtNext]_extVars PROVE HomesApart'
  OBVIOUS
<1>1. CASE StartScan
  <2>1. found = <<>> /\ found' = found
        /\ queue' \in {<<>>, [i \in DOMAIN Tops |-> <<Tops[i]>>]}
    BY <1>1 DEF StartScan, ScanInv, OnceEach
  <2>2. \A i \in DOMAIN queue' : Len(queue'[i]) = 1
    BY <2>1
  <2> QED
    BY <2>1, <2>2 DEF HomesApart
<1>2. CASE PassOver
  BY <1>2, FoundApart DEF PassOver, HomesApart
<1>3. CASE ReadManifest
  <2>1. queue # <<>> /\ ~Rejected(Head(queue)) /\ queue' = Tail(queue)
    BY <1>3 DEF ReadManifest
  <2>2. PICK what, how : Found(what, how)
    BY <1>3 DEF ReadManifest
  <2> QED
    BY <2>1, <2>2, FoundApart DEF HomesApart
<1>4. CASE Descend
  <2>1. queue # <<>> /\ Len(Head(queue)) = 1 /\ \E how \in Hows : Found(Unnamed, how)
    BY <1>4 DEF Descend, Hows
  <2>2. PICK n \in Nat :
          \/ queue' = Tail(queue)
          \/ queue' = [i \in 1 .. n |-> Append(Head(queue), i)] \o Tail(queue)
    <3>1. CASE \E n \in 0 .. MaxNested :
                  queue' = [i \in 1 .. n |-> Append(Head(queue), i)] \o Tail(queue)
      <4>1. 0 .. MaxNested \subseteq Nat
        BY ExtRootsAssumption
      <4> QED
        BY <3>1, <4>1
    <3>2. CASE queue' = Tail(queue)
      BY <3>2
    <3> QED
      BY <1>4, <3>1, <3>2, Zenon DEF Descend
  <2>3. CASE queue' = Tail(queue)
    BY <2>1, <2>3, FoundApart DEF HomesApart
  <2>4. CASE queue' = [i \in 1 .. n |-> Append(Head(queue), i)] \o Tail(queue)
    <3>1. Head(queue) \in Paths /\ Tail(queue) \in Seq(Paths)
      BY <2>1, NextDirectory DEF ScanInv
    <3>2. PICK t \in TopSet : Head(queue) = <<t>>
      BY <2>1, <3>1 DEF Paths
    <3>3. queue' = Below(<<t>>, n) \o Tail(queue)
      BY <2>4, <3>2 DEF Below
    <3>8. n \in Nat
      OBVIOUS
    <3> DEFINE longer == Below(<<t>>, n) \o Tail(queue)
    <3>4. \A i \in DOMAIN longer :
             \/ i \in 1 .. n /\ longer[i] = <<t, i>>
             \/ i \in Nat /\ i > n /\ i - n \in DOMAIN Tail(queue) /\ longer[i] = Tail(queue)[i - n]
      BY <3>1, <3>8, NestedQueue, Zenon
    <3> HIDE DEF longer
    <3>5. queue' = longer
      BY <3>3 DEF longer
    <3>6. /\ \A d \in DOMAIN found' : found'[d].what # Unnamed => ~Rejected(d)
          /\ \A d \in DOMAIN found' : Len(d) = 2 => found'[<<d[1]>>].what = Unnamed
          /\ \A i \in DOMAIN Tail(queue) :
                Len(Tail(queue)[i]) = 2 => found'[<<Tail(queue)[i][1]>>].what = Unnamed
          /\ found'[<<t>>].what = Unnamed
      BY <2>1, <3>2, FoundApart
    <3>7. ASSUME NEW i \in DOMAIN longer, Len(longer[i]) = 2
          PROVE  found'[<<longer[i][1]>>].what = Unnamed
      <4>1. CASE longer[i] = <<t, i>>
        <5>1. longer[i][1] = t
          BY <4>1
        <5> QED
          BY <3>6, <5>1
      <4>2. CASE i - n \in DOMAIN Tail(queue) /\ longer[i] = Tail(queue)[i - n]
        BY <3>6, <3>7, <4>2
      <4> QED
        BY <3>4, <4>1, <4>2
    <3> QED
      BY <3>5, <3>6, <3>7 DEF HomesApart
  <2> QED
    BY <2>2, <2>3, <2>4
<1>5. CASE SettleNames
  BY <1>5 DEF SettleNames, HomesApart
<1>6. CASE UNCHANGED extVars
  BY <1>6 DEF extVars, HomesApart
<1> QED
  BY <1>1, <1>2, <1>3, <1>4, <1>5, <1>6 DEF ExtNext

\* Both invariants of the scan hold throughout.
LEMMA ApartInvariant == RootsSpec => [](ScanInv /\ HomesApart)
<1>1. ExtInit => HomesApart
  BY DEF ExtInit, HomesApart
<1> QED
  BY <1>1, ApartStep, ScanInvariant, PTL DEF RootsSpec

--------------------------------------------------------------------------------
(* Whose file it is                                                             *)

FileWords == {"Catalogs", "CommonModules", "CommonForms", "A", "Ext", "Forms", "F", "G", "Form",
              "Module", "ObjectModule", "Commands", "CommandModule", "CalculationRegisters",
              "RecordSetModule", "Recalculations", "R", "ExternalDataSources", "Tables", "T",
              EXTENSIONS}
Pieces == TopSet \cup ManifestNames \cup Nat \cup FileWords

\* The files are paths of four segments or more, in a directory that is rejected or
\* not among those the scan comes to.
LEMMA FileFact ==
    ASSUME NEW file \in Files
    PROVE  /\ file \in Seq(Pieces) /\ Len(file) \in Nat /\ Len(file) >= 4
           /\ file[1] \in DOMAIN DumpDirNames \/ file[1] \notin TopSet
           /\ file[1] # EXTENSIONS
<1> DEFINE Fits(f) == /\ f \in Seq(FileWords) /\ Len(f) \in Nat /\ Len(f) >= 4
                      /\ f[1] \in {"Catalogs", "CommonModules", "CommonForms",
                                   "CalculationRegisters", "ExternalDataSources"}
<1>1. Fits(<<"Catalogs", "A", "Ext", "ObjectModule">>)
  BY DEF FileWords
<1>2. Fits(<<"CommonModules", "A", "Ext", "Module">>)
  BY DEF FileWords
<1>3. Fits(<<"CommonForms", "A", "Ext", "Form", "Module">>)
  BY DEF FileWords
<1>4. Fits(<<"Catalogs", "A", "Forms", "F", "Ext", "Form", "Module">>)
  BY DEF FileWords
<1>5. Fits(<<"Catalogs", "A", "Forms", "G", "Ext", "Form", "Module">>)
  BY DEF FileWords
<1>6. Fits(<<"Catalogs", "A", "Commands", "F", "Ext", "CommandModule">>)
  BY DEF FileWords
<1>11. Fits(<<"CalculationRegisters", "A", "Ext", "RecordSetModule">>)
  BY DEF FileWords
<1>12. Fits(<<"CalculationRegisters", "A", "Recalculations", "R", "Ext", "RecordSetModule">>)
  BY DEF FileWords
<1>13. Fits(<<"ExternalDataSources", "A", "Tables", "T", "Ext", "ObjectModule">>)
  BY DEF FileWords
<1>14. Fits(<<"ExternalDataSources", "A", "Tables", "T", "Forms", "F", "Ext", "Form", "Module">>)
  BY DEF FileWords
<1> HIDE DEF Fits
<1>7. Fits(file)
  BY <1>1, <1>2, <1>3, <1>4, <1>5, <1>6, <1>11, <1>12, <1>13, <1>14
     DEF Files, OwnFiles, NestedFiles
<1>10. "ExternalDataSources" \notin TopSet
  BY ExtRootsAssumption DEF TopSet
<1>8. file \in Seq(FileWords) /\ FileWords \subseteq Pieces
  BY <1>7 DEF Fits, Pieces
<1>9. file \in Seq(Pieces)
  BY <1>8, SeqMonotonic
<1> QED
  BY <1>7, <1>9, <1>10 DEF Fits, DumpDirNames, EXTENSIONS

\* A path put together is taken apart again.
LEMMA PathFact ==
    ASSUME NEW home \in Seq(Pieces), NEW file \in Seq(Pieces), Len(file) > 0
    PROVE  /\ Len(home \o file) = Len(home) + Len(file)
           /\ SubSeq(home \o file, 1, Len(home)) = home
           /\ From(home \o file, Len(home) + 1) = file
           /\ \A i \in 1 .. Len(home) : (home \o file)[i] = home[i]
           /\ \A k \in 1 .. Len(home \o file) :
                 /\ Len(SubSeq(home \o file, 1, k)) = k
                 /\ \A i \in 1 .. k : SubSeq(home \o file, 1, k)[i] = (home \o file)[i]
<1> DEFINE path == home \o file
           n == Len(home)
           m == Len(file)
<1>1. /\ path \in Seq(Pieces) /\ Len(path) = n + m /\ n \in Nat /\ m \in Nat
      /\ \A i \in 1 .. n + m : path[i] = IF i <= n THEN home[i] ELSE file[i - n]
  BY ConcatProperties, LenProperties
<1> HIDE DEF path
<1>2. \A i \in 1 .. n + m : path[i] \in Pieces
  BY <1>1, ElementOfSeq
<1>3. ASSUME NEW k \in 0 .. n + m
      PROVE  /\ SubSeq(path, 1, k) \in Seq(Pieces) /\ Len(SubSeq(path, 1, k)) = k
             /\ \A i \in 1 .. k : SubSeq(path, 1, k)[i] = path[i]
  <2>1. /\ k \in Int /\ 1 \in Int /\ k - 1 + 1 = k /\ (IF 1 <= k THEN k - 1 + 1 ELSE 0) = k
        /\ \A i \in 1 .. k : path[i] \in Pieces /\ 1 + i - 1 = i
    BY <1>1, <1>2
  <2> QED
    BY <2>1, SubSeqProperties
<1>4. SubSeq(path, 1, n) = home
  BY <1>1, <1>3, SeqEqual
<1>5. From(path, n + 1) = file
  <2>1. /\ SubSeq(path, n + 1, n + m) \in Seq(Pieces)
        /\ Len(SubSeq(path, n + 1, n + m)) = m
        /\ \A i \in 1 .. m : SubSeq(path, n + 1, n + m)[i] = path[n + i]
    <3>1. /\ n + 1 \in Int /\ n + m \in Int /\ n + m - (n + 1) + 1 = m
          /\ (IF n + 1 <= n + m THEN n + m - (n + 1) + 1 ELSE 0) = m
          /\ \A i \in n + 1 .. n + m : path[i] \in Pieces
          /\ \A i \in 1 .. m : n + 1 + i - 1 = n + i
      BY <1>1, <1>2
    <3> QED
      BY <3>1, SubSeqProperties
  <2>2. \A i \in 1 .. m : path[n + i] = file[i]
    BY <1>1
  <2>3. SubSeq(path, n + 1, n + m) = file
    BY <1>1, <2>1, <2>2, SeqEqual
  <2> QED
    BY <1>1, <2>3 DEF From
<1> QED
  BY <1>1, <1>3, <1>4, <1>5 DEF path

\* A root is not rejected, and no root is in another one.
LEMMA RootFact ==
    ASSUME ScanInv, HomesApart, scan = "done", NEW home \in DOMAIN roots
    PROVE  /\ home \in Seq(Pieces) /\ ~Rejected(home) /\ roots[home] \in ManifestNames
           /\ home[1] \in TopSet
           /\ (Len(home) = 1 /\ home = <<home[1]>>)
              \/ (Len(home) = 2 /\ <<home[1]>> \notin DOMAIN roots)
<1>1. Settled /\ BooksAgree
  BY DEF ScanInv
<1>2. ASSUME NEW d \in DOMAIN roots
      PROVE  d \in DOMAIN found /\ roots[d] \in ManifestNames /\ found[d].what # Unnamed
  <2>1. roots[d] \in ManifestNames /\ byName[roots[d]] = {d}
    BY <1>1 DEF Settled
  <2> QED
    BY <1>1, <2>1, NamesFact, ExtRootsAssumption
<1>3. home \in Paths
  BY <1>2 DEF ScanInv, OnceEach
<1>4. ~Rejected(home) /\ roots[home] \in ManifestNames
  BY <1>2 DEF HomesApart
<1>5. CASE home \in {<<t>> : t \in TopSet}
  <2>1. PICK t \in TopSet : home = <<t>>
    BY <1>5
  <2>2. home \in Seq(TopSet) /\ TopSet \subseteq Pieces
    BY <2>1 DEF Pieces
  <2> QED
    BY <1>4, <2>1, <2>2, SeqMonotonic
<1>6. CASE home \in TopSet \X Nat
  <2>1. PICK t \in TopSet, i \in Nat : home = <<t, i>>
    BY <1>6
  <2>2. home \in Seq(TopSet \cup Nat) /\ TopSet \cup Nat \subseteq Pieces
    BY <2>1 DEF Pieces
  <2>3. Len(home) = 2 /\ home[1] \in TopSet
    BY <2>1
  <2>4. <<home[1]>> \notin DOMAIN roots
    BY <1>2, <2>3 DEF HomesApart
  <2> QED
    BY <1>4, <2>2, <2>3, <2>4, SeqMonotonic
<1> QED
  BY <1>3, <1>5, <1>6 DEF Paths

--------------------------------------------------------------------------------

\* Whose files a directory holds, and where its name is in the paths.
LEMMA HomeFact ==
    ASSUME ScanInv, HomesApart, scan = "done", NEW home \in Homes
    PROVE  /\ home \in Seq(Pieces)
           /\ \/ home = <<>> /\ Owner(home) = <<>>
              \/ home \in DOMAIN roots /\ Owner(home) = <<"ext", roots[home]>>
              \/ \E n \in claimed : /\ home = <<EXTENSIONS, n>> /\ home \notin DOMAIN roots
                                    /\ Owner(home) = <<"ext", n>>
<1>1. CASE home = <<>>
  BY <1>1, EmptySeq DEF Owner
<1>2. CASE home \in DOMAIN roots
  <2>1. home \in Seq(Pieces) /\ (Len(home) = 1 \/ Len(home) = 2)
    BY <1>2, RootFact
  <2>2. home # <<>>
    BY <2>1
  <2> QED
    BY <1>2, <2>1, <2>2 DEF Owner
<1>3. ASSUME NEW n \in claimed, home = <<EXTENSIONS, n>>
      PROVE  /\ home \in Seq(Pieces) /\ home \notin DOMAIN roots /\ Owner(home) = <<"ext", n>>
  <2>1. n \in Pieces /\ EXTENSIONS \in Pieces
    BY DEF ScanInv, Pieces, FileWords
  <2>2. home \in Seq(Pieces) /\ home[1] = EXTENSIONS /\ home[2] = n /\ home # <<>>
    BY <1>3, <2>1
  <2>3. home \notin DOMAIN roots
    BY <2>2, RootFact DEF Rejected
  <2> QED
    BY <2>2, <2>3 DEF Owner
<1> QED
  BY <1>1, <1>2, <1>3 DEF Homes

\* A module of the configuration is not below a root.
LEMMA NameOfBase ==
    ASSUME ScanInv, HomesApart, scan = "done", NEW file \in Files
    PROVE  ModuleName(file, roots) = BaseName(file)
<1>1. /\ file \in Seq(Pieces) /\ Len(file) \in Nat /\ Len(file) >= 4
      /\ file[1] \in DOMAIN DumpDirNames \/ file[1] \notin TopSet
      /\ file[1] # EXTENSIONS
  BY FileFact
<1>2. RootDepth(file, roots) = {}
  <2>1. ASSUME NEW k \in 1 .. Len(file) - 1 PROVE SubSeq(file, 1, k) \notin DOMAIN roots
    <3>1. SubSeq(file, 1, k)[1] = file[1]
      <4>1. \A i \in 1 .. k : file[i] \in Pieces
        BY <1>1, ElementOfSeq
      <4>2. k \in Int /\ 1 \in 1 .. k - 1 + 1 /\ 1 + 1 - 1 = 1
        OBVIOUS
      <4> QED
        BY <4>1, <4>2, SubSeqProperties
    <3> QED
      BY <1>1, <3>1, RootFact DEF Rejected
  <2> QED
    BY <2>1 DEF RootDepth
<1>3. ModuleName(file, roots) = PathName(file)
  BY <1>2 DEF ModuleName
<1> QED
  BY <1>1, <1>3 DEF PathName

\* A module below Extensions is of the directory there.
LEMMA NameOfClaimed ==
    ASSUME ScanInv, HomesApart, scan = "done", NEW file \in Files, NEW n \in claimed
    PROVE  ModuleName(<<EXTENSIONS, n>> \o file, roots) = <<"ext", n>> \o BaseName(file)
<1> DEFINE home == <<EXTENSIONS, n>>
           path == home \o file
<1>1. file \in Seq(Pieces) /\ Len(file) \in Nat /\ Len(file) >= 4
  BY FileFact
<1>2. n \in Pieces /\ EXTENSIONS \in Pieces
  BY DEF ScanInv, Pieces, FileWords
<1>3. home \in Seq(Pieces) /\ Len(home) = 2 /\ home[1] = EXTENSIONS /\ home[2] = n
  BY <1>2
<1> HIDE DEF home
<1>4. /\ Len(path) = 2 + Len(file) /\ From(path, 2 + 1) = file
      /\ path[1] = EXTENSIONS /\ path[2] = n
  <2>1. Len(file) > 0
    BY <1>1
  <2>2. /\ Len(path) = Len(home) + Len(file) /\ From(path, Len(home) + 1) = file
        /\ \A i \in 1 .. Len(home) : path[i] = home[i]
    BY <1>1, <1>3, <2>1, PathFact
  <2> HIDE DEF path
  <2> QED
    BY <1>3, <2>2
<1> HIDE DEF path
<1>5. ModuleName(path, roots) = PathName(path)
  BY <1>4 DEF ModuleName
<1>6. Len(path) >= 4 /\ ~(Len(path) < 2) /\ From(path, 3) = file
  BY <1>1, <1>4
<1>7. PathName(path) = <<"ext", n>> \o BaseName(file)
  BY <1>4, <1>6 DEF PathName
<1> QED
  BY <1>5, <1>7 DEF path, home

\* A module below a root is of the extension of that root.
LEMMA NameOfRoot ==
    ASSUME ScanInv, HomesApart, scan = "done", NEW file \in Files, NEW home \in DOMAIN roots
    PROVE  ModuleName(home \o file, roots) = <<"ext", roots[home]>> \o BaseName(file)
<1> DEFINE path == home \o file
           n == Len(home)
<1>1. file \in Seq(Pieces) /\ Len(file) \in Nat /\ Len(file) >= 4
  BY FileFact
<1>2. /\ home \in Seq(Pieces) /\ ~Rejected(home) /\ n \in {1, 2}
      /\ n = 1 => home = <<home[1]>>
  <2>1. /\ home \in Seq(Pieces) /\ ~Rejected(home)
        /\ (Len(home) = 1 /\ home = <<home[1]>>)
           \/ (Len(home) = 2 /\ <<home[1]>> \notin DOMAIN roots)
    BY RootFact
  <2> QED
    BY <2>1
<1>3. /\ Len(path) = n + Len(file) /\ SubSeq(path, 1, n) = home /\ From(path, n + 1) = file
      /\ path[1] = home[1]
      /\ \A k \in 1 .. Len(path) : /\ Len(SubSeq(path, 1, k)) = k
                                   /\ \A i \in 1 .. k : SubSeq(path, 1, k)[i] = path[i]
  BY <1>1, <1>2, PathFact
<1> HIDE DEF path
<1>4. path[1] # EXTENSIONS
  BY <1>2, <1>3 DEF Rejected
<1> HIDE DEF n
<1>5. n \in 1 .. Len(path) - 1 /\ SubSeq(path, 1, n) \in DOMAIN roots /\ n + 2 <= Len(path)
  <2>1. Len(path) = n + Len(file) /\ SubSeq(path, 1, n) = home
    BY <1>3
  <2>2. SubSeq(path, 1, n) \in DOMAIN roots
    BY <2>1
  <2>3. n \in 1 .. Len(path) - 1 /\ n + 2 <= Len(path)
    <3> DEFINE l == Len(path)
               m == Len(file)
    <3>1. l = n + m /\ m \in Nat /\ m >= 4 /\ n \in {1, 2}
      BY <1>1, <1>2, <2>1
    <3> HIDE DEF l, m
    <3>2. n \in 1 .. l - 1 /\ n + 2 <= l
      BY <3>1
    <3> QED
      BY <3>2 DEF l
  <2> QED
    BY <2>2, <2>3
<1>6. ASSUME NEW k \in 1 .. Len(path) - 1, SubSeq(path, 1, k) \in DOMAIN roots
      PROVE  k <= n
  <2> DEFINE other == SubSeq(path, 1, k)
  <2>1. Len(other) = k /\ other[1] = path[1]
    BY <1>1, <1>2, <1>3
  <2> HIDE DEF other
  <2>2. k \in {1, 2} /\ (k = 2 => <<other[1]>> \notin DOMAIN roots)
    <3>1. other \in DOMAIN roots
      BY <1>6 DEF other
    <3>2. \/ Len(other) = 1 /\ other = <<other[1]>>
          \/ Len(other) = 2 /\ <<other[1]>> \notin DOMAIN roots
      BY <3>1, RootFact
    <3> QED
      BY <2>1, <3>2
  <2>3. n = 1 => k # 2
    BY <1>2, <1>3, <2>1, <2>2
  <2> QED
    BY <1>2, <2>2, <2>3
<1>7. RootDepth(path, roots) = {n}
  <2> DEFINE depths == {k \in 1 .. Len(path) - 1 : SubSeq(path, 1, k) \in DOMAIN roots}
  <2>1. n \in depths /\ \A k \in depths : k \in Int /\ k <= n
    BY <1>5, <1>6
  <2>2. RootDepth(path, roots) = {k \in depths : \A j \in depths : j <= k}
    BY DEF RootDepth
  <2> HIDE DEF depths
  <2>3. ASSUME NEW k \in depths, \A j \in depths : j <= k PROVE k = n
    <3>1. n <= k /\ k <= n /\ k \in Int /\ n \in Int
      BY <1>2, <2>1, <2>3
    <3> QED
      BY <3>1
  <2> QED
    BY <2>1, <2>2, <2>3
<1>8. ModuleName(path, roots) = <<"ext", roots[SubSeq(path, 1, n)]>> \o BaseName(From(path, n + 1))
  BY <1>4, <1>5, <1>7 DEF ModuleName
<1> QED
  BY <1>3, <1>8 DEF path, n

--------------------------------------------------------------------------------
(* Two files have two names                                                     *)

\* The words the names of files are made of.
BaseWords == {"Catalog", "CommonModule", "CommonForm", "A", "F", "G", "ModuleOfObject", "Module",
              "ModuleOfForm", "ModuleOfCommand", "Form", "Command", "CalculationRegister",
              "ModuleOfRecordSet", "ExternalDataSources"}

\* The name of a file is a sequence of them.
LEMMA BaseFact ==
    ASSUME NEW file \in Files
    PROVE  /\ BaseName(file) \in Seq(BaseWords) /\ Len(BaseName(file)) \in Nat \ {0}
           /\ BaseName(file)[1] # "ext"
<1> DEFINE Fits(b) == b \in Seq(BaseWords) /\ Len(b) \in Nat \ {0} /\ b[1] # "ext"
<1>1. Fits(<<"Catalog", "A", "ModuleOfObject">>)
  BY DEF BaseWords
<1>2. Fits(<<"CommonModule", "A", "Module">>)
  BY DEF BaseWords
<1>3. Fits(<<"CommonForm", "A", "ModuleOfForm">>)
  BY DEF BaseWords
<1>4. Fits(<<"Catalog", "A", "Form", "F", "ModuleOfForm">>)
  BY DEF BaseWords
<1>5. Fits(<<"Catalog", "A", "Form", "G", "ModuleOfForm">>)
  BY DEF BaseWords
<1>6. Fits(<<"Catalog", "A", "Command", "F", "ModuleOfCommand">>)
  BY DEF BaseWords
<1>8. Fits(<<"CalculationRegister", "A", "ModuleOfRecordSet">>)
  BY DEF BaseWords
<1>9. Fits(<<"ExternalDataSources", "A", "ModuleOfObject">>)
  BY DEF BaseWords
<1>10. Fits(<<"ExternalDataSources", "A", "Form", "F", "ModuleOfForm">>)
  BY DEF BaseWords
<1> HIDE DEF Fits
<1>7. Fits(BaseName(file))
  BY <1>1, <1>2, <1>3, <1>4, <1>5, <1>6, <1>8, <1>9, <1>10, BaseNames
     DEF Files, OwnFiles, NestedFiles
<1> QED
  BY <1>7 DEF Fits

\* The name of a module is that of its owner with the one of its file.
LEMMA OwnName ==
    ASSUME ScanInv, HomesApart, scan = "done", NEW home \in Homes, NEW file \in Files
    PROVE  ModuleName(home \o file, roots) = Owner(home) \o BaseName(file)
<1>1. CASE home = <<>> /\ Owner(home) = <<>>
  <2>1. file \in Seq(Pieces)
    BY FileFact
  <2>2. home \o file = file
    BY <1>1, <2>1, ConcatEmptySeq
  <2>3. Owner(home) \o BaseName(file) = BaseName(file)
    <3>1. BaseName(file) \in Seq(BaseWords)
      BY BaseFact
    <3> QED
      BY <1>1, <3>1, ConcatEmptySeq
  <2> QED
    BY <2>2, <2>3, NameOfBase
<1>2. CASE home \in DOMAIN roots /\ Owner(home) = <<"ext", roots[home]>>
  BY <1>2, NameOfRoot
<1>3. ASSUME NEW n \in claimed, home = <<EXTENSIONS, n>>, Owner(home) = <<"ext", n>>
      PROVE  ModuleName(home \o file, roots) = Owner(home) \o BaseName(file)
  BY <1>3, NameOfClaimed
<1> QED
  BY <1>1, <1>2, <1>3, HomeFact

\* Directories with one owner are one.
LEMMA OwnersApart ==
    ASSUME ScanInv, HomesApart, scan = "done", NEW home \in Homes, NEW other \in Homes,
           Owner(home) = Owner(other)
    PROVE  home = other
<1> DEFINE Kind(h) == \/ h = <<>> /\ Owner(h) = <<>>
                      \/ h \in DOMAIN roots /\ Owner(h) = <<"ext", roots[h]>>
                      \/ \E n \in claimed : h = <<EXTENSIONS, n>> /\ Owner(h) = <<"ext", n>>
<1>1. Kind(home) /\ Kind(other)
  BY HomeFact
<1>2. \A a, b : <<"ext", a>> = <<"ext", b>> => a = b
  OBVIOUS
<1>3. \A a : <<"ext", a>> # <<>>
  OBVIOUS
<1>4. ASSUME NEW d \in DOMAIN roots
      PROVE  roots[d] \in ManifestNames /\ byName[roots[d]] = {d} /\ roots[d] \notin claimed
  BY DEF ScanInv, Settled
<1>5. \A d, e \in DOMAIN roots : roots[d] = roots[e] => d = e
  <2>1. \A d, e : {d} = {e} => d = e
    OBVIOUS
  <2> QED
    BY <1>4, <2>1
<1> QED
  BY <1>1, <1>2, <1>3, <1>4, <1>5

Named(home, file) == Owner(home) \o BaseName(file)

\* What a name begins with says whether it is that of an extension, and how much of
\* it is that of the file.
LEMMA NamesApart ==
    ASSUME ScanInv, HomesApart, scan = "done",
           NEW home \in Homes, NEW other \in Homes, NEW file \in OwnFiles, NEW second \in OwnFiles,
           Named(home, file) = Named(other, second)
    PROVE  home = other /\ file = second
<1> DEFINE S == BaseWords \cup {"ext"} \cup ManifestNames
           Owned(h) == Owner(h) = <<>> \/ \E n \in ManifestNames : Owner(h) = <<"ext", n>>
           Based(f) == /\ BaseName(f) \in Seq(S) /\ Len(BaseName(f)) \in Nat \ {0}
                       /\ BaseName(f)[1] # "ext"
<1>1. Owned(home) /\ Owned(other)
  <2>1. \A d \in DOMAIN roots : roots[d] \in ManifestNames
    BY RootFact
  <2>2. claimed \subseteq ManifestNames
    BY DEF ScanInv
  <2> QED
    BY <2>1, <2>2, HomeFact
<1>2. ASSUME NEW f \in OwnFiles PROVE Based(f)
  <2>1. /\ BaseName(f) \in Seq(BaseWords) /\ Len(BaseName(f)) \in Nat \ {0}
        /\ BaseName(f)[1] # "ext"
    BY BaseFact DEF Files
  <2>2. BaseWords \subseteq S
    OBVIOUS
  <2>3. BaseName(f) \in Seq(S)
    BY <2>1, <2>2, SeqMonotonic
  <2> QED
    BY <2>1, <2>3
<1>3. Owner(home) = Owner(other) /\ BaseName(file) = BaseName(second)
  <2> DEFINE o == Owner(home)
             p == Owner(other)
             b == BaseName(file)
             c == BaseName(second)
  <2>1. /\ o \in Seq(S) /\ (Len(o) = 0 \/ (Len(o) = 2 /\ o[1] = "ext"))
        /\ p \in Seq(S) /\ (Len(p) = 0 \/ (Len(p) = 2 /\ p[1] = "ext"))
    <3>1. ASSUME NEW h, Owned(h)
          PROVE  Owner(h) \in Seq(S) /\ (Len(Owner(h)) = 0 \/ (Len(Owner(h)) = 2 /\ Owner(h)[1] = "ext"))
      <4>1. CASE Owner(h) = <<>>
        BY <4>1
      <4>2. ASSUME NEW n \in ManifestNames, Owner(h) = <<"ext", n>>
            PROVE  Owner(h) \in Seq(S) /\ Len(Owner(h)) = 2 /\ Owner(h)[1] = "ext"
        BY <4>2
      <4> QED
        BY <3>1, <4>1, <4>2
    <3> QED
      BY <1>1, <3>1
  <2>2. /\ b \in Seq(S) /\ Len(b) \in Nat \ {0} /\ b[1] # "ext"
        /\ c \in Seq(S) /\ Len(c) \in Nat \ {0} /\ c[1] # "ext"
    BY <1>2
  <2> HIDE DEF S, o, p, b, c
  <2>3. /\ o \o b \in Seq(S) /\ Len(o \o b) = Len(o) + Len(b)
        /\ \A i \in 1 .. Len(o) + Len(b) : (o \o b)[i] = IF i <= Len(o) THEN o[i] ELSE b[i - Len(o)]
    BY <2>1, <2>2, ConcatProperties
  <2>4. /\ p \o c \in Seq(S) /\ Len(p \o c) = Len(p) + Len(c)
        /\ \A i \in 1 .. Len(p) + Len(c) : (p \o c)[i] = IF i <= Len(p) THEN p[i] ELSE c[i - Len(p)]
    BY <2>1, <2>2, ConcatProperties
  <2> DEFINE name == o \o b
  <2>5. name = p \o c
    BY DEF Named, o, p, b, c
  <2> HIDE DEF name
  <2>6. /\ Len(name) = Len(o) + Len(b) /\ Len(name) = Len(p) + Len(c)
        /\ \A i \in 1 .. Len(o) + Len(b) : name[i] = IF i <= Len(o) THEN o[i] ELSE b[i - Len(o)]
        /\ \A i \in 1 .. Len(p) + Len(c) : name[i] = IF i <= Len(p) THEN p[i] ELSE c[i - Len(p)]
    BY <2>3, <2>4, <2>5 DEF name
  <2>7. /\ Len(o) = 0 => name[1] = b[1]
        /\ Len(o) = 2 => name[1] = "ext"
        /\ Len(p) = 0 => name[1] = c[1]
        /\ Len(p) = 2 => name[1] = "ext"
    <3>1. 1 \in 1 .. Len(o) + Len(b) /\ 1 \in 1 .. Len(p) + Len(c)
      BY <2>1, <2>2
    <3>2. /\ name[1] = IF 1 <= Len(o) THEN o[1] ELSE b[1 - Len(o)]
          /\ name[1] = IF 1 <= Len(p) THEN p[1] ELSE c[1 - Len(p)]
      BY <2>6, <3>1
    <3> QED
      BY <2>1, <3>2
  <2>8. Len(o) = Len(p) /\ Len(b) = Len(c)
    BY <2>1, <2>2, <2>6, <2>7
  <2>9. \A i \in 1 .. Len(o) : o[i] = p[i]
    BY <2>1, <2>2, <2>6, <2>8
  <2>10. \A i \in 1 .. Len(b) : b[i] = c[i]
    <3>1. ASSUME NEW i \in 1 .. Len(b) PROVE b[i] = c[i]
      <4> DEFINE k == Len(o) + i
      <4>3. /\ k \in 1 .. Len(o) + Len(b) /\ ~(k <= Len(o)) /\ k - Len(o) = i
            /\ Len(p) = Len(o) /\ Len(c) = Len(b)
        BY <2>1, <2>2, <2>8
      <4> HIDE DEF k
      <4>1. name[k] = b[i]
        BY <2>6, <4>3
      <4>2. name[k] = c[i]
        BY <2>6, <4>3
      <4> QED
        BY <4>1, <4>2
    <3> QED
      BY <3>1
  <2>11. o = p /\ b = c
    BY <2>1, <2>2, <2>8, <2>9, <2>10, SeqEqual
  <2> QED
    BY <2>11 DEF o, p, b, c
<1>4. home = other
  BY <1>3, OwnersApart
<1>5. file = second
  BY <1>3, BaseNames DEF OwnFiles
<1> QED
  BY <1>4, <1>5

\* A module is a file of a directory.
LEMMA ModuleFact == \A m \in Modules : \E home \in Homes, file \in OwnFiles : m = home \o file
<1>1. ASSUME NEW m \in Modules PROVE \E home \in Homes, file \in OwnFiles : m = home \o file
  BY DEF Modules
<1> QED
  BY <1>1

\* resolve_module_name: whatever the scan of a dump has found, two modules of objects,
\* of their forms or of their commands never have one name, and the name of a module
\* is that of its extension and the base name of its file, in which objects that are
\* nested in others are not told apart.
THEOREM NamesAreApart == RootsSpec => []NamesTellApart
<1>1. ScanInv /\ HomesApart => NamesTellApart
  <2> SUFFICES ASSUME ScanInv, HomesApart, scan = "done"
               PROVE  /\ Cardinality({ModuleName(m, roots) : m \in Modules}) = Cardinality(Modules)
                      /\ \A home \in Homes, file \in Files :
                            ModuleName(home \o file, roots) = Owner(home) \o BaseName(file)
    BY DEF NamesTellApart
  <2> DEFINE Names == {ModuleName(m, roots) : m \in Modules}
             naming == [m \in Modules |-> ModuleName(m, roots)]
  <2>1. \A home \in Homes, file \in Files :
           ModuleName(home \o file, roots) = Owner(home) \o BaseName(file)
    BY OwnName
  <2> HIDE DEF Names, naming
  <2>2. ASSUME NEW m \in Modules, NEW k \in Modules, ModuleName(m, roots) = ModuleName(k, roots)
        PROVE  m = k
    <3>1. PICK home \in Homes, file \in OwnFiles : m = home \o file
      BY ModuleFact
    <3>2. PICK other \in Homes, second \in OwnFiles : k = other \o second
      BY ModuleFact
    <3>3. Named(home, file) = Named(other, second)
      BY <2>1, <2>2, <3>1, <3>2 DEF Named, Files
    <3> QED
      <4>1. home = other /\ file = second
        BY <3>3, NamesApart
      <4> QED
        BY <3>1, <3>2, <4>1
  <2>3. IsFiniteSet(Modules)
    <3>1. IsFiniteSet(Homes)
      <4>1. IsFiniteSet(claimed)
        BY FS_Subset, ExtRootsAssumption DEF ScanInv
      <4>2. DOMAIN roots \subseteq DOMAIN found /\ IsFiniteSet(DOMAIN found)
        <5>1. ASSUME NEW d \in DOMAIN roots PROVE d \in DOMAIN found
          <6>1. roots[d] \in ManifestNames /\ d \in byName[roots[d]] /\ BooksAgree
            BY DEF ScanInv, Settled
          <6> QED
            BY <6>1, NamesFact
        <5> QED
          BY <5>1 DEF ScanInv, BooksAgree
      <4>3. IsFiniteSet(DOMAIN roots)
        BY <4>2, FS_Subset
      <4> DEFINE below == {<<EXTENSIONS, n>> : n \in claimed}
                 listing == [n \in claimed |-> <<EXTENSIONS, n>>]
      <4>4. listing \in Surjection(claimed, below)
        BY DEF Surjection
      <4>5. IsFiniteSet(below)
        BY <4>1, <4>4, FS_Surjection DEF ExistsSurjection
      <4>6. IsFiniteSet({<<>>})
        BY FS_Singleton
      <4> HIDE DEF below
      <4>7. Homes = {<<>>} \cup DOMAIN roots \cup below
        BY DEF Homes, below
      <4> QED
        BY <4>3, <4>5, <4>6, <4>7, FS_Union
    <3>2. IsFiniteSet(OwnFiles)
      <4> DEFINE F3 == {<<"Catalogs", "A", "Ext", "ObjectModule">>}
                 F4 == F3 \cup {<<"CommonModules", "A", "Ext", "Module">>}
                 F5 == F4 \cup {<<"CommonForms", "A", "Ext", "Form", "Module">>}
                 F6 == F5 \cup {<<"Catalogs", "A", "Forms", "F", "Ext", "Form", "Module">>}
                 F7 == F6 \cup {<<"Catalogs", "A", "Forms", "G", "Ext", "Form", "Module">>}
                 F8 == F7 \cup {<<"Catalogs", "A", "Commands", "F", "Ext", "CommandModule">>}
                 F9 == F8 \cup {<<"CalculationRegisters", "A", "Ext", "RecordSetModule">>}
      <4>1. IsFiniteSet(F3) /\ OwnFiles = F9
        BY FS_Singleton DEF OwnFiles
      <4> HIDE DEF F3, F4, F5, F6, F7, F8, F9
      <4> QED
        BY <4>1, FS_AddElement DEF F4, F5, F6, F7, F8, F9
    <3> DEFINE joined == [p \in Homes \X OwnFiles |-> p[1] \o p[2]]
    <3>3. IsFiniteSet(Homes \X OwnFiles)
      BY <3>1, <3>2, FS_Product
    <3>4. joined \in Surjection(Homes \X OwnFiles, Modules)
      <4>1. \A p \in Homes \X OwnFiles : p[1] \o p[2] \in Modules
        BY DEF Modules
      <4>2. ASSUME NEW m \in Modules PROVE \E p \in Homes \X OwnFiles : joined[p] = m
        <5>1. PICK home \in Homes, file \in OwnFiles : m = home \o file
          BY DEF Modules
        <5>2. <<home, file>> \in Homes \X OwnFiles /\ joined[<<home, file>>] = m
          BY <5>1
        <5> QED
          BY <5>2
      <4> QED
        BY <4>1, <4>2 DEF Surjection
    <3> QED
      BY <3>3, <3>4, FS_Surjection DEF ExistsSurjection
  <2>4. naming \in Bijection(Modules, Names)
    BY <2>2 DEF Names, naming, Bijection, Injection, Surjection, IsInjective
  <2>5. Cardinality(Names) = Cardinality(Modules)
    BY <2>3, <2>4, FS_Bijection DEF ExistsBijection
  <2> QED
    BY <2>1, <2>5 DEF Names
<1> QED
  BY <1>1, ApartInvariant, PTL

--------------------------------------------------------------------------------
(* The search: DumpSearch                                                       *)

\* The lines of a module, and the lines of the dump that a search by lines is to find.
Lines(d) == 1 .. Len(docs[d].lines)
Hits == {h \in UNION {{d} \X DOMAIN docs[d].lines : d \in DOMAIN docs} :
            Filtered(docs[h[1]]) /\ IsIn(question.query, docs[h[1]].lines[h[2]])}

\* The hits that the search is past, one line that comes before another one, and the
\* line of a match.
Past(h) == \E a \in DOMAIN rows :
               rows[a] = h[1] /\ (a < place[1] \/ (a = place[1] /\ h[2] < place[2]))
PastHits == {h \in Hits : Past(h)}
Ahead(g, h) == \E a, b \in DOMAIN rows :
                   rows[a] = g[1] /\ rows[b] = h[1] /\ (a < b \/ (a = b /\ g[2] < h[2]))
Shown(n) == <<matches[n].doc, matches[n].line>>

DumpIsWhole ==
    /\ docs \in Seq(ToSet(docs)) /\ question.limit \in Int
    /\ \A d \in DOMAIN docs :
          /\ docs[d].name \in Int /\ docs[d].lines \in Seq(ToSet(docs[d].lines))
          /\ Len(docs[d].lines) \in Nat \ {0} /\ DOMAIN docs[d].lines = Lines(d)

\* The rows are modules that the filter lets through, each of them once.
RowsFit ==
    /\ rows \in Seq(DOMAIN docs) /\ Len(rows) <= Len(docs)
    /\ \A i \in DOMAIN rows : Filtered(docs[rows[i]])
    /\ \A i, j \in DOMAIN rows : rows[i] = rows[j] => i = j

\* A search by lines goes through all modules of the filter, in the order of names.
ScanOrder ==
    /\ \A d \in DOMAIN docs : Filtered(docs[d]) => \E i \in DOMAIN rows : rows[i] = d
    /\ InOrder(rows)
    /\ place = <<place[1], place[2]>> /\ place[1] \in Nat \ {0} /\ place[2] \in Nat \ {0}
    /\ place[1] <= Len(rows) => place[2] \in Lines(rows[place[1]])

\* What it has counted is what it is past, and what it lists are the first of these.
Counting ==
    /\ IsFiniteSet(PastHits) /\ counted = Cardinality(PastHits)
    /\ matches \in Seq({Match(h[1], h[2]) : h \in Hits})
    /\ Len(matches) = IF counted < Limit THEN counted ELSE Limit
    /\ \A n \in DOMAIN matches : Shown(n) \in PastHits
    /\ \A m, n \in DOMAIN matches : Shown(m) = Shown(n) => m = n
    /\ Len(matches) = counted => \A h \in PastHits : \E n \in DOMAIN matches : Shown(n) = h
    /\ \A n \in DOMAIN matches : \A h \in PastHits :
          Ahead(h, Shown(n)) => \E m \in 1 .. n - 1 : Shown(m) = h

\* A smart search shows one line of each row; the rows are some of those it counted.
Showing ==
    /\ place[1] \in Nat \ {0} /\ counted \in Nat
    /\ Len(rows) <= counted /\ Len(rows) <= Limit
    /\ matches \in Seq({Match(d, LineOf(docs[d].lines)) : d \in DOMAIN docs})
    /\ Len(matches) = place[1] - 1 /\ Len(matches) <= Len(rows)

SearchErrors == {"query is required", "invalid regex"}
NothingYet == rows = <<>> /\ place = <<1, 1>> /\ matches = <<>> /\ counted = 0

SearchInv ==
    /\ DumpIsWhole /\ RowsFit
    /\ progress \in {"asked", "scan", "hits", "answered"}
    /\ answer \in {"none", "matches", "nothing found", "empty index"} \cup SearchErrors
    /\ progress = "asked" => NothingYet
    /\ progress = "scan" => question.mode \in {"regex", "exact"} /\ ScanOrder /\ Counting
    /\ progress = "hits" => question.mode = "smart" /\ Showing
    /\ progress = "answered" =>
          \/ NothingYet /\ (question.mode = "smart" \/ answer \in SearchErrors)
          \/ question.mode \in {"regex", "exact"} /\ ScanOrder /\ Counting /\ place[1] > Len(rows)
          \/ question.mode = "smart" /\ Showing

--------------------------------------------------------------------------------
(* What a step of the search by lines does                                      *)

\* clamp_limit gives a number, whatever was asked for.
LEMMA LimitFact ==
    ASSUME question.limit \in Int
    PROVE  /\ Limit \in Nat
           /\ \A c \in Nat : Min({c, IF question.limit <= 0 THEN DefaultLimit
                                     ELSE Min({question.limit, MaxLimit})})
                             = IF c < Limit THEN c ELSE Limit
<1>1. \A a, b \in Int : Min({a, b}) = IF a < b THEN a ELSE b
  BY DEF Min
<1>2. DefaultLimit \in Int /\ MaxLimit \in Int /\ DefaultLimit > 0 /\ MaxLimit > 0
  BY SearchAssumption
<1>3. Limit \in Nat /\ Limit = IF question.limit <= 0 THEN DefaultLimit
                               ELSE Min({question.limit, MaxLimit})
  BY <1>1, <1>2 DEF Limit, Clamp
<1>4. ASSUME NEW c \in Nat PROVE Min({c, Limit}) = IF c < Limit THEN c ELSE Limit
  <2>1. c \in Int /\ Limit \in Int
    BY <1>3
  <2> QED
    BY <1>1, <2>1, Zenon
<1> QED
  BY <1>3, <1>4, Zenon

\* All modules of a set come as a sequence of them, in which each is once.
LEMMA RowsFact ==
    ASSUME NEW S, IsFiniteSet(S), NEW r \in SetToSeqs(S)
    PROVE  /\ r \in Seq(S) /\ Len(r) = Cardinality(S)
           /\ \A i, j \in DOMAIN r : r[i] = r[j] => i = j
           /\ \A x \in S : \E i \in DOMAIN r : r[i] = x
<1> DEFINE n == Cardinality(S)
<1>1. n \in Nat
  BY FS_CardinalityType
<1>2. r \in [1 .. n -> S] /\ \A i, j \in 1 .. n : r[i] = r[j] => i = j
  BY DEF SetToSeqs
<1>3. DOMAIN r = 1 .. n /\ r \in Seq(S) /\ Len(r) = n
  BY <1>1, <1>2, SeqDef, LenProperties
<1>4. r \in Injection(1 .. n, S)
  BY <1>2 DEF Injection, IsInjective
<1>5. Cardinality(1 .. n) = n
  BY <1>1, FS_Interval
<1>6. r \in Surjection(1 .. n, S)
  BY <1>4, <1>5, FS_Injection
<1> QED
  BY <1>2, <1>3, <1>6 DEF Surjection

\* The scan at a line: the line is past afterwards and was not before, and no line it
\* was past comes after it.
LEMMA PastStep ==
    ASSUME RowsFit, DumpIsWhole, ScanOrder, place[1] <= Len(rows),
           UNCHANGED <<docs, question, rows>>,
           place' = IF place[2] < Len(docs[rows[place[1]]].lines) THEN <<place[1], place[2] + 1>>
                    ELSE <<place[1] + 1, 1>>
    PROVE  LET here == <<rows[place[1]], place[2]>> IN
           /\ Hits' = Hits /\ here \notin PastHits
           /\ here \in Hits <=> IsIn(question.query, docs[rows[place[1]]].lines[place[2]])
           /\ PastHits' = PastHits \cup (IF here \in Hits THEN {here} ELSE {})
           /\ \A h \in PastHits : ~Ahead(here, h)
           /\ ~Ahead(here, here)
<1> DEFINE a == place[1]
           b == place[2]
           here == <<rows[a], b>>
<1>1. a \in DOMAIN rows /\ a \in Nat /\ b \in Nat \ {0} /\ rows[a] \in DOMAIN docs
  BY DEF RowsFit, ScanOrder
<1>2. DOMAIN rows \subseteq Nat
  BY DEF RowsFit
<1>3. b \in Lines(rows[a]) /\ DOMAIN docs[rows[a]].lines = Lines(rows[a]) /\ Filtered(docs[rows[a]])
  BY <1>1 DEF RowsFit, ScanOrder, DumpIsWhole
<1>4. Hits' = Hits
  BY DEF Hits, Filtered
<1>5. \A i, j \in DOMAIN rows : rows[i] = rows[j] => i = j
  BY DEF RowsFit
<1>6. ~Past(here) /\ ~Ahead(here, here)
  <2>1. \A i \in DOMAIN rows : rows[i] = here[1] => i = a
    BY <1>1, <1>5
  <2> QED
    BY <2>1, <1>1 DEF Past, Ahead
<1>7. ASSUME NEW h \in PastHits PROVE ~Ahead(here, h)
  <2>1. PICK i \in DOMAIN rows : rows[i] = h[1] /\ (i < a \/ (i = a /\ h[2] < b))
    BY DEF PastHits, Past
  <2>2. \A j \in DOMAIN rows : (rows[j] = h[1] => j = i) /\ (rows[j] = here[1] => j = a)
    BY <2>1, <1>1, <1>5
  <2>3. h[2] \in Int
    BY DEF PastHits, Hits, DumpIsWhole, Lines
  <2> QED
    BY <1>1, <1>2, <2>1, <2>2, <2>3 DEF Ahead
<1>8. here \in Hits <=> IsIn(question.query, docs[rows[a]].lines[b])
  <2>1. here \in UNION {{d} \X DOMAIN docs[d].lines : d \in DOMAIN docs}
    BY <1>1, <1>3
  <2> QED
    BY <2>1, <1>3 DEF Hits
<1>9. ASSUME NEW h \in Hits PROVE Past(h)' <=> Past(h) \/ h = here
  <2>1. h[1] \in DOMAIN docs /\ h = <<h[1], h[2]>> /\ h[2] \in DOMAIN docs[h[1]].lines
    BY DEF Hits
  <2>2. h[2] \in Lines(h[1]) /\ Len(docs[h[1]].lines) \in Nat
    BY <2>1 DEF DumpIsWhole
  <2>3. h[2] \in Nat \ {0} /\ h[2] <= Len(docs[h[1]].lines)
    BY <2>2 DEF Lines
  <2> DEFINE long == Len(docs[rows[a]].lines)
  <2>4. b <= long /\ long \in Nat
    BY <1>1, <1>3 DEF Lines, DumpIsWhole
  <2>5. ASSUME NEW i \in DOMAIN rows, rows[i] = h[1]
        PROVE  (i < place'[1] \/ (i = place'[1] /\ h[2] < place'[2]))
               <=> (i < a \/ (i = a /\ h[2] < b)) \/ h = here
    <3>1. h = here <=> i = a /\ h[2] = b
      BY <1>1, <1>5, <2>1, <2>5
    <3>2. i = a => h[2] <= long
      BY <2>3, <2>5
    <3>3. i \in Nat
      BY <1>2
    <3>4. CASE b < long
      <4>1. place' = <<a, b + 1>>
        BY <3>4
      <4> HIDE DEF a, b, long, here
      <4> QED
        BY <1>1, <2>3, <3>1, <3>3, <4>1
    <3>5. CASE ~(b < long)
      <4>1. place' = <<a + 1, 1>>
        BY <3>5
      <4> HIDE DEF a, b, long, here
      <4> QED
        BY <1>1, <2>3, <2>4, <3>1, <3>2, <3>3, <3>5, <4>1
    <3> QED
      BY <3>4, <3>5
  <2>6. h = here => \E i \in DOMAIN rows : rows[i] = h[1]
    BY <1>1
  <2> QED
    BY <2>5, <2>6 DEF Past
<1>10. PastHits' = PastHits \cup (IF here \in Hits THEN {here} ELSE {})
  <2>1. PastHits' = {h \in Hits : Past(h)'}
    BY <1>4 DEF PastHits
  <2> QED
    BY <1>9, <2>1 DEF PastHits
<1> QED
  BY <1>4, <1>6, <1>7, <1>8, <1>10 DEF PastHits

\* One more match at the end of the list: the others keep their places.
LEMMA AppendFact ==
    ASSUME NEW S, NEW s \in Seq(S), NEW x \in S
    PROVE  /\ Append(s, x) \in Seq(S) /\ Len(Append(s, x)) = Len(s) + 1 /\ Len(s) \in Nat
           /\ DOMAIN s = 1 .. Len(s) /\ DOMAIN Append(s, x) = 1 .. Len(s) + 1
           /\ \A n \in DOMAIN s : Append(s, x)[n] = s[n]
           /\ Append(s, x)[Len(s) + 1] = x
  BY AppendProperties, LenProperties

\* ScanLine: what is counted and listed remains what the scan is past.
LEMMA CountingStep ==
    ASSUME RowsFit, DumpIsWhole, ScanOrder, Counting, ScanLine
    PROVE  Counting'
<1> DEFINE here == <<rows[place[1]], place[2]>>
           hit == IsIn(question.query, docs[rows[place[1]]].lines[place[2]])
           full == ~(Len(matches) < Limit)
           match == Match(rows[place[1]], place[2])
<1>1. /\ place[1] <= Len(rows) /\ UNCHANGED <<docs, question, rows>>
      /\ place' = IF place[2] < Len(docs[rows[place[1]]].lines) THEN <<place[1], place[2] + 1>>
                  ELSE <<place[1] + 1, 1>>
      /\ counted' = IF hit THEN counted + 1 ELSE counted
      /\ matches' = IF hit /\ ~full THEN Append(matches, match) ELSE matches
  BY DEF ScanLine
<1>2. /\ Hits' = Hits /\ here \notin PastHits /\ (here \in Hits <=> hit)
      /\ PastHits' = PastHits \cup (IF here \in Hits THEN {here} ELSE {})
      /\ \A h \in PastHits : ~Ahead(here, h)
      /\ ~Ahead(here, here)
  BY <1>1, PastStep
<1>3. /\ \A g, h : Ahead(g, h)' <=> Ahead(g, h)
      /\ \A d, i : Match(d, i)' = Match(d, i)
      /\ Limit' = Limit
  BY <1>1 DEF Ahead, Match, Limit
<1>4. Limit \in Nat
  BY LimitFact DEF DumpIsWhole
<1>5. counted \in Nat /\ IsFiniteSet(PastHits) /\ counted = Cardinality(PastHits)
  BY FS_CardinalityType DEF Counting
<1> DEFINE M == {Match(h[1], h[2]) : h \in Hits}
<1>6. M' = M
  BY <1>2, <1>3
<1>7. CASE ~hit
  <2>1. PastHits' = PastHits /\ counted' = counted /\ matches' = matches
    BY <1>1, <1>2, <1>7
  <2>2. \A n : Shown(n)' = Shown(n)
    BY <2>1 DEF Shown
  <2> HIDE DEF here, hit, full, match, M
  <2>3. matches' \in Seq(M')
    BY <1>6, <2>1 DEF Counting, M
  <2> QED
    BY <1>3, <2>1, <2>2, <2>3 DEF Counting, M
<1>8. CASE hit
  <2>1. /\ PastHits' = PastHits \cup {here} /\ counted' = counted + 1
        /\ IsFiniteSet(PastHits') /\ counted' = Cardinality(PastHits')
    <3>1. PastHits' = PastHits \cup {here} /\ counted' = counted + 1
      BY <1>1, <1>2, <1>8
    <3>2. here \notin PastHits
      BY <1>2
    <3> HIDE DEF here
    <3>3. IsFiniteSet(PastHits \cup {here}) /\ Cardinality(PastHits \cup {here}) = counted + 1
      BY <1>5, <3>2, FS_AddElement
    <3> QED
      BY <3>1, <3>3
  <2>2. match \in M
    <3>1. match = Match(here[1], here[2]) /\ here \in Hits
      BY <1>2, <1>8
    <3> HIDE DEF here
    <3> QED
      BY <3>1
  <2>3. CASE full
    <3>1. matches' = matches /\ counted >= Limit
      BY <1>1, <1>5, <2>3, <1>4 DEF Counting
    <3>2. \A n : Shown(n)' = Shown(n)
      BY <3>1 DEF Shown
    <3> HIDE DEF hit, full, match, M
    <3>3. matches' \in Seq(M')
      BY <1>6, <3>1 DEF Counting, M
    <3>4. Len(matches') = Limit' /\ ~(counted' < Limit') /\ Len(matches') # counted'
      BY <1>3, <1>4, <1>5, <2>1, <3>1 DEF Counting
    <3>5. \A n \in DOMAIN matches' : Shown(n)' \in PastHits'
      BY <2>1, <3>1, <3>2 DEF Counting
    <3>6. \A m, n \in DOMAIN matches' : Shown(m)' = Shown(n)' => m = n
      BY <3>1, <3>2 DEF Counting
    <3>7. ASSUME NEW n \in DOMAIN matches', NEW h \in PastHits', Ahead(h, Shown(n))'
          PROVE  \E m \in 1 .. n - 1 : Shown(m)' = h
      <4>1. n \in DOMAIN matches /\ Shown(n) \in PastHits /\ Ahead(h, Shown(n))
        BY <1>3, <3>1, <3>2, <3>7 DEF Counting
      <4>2. h # here
        BY <1>2, <4>1
      <4>3. h \in PastHits
        BY <2>1, <4>2
      <4> QED
        BY <3>2, <4>1, <4>3 DEF Counting
    <3> QED
      BY <2>1, <3>3, <3>4, <3>5, <3>6, <3>7 DEF Counting, M
  <2>4. CASE ~full
    <3> DEFINE k == Len(matches)
    <3>1. matches \in Seq(M) /\ matches' = Append(matches, match)
      BY <1>1, <1>8, <2>4 DEF Counting
    <3>2. /\ matches' \in Seq(M') /\ Len(matches') = k + 1 /\ k \in Nat
          /\ DOMAIN matches = 1 .. k /\ DOMAIN matches' = 1 .. k + 1
          /\ \A n \in DOMAIN matches : matches'[n] = matches[n]
          /\ matches'[k + 1] = match
      <4> HIDE DEF M, match
      <4> QED
        BY <1>6, <2>2, <3>1, AppendFact
    <3>3. k = counted /\ k < Limit
      BY <1>4, <1>5, <2>4 DEF Counting
    <3>4. /\ \A n \in 1 .. k : Shown(n)' = Shown(n)
          /\ \A n : n = k + 1 => Shown(n)' = here
      <4>1. match.doc = here[1] /\ match.line = here[2]
        BY DEF Match
      <4> QED
        BY <3>2, <4>1 DEF Shown
    <3> HIDE DEF hit, full, match, M, k, here
    <3>5. Len(matches') = IF counted' < Limit' THEN counted' ELSE Limit'
      BY <1>3, <1>4, <1>5, <2>1, <3>2, <3>3
    <3>6. \A n \in 1 .. k : Shown(n) \in PastHits
      BY <3>2 DEF Counting
    <3>7. \A h \in PastHits : \E n \in 1 .. k : Shown(n) = h
      BY <3>2, <3>3 DEF Counting, k
    <3>8. \A n \in 1 .. k + 1 : n \in 1 .. k \/ n = k + 1
      BY <3>2
    <3>9. \A n \in DOMAIN matches' : Shown(n)' \in PastHits'
      BY <2>1, <3>2, <3>4, <3>6, <3>8
    <3>10. \A m, n \in DOMAIN matches' : Shown(m)' = Shown(n)' => m = n
      <4>1. \A m, n \in 1 .. k : Shown(m) = Shown(n) => m = n
        BY <3>2 DEF Counting
      <4> QED
        BY <1>2, <3>2, <3>4, <3>6, <3>8, <4>1
    <3>11. \A h \in PastHits' : \E n \in DOMAIN matches' : Shown(n)' = h
      <4>1. 1 .. k \subseteq 1 .. k + 1 /\ k + 1 \in 1 .. k + 1
        BY <3>2
      <4> QED
        BY <2>1, <3>2, <3>4, <3>7, <4>1
    <3>12. ASSUME NEW n \in DOMAIN matches', NEW h \in PastHits', Ahead(h, Shown(n))'
           PROVE  \E m \in 1 .. n - 1 : Shown(m)' = h
      <4>1. CASE n \in 1 .. k
        <5>1. Shown(n) \in PastHits /\ Ahead(h, Shown(n))
          BY <1>3, <3>4, <3>6, <3>12, <4>1
        <5>2. h \in PastHits
          BY <1>2, <2>1, <5>1
        <5>3. PICK m \in 1 .. n - 1 : Shown(m) = h
          BY <3>2, <4>1, <5>1, <5>2 DEF Counting
        <5>4. m \in 1 .. k
          BY <3>2, <4>1
        <5> QED
          BY <3>4, <5>3, <5>4
      <4>2. CASE n = k + 1
        <5>1. Ahead(h, here)
          BY <1>3, <3>4, <3>12, <4>2
        <5>2. h \in PastHits
          BY <1>2, <2>1, <5>1
        <5>3. PICK m \in 1 .. k : Shown(m) = h
          BY <3>7, <5>2
        <5>4. m \in 1 .. n - 1
          BY <3>2, <4>2
        <5> QED
          BY <3>4, <5>3, <5>4
      <4> QED
        BY <3>2, <3>8, <4>1, <4>2
    <3> QED
      BY <2>1, <3>2, <3>5, <3>9, <3>10, <3>11, <3>12 DEF Counting, M
  <2> QED
    BY <2>3, <2>4
<1> QED
  BY <1>7, <1>8

\* ScanLine: the scan goes on inside the dump.
LEMMA ScanOrderStep == ASSUME RowsFit, DumpIsWhole, ScanOrder, ScanLine PROVE ScanOrder'
<1>1. /\ place[1] <= Len(rows) /\ UNCHANGED <<docs, question, rows>>
      /\ place' = IF place[2] < Len(docs[rows[place[1]]].lines) THEN <<place[1], place[2] + 1>>
                  ELSE <<place[1] + 1, 1>>
  BY DEF ScanLine
<1>2. /\ (\A d \in DOMAIN docs : Filtered(docs[d]) => \E i \in DOMAIN rows : rows[i] = d)'
      /\ InOrder(rows)'
  BY <1>1 DEF ScanOrder, Filtered, InOrder
<1>3. /\ place' = <<place'[1], place'[2]>> /\ place'[1] \in Nat \ {0} /\ place'[2] \in Nat \ {0}
  BY <1>1 DEF ScanOrder
<1>4. ASSUME place'[1] <= Len(rows) PROVE place'[2] \in Lines(rows[place'[1]])
  <2>1. CASE place[2] < Len(docs[rows[place[1]]].lines)
    <3>1. place[1] \in DOMAIN rows /\ rows[place[1]] \in DOMAIN docs
      BY <1>1 DEF RowsFit, ScanOrder
    <3>2. Len(docs[rows[place[1]]].lines) \in Nat
      BY <3>1 DEF DumpIsWhole
    <3> QED
      BY <1>1, <2>1, <3>2 DEF ScanOrder, Lines
  <2>2. CASE ~(place[2] < Len(docs[rows[place[1]]].lines))
    <3>1. place' = <<place[1] + 1, 1>>
      BY <1>1, <2>2
    <3>2. place'[1] \in DOMAIN rows
      BY <1>3, <1>4 DEF RowsFit
    <3>3. rows[place'[1]] \in DOMAIN docs
      BY <3>2 DEF RowsFit
    <3>4. Len(docs[rows[place'[1]]].lines) \in Nat \ {0}
      BY <3>3 DEF DumpIsWhole
    <3> QED
      BY <3>1, <3>4 DEF Lines
  <2> QED
    BY <2>1, <2>2
<1>5. (place[1] <= Len(rows) => place[2] \in Lines(rows[place[1]]))'
  BY <1>1, <1>4 DEF Lines
<1> QED
  BY <1>2, <1>3, <1>5 DEF ScanOrder

\* The modules of a dump that a search takes are finitely many.
LEMMA SomeRowsFact ==
    ASSUME DumpIsWhole, NEW S \in SUBSET DOMAIN docs
    PROVE  IsFiniteSet(S) /\ Cardinality(S) \in Nat /\ Cardinality(S) <= Len(docs)
<1>1. DOMAIN docs = 1 .. Len(docs) /\ Len(docs) \in Nat
  BY DEF DumpIsWhole
<1>2. IsFiniteSet(DOMAIN docs) /\ Cardinality(DOMAIN docs) = Len(docs)
  BY <1>1, FS_Interval
<1> QED
  BY <1>2, FS_Subset, FS_CardinalityType

\* SelectRows: the scan starts in front of all modules, with nothing counted.
LEMMA SelectRowsStep == SearchInv /\ SelectRows => SearchInv'
<1> SUFFICES ASSUME SearchInv, SelectRows PROVE SearchInv'
  OBVIOUS
<1> DEFINE S == {d \in DOMAIN docs : Filtered(docs[d])}
<1>1. DumpIsWhole /\ NothingYet
  BY DEF SearchInv, SelectRows
<1>2. /\ rows' \in SetToSeqs(S) /\ InOrder(rows') /\ progress' = "scan"
      /\ UNCHANGED <<docs, question, synonyms, place, matches, counted, answer>>
      /\ question.mode \in {"regex", "exact"}
  BY DEF SelectRows
<1>3. IsFiniteSet(S) /\ Cardinality(S) <= Len(docs)
  BY <1>1, SomeRowsFact
<1>4. /\ rows' \in Seq(S) /\ Len(rows') = Cardinality(S)
      /\ \A i, j \in DOMAIN rows' : rows'[i] = rows'[j] => i = j
      /\ \A d \in S : \E i \in DOMAIN rows' : rows'[i] = d
  <2> HIDE DEF S
  <2> QED
    BY <1>2, <1>3, RowsFact
<1>5. DumpIsWhole'
  BY <1>1, <1>2 DEF DumpIsWhole, Lines
<1>6. RowsFit'
  <2>1. \A i \in DOMAIN rows' : rows'[i] \in S
    BY <1>4
  <2>2. S \subseteq DOMAIN docs /\ rows' \in Seq(DOMAIN docs)
    BY <1>4, SeqMonotonic
  <2> QED
    BY <1>2, <1>3, <1>4, <2>1, <2>2 DEF RowsFit, Filtered
<1>7. Len(rows') \in Nat /\ DOMAIN rows' = 1 .. Len(rows')
  BY <1>4
<1>8. ScanOrder'
  <2>1. (\A d \in DOMAIN docs : Filtered(docs[d]) => \E i \in DOMAIN rows : rows[i] = d)'
    BY <1>2, <1>4 DEF Filtered
  <2>2. InOrder(rows)'
    BY <1>2 DEF InOrder
  <2>3. place' = <<1, 1>>
    BY <1>1, <1>2 DEF NothingYet
  <2>4. 1 <= Len(rows') => 1 \in 1 .. Len(docs'[rows'[1]].lines)
    <3> SUFFICES ASSUME 1 <= Len(rows') PROVE 1 \in 1 .. Len(docs'[rows'[1]].lines)
      OBVIOUS
    <3>1. 1 \in DOMAIN rows'
      BY <1>7
    <3>2. rows'[1] \in DOMAIN docs'
      BY <1>6, <3>1 DEF RowsFit
    <3> QED
      BY <1>5, <3>2 DEF DumpIsWhole
  <2> QED
    BY <2>1, <2>2, <2>3, <2>4 DEF ScanOrder, Lines
<1>9. Counting'
  <2>1. place' = <<1, 1>> /\ matches' = <<>> /\ counted' = 0
    BY <1>1, <1>2 DEF NothingYet
  <2>2. \A h \in Hits' : ~Past(h)'
    <3>1. \A h \in Hits' : h[2] \in Nat \ {0}
      BY <1>5 DEF Hits, DumpIsWhole, Lines
    <3> QED
      BY <1>7, <2>1, <3>1 DEF Past
  <2>3. PastHits' = {}
    BY <2>2 DEF PastHits
  <2>4. Limit' \in Nat
    BY <1>1, <1>2, LimitFact DEF DumpIsWhole, Limit
  <2>5. matches' \in Seq({Match(h[1], h[2]) : h \in Hits})' /\ DOMAIN matches' = {} /\ Len(matches') = 0
    BY <2>1
  <2> QED
    BY <2>1, <2>3, <2>4, <2>5, FS_EmptySet DEF Counting
<1> QED
  BY <1>2, <1>5, <1>6, <1>8, <1>9 DEF SearchInv

\* SelectHits: the rows are some of the modules that are counted, at most the limit.
LEMMA SelectHitsStep == SearchInv /\ SelectHits => SearchInv'
<1> SUFFICES ASSUME SearchInv, SelectHits PROVE SearchInv'
  OBVIOUS
<1> DEFINE S == {d \in DOMAIN docs : Filtered(docs[d]) /\ FtsMatches(docs[d])}
<1>1. DumpIsWhole /\ NothingYet
  BY DEF SearchInv, SelectHits
<1>2. /\ counted' = Cardinality(S) /\ progress' = "hits" /\ question.mode = "smart"
      /\ UNCHANGED <<docs, question, synonyms, place, matches, answer>>
  BY DEF SelectHits
<1>3. PICK r \in SetToSeqs(S) : rows' = SubSeq(r, 1, IF Limit < Len(r) THEN Limit ELSE Len(r))
  BY DEF SelectHits
<1>4. IsFiniteSet(S) /\ Cardinality(S) \in Nat /\ Cardinality(S) <= Len(docs)
  BY <1>1, SomeRowsFact
<1>5. /\ r \in Seq(S) /\ Len(r) = Cardinality(S)
      /\ \A i, j \in DOMAIN r : r[i] = r[j] => i = j
  <2> HIDE DEF S
  <2> QED
    BY <1>3, <1>4, RowsFact
<1>6. Limit \in Nat /\ Limit' = Limit
  BY <1>1, <1>2, LimitFact DEF DumpIsWhole, Limit
<1> DEFINE m == IF Limit < Len(r) THEN Limit ELSE Len(r)
<1>7. m \in Nat /\ m <= Len(r) /\ m <= Limit
  BY <1>4, <1>5, <1>6
<1>8. /\ rows' \in Seq(S) /\ Len(rows') = m /\ DOMAIN rows' = 1 .. m /\ DOMAIN r = 1 .. Len(r)
      /\ \A i \in 1 .. m : rows'[i] = r[i]
  <2> HIDE DEF S
  <2>1. rows' = SubSeq(r, 1, m)
    BY <1>3
  <2> HIDE DEF m
  <2> QED
    BY <1>5, <1>7, <2>1, SubSeqProperties, LenProperties
<1>9. DumpIsWhole'
  BY <1>1, <1>2 DEF DumpIsWhole, Lines
<1>10. RowsFit'
  <2> HIDE DEF m
  <2>1. \A i \in DOMAIN rows' : rows'[i] \in S
    BY <1>8
  <2>2. S \subseteq DOMAIN docs /\ rows' \in Seq(DOMAIN docs)
    BY <1>8, SeqMonotonic
  <2>3. \A i, j \in DOMAIN rows' : rows'[i] = rows'[j] => i = j
    BY <1>5, <1>7, <1>8
  <2>4. Len(rows') <= Len(docs)
    BY <1>1, <1>4, <1>5, <1>7, <1>8 DEF DumpIsWhole
  <2> QED
    BY <1>2, <2>1, <2>2, <2>3, <2>4 DEF RowsFit, Filtered
<1>11. Showing'
  <2>1. place' = <<1, 1>> /\ matches' = <<>>
    BY <1>1, <1>2 DEF NothingYet
  <2>2. Len(rows') <= counted' /\ Len(rows') <= Limit' /\ counted' \in Nat /\ Len(rows') \in Nat
    BY <1>2, <1>4, <1>5, <1>6, <1>7, <1>8
  <2>3. matches' \in Seq({Match(d, LineOf(docs[d].lines)) : d \in DOMAIN docs})' /\ Len(matches') = 0
    BY <2>1
  <2> QED
    BY <2>1, <2>2, <2>3 DEF Showing
<1> QED
  BY <1>2, <1>9, <1>10, <1>11 DEF SearchInv

\* ShowHit: one more row has its line.
LEMMA ShowHitStep == SearchInv /\ ShowHit => SearchInv'
<1> SUFFICES ASSUME SearchInv, ShowHit PROVE SearchInv'
  OBVIOUS
<1>1. /\ DumpIsWhole /\ RowsFit /\ Showing /\ question.mode = "smart" /\ progress = "hits"
  BY DEF SearchInv, ShowHit
<1>2. /\ place[1] <= Len(rows) /\ place' = <<place[1] + 1, 1>>
      /\ UNCHANGED <<progress, docs, question, synonyms, rows, counted, answer>>
  BY DEF ShowHit
<1> DEFINE d == rows[place[1]]
           M == {Match(e, LineOf(docs[e].lines)) : e \in DOMAIN docs}
<1>3. matches' = Append(matches, Match(d, LineOf(docs[d].lines)))
  BY DEF ShowHit
<1>4. d \in DOMAIN docs
  BY <1>1, <1>2 DEF RowsFit, Showing
<1>5. M' = M
  BY <1>2 DEF Match, LineOf, Expanded
<1>6. matches' \in Seq(M') /\ Len(matches') = Len(matches) + 1
  <2> DEFINE x == Match(d, LineOf(docs[d].lines))
  <2>1. x \in M /\ matches \in Seq(M) /\ matches' = Append(matches, x)
    BY <1>1, <1>3, <1>4 DEF Showing
  <2> HIDE DEF x, M
  <2> QED
    BY <1>5, <2>1, AppendFact
<1>7. Showing'
  <2>1. Limit' = Limit /\ Len(rows) \in Nat
    BY <1>1, <1>2 DEF Limit, RowsFit
  <2> HIDE DEF M
  <2>2. /\ place'[1] \in Nat \ {0} /\ counted' \in Nat
        /\ Len(rows') <= counted' /\ Len(rows') <= Limit'
        /\ Len(matches') = place'[1] - 1 /\ Len(matches') <= Len(rows')
    BY <1>1, <1>2, <1>6, <2>1 DEF Showing
  <2> QED
    BY <1>6, <2>2 DEF Showing, M
<1>8. DumpIsWhole' /\ RowsFit'
  BY <1>1, <1>2 DEF DumpIsWhole, RowsFit, Lines, Filtered
<1> QED
  BY <1>1, <1>2, <1>7, <1>8 DEF SearchInv

\* What a step leaves alone stays what it is.
LEMMA SameSearch ==
    ASSUME UNCHANGED <<docs, question, synonyms, rows, place, matches, counted>>
    PROVE  /\ DumpIsWhole => DumpIsWhole'
           /\ RowsFit => RowsFit'
           /\ ScanOrder => ScanOrder'
           /\ Counting => Counting'
           /\ Showing => Showing'
           /\ NothingYet => NothingYet'
<1>1. /\ DumpIsWhole => DumpIsWhole'
      /\ RowsFit => RowsFit'
      /\ ScanOrder => ScanOrder'
      /\ NothingYet => NothingYet'
  BY DEF DumpIsWhole, RowsFit, ScanOrder, NothingYet, Lines, Filtered, InOrder
<1>2. /\ Hits' = Hits /\ Limit' = Limit
      /\ \A d, i : Match(d, i)' = Match(d, i)
      /\ \A h : Past(h)' <=> Past(h)
      /\ \A g, h : Ahead(g, h)' <=> Ahead(g, h)
      /\ \A n : Shown(n)' = Shown(n)
      /\ \A lines : LineOf(lines)' = LineOf(lines)
  BY DEF Hits, Limit, Match, Past, Ahead, Shown, LineOf, Expanded, Filtered
<1>3. PastHits' = PastHits
  BY <1>2 DEF PastHits
<1>4. Counting => Counting'
  <2>1. {Match(h[1], h[2]) : h \in Hits}' = {Match(h[1], h[2]) : h \in Hits}
    BY <1>2
  <2> QED
    BY <1>2, <1>3, <2>1 DEF Counting
<1>5. Showing => Showing'
  <2>1. {Match(d, LineOf(docs[d].lines)) : d \in DOMAIN docs}' = {Match(d, LineOf(docs[d].lines)) : d \in DOMAIN docs}
    BY <1>2
  <2> QED
    BY <1>2, <2>1 DEF Showing
<1> QED
  BY <1>1, <1>4, <1>5

\* An answer says that there are matches, that there are none, or that the index is
\* empty.
LEMMA AnswerFact == \A ms, n : AnswerOf(ms, n) \in {"matches", "nothing found", "empty index"}
  BY DEF AnswerOf

\* A question is asked of a dump.
LEMMA SearchStarts == SearchInit => SearchInv
<1> SUFFICES ASSUME SearchInit PROVE SearchInv
  OBVIOUS
<1>1. docs \in Dumps /\ question \in Questions /\ NothingYet /\ progress = "asked" /\ answer = "none"
  BY DEF SearchInit, NothingYet
<1>2. docs \in Seq(ToSet(docs)) /\ question.limit \in Int
  BY <1>1, SearchAssumption
<1>3. ASSUME NEW d \in DOMAIN docs
      PROVE  /\ docs[d].name \in Int /\ docs[d].lines \in Seq(ToSet(docs[d].lines))
             /\ Len(docs[d].lines) \in Nat \ {0} /\ DOMAIN docs[d].lines = Lines(d)
  <2>1. /\ docs[d].name \in Int
        /\ docs[d].lines \in Seq(ToSet(docs[d].lines)) /\ docs[d].lines # <<>>
    BY <1>1, SearchAssumption
  <2> QED
    BY <2>1, EmptySeq, LenProperties DEF Lines
<1>4. RowsFit
  <2>1. rows = <<>> /\ Len(docs) \in Nat
    BY <1>1, <1>2 DEF NothingYet
  <2> QED
    BY <2>1 DEF RowsFit
<1> QED
  BY <1>1, <1>2, <1>3, <1>4 DEF SearchInv, DumpIsWhole

\* Every step of a search keeps the invariant.
LEMMA SearchStep == SearchInv /\ [SearchNext]_searchVars => SearchInv'
<1> SUFFICES ASSUME SearchInv, [SearchNext]_searchVars PROVE SearchInv'
  OBVIOUS
<1>1. CASE RefuseQuery
  <2>1. /\ progress = "asked" /\ progress' = "answered" /\ answer' \in SearchErrors
        /\ UNCHANGED <<docs, question, synonyms, rows, place, matches, counted>>
    BY <1>1 DEF RefuseQuery, Refuse, SearchErrors
  <2> QED
    BY <2>1, SameSearch DEF SearchInv
<1>2. CASE SelectRows
  BY <1>2, SelectRowsStep
<1>3. CASE ScanLine
  <2>1. /\ progress = "scan" /\ place[1] <= Len(rows)
        /\ UNCHANGED <<progress, docs, question, synonyms, rows, answer>>
    BY <1>3 DEF ScanLine
  <2>2. DumpIsWhole /\ RowsFit /\ ScanOrder /\ Counting /\ question.mode \in {"regex", "exact"}
    BY <2>1 DEF SearchInv
  <2>3. ScanOrder' /\ Counting'
    BY <1>3, <2>2, ScanOrderStep, CountingStep
  <2>4. DumpIsWhole' /\ RowsFit'
    BY <2>1, <2>2 DEF DumpIsWhole, RowsFit, Lines, Filtered
  <2> QED
    BY <2>1, <2>2, <2>3, <2>4 DEF SearchInv
<1>4. CASE ScanEnds
  <2>1. /\ progress \in {"scan", "hits"} /\ place[1] > Len(rows) /\ progress' = "answered"
        /\ answer' \in {"matches", "nothing found", "empty index"}
        /\ UNCHANGED <<docs, question, synonyms, rows, place, matches, counted>>
    BY <1>4, AnswerFact DEF ScanEnds
  <2> QED
    BY <2>1, SameSearch DEF SearchInv
<1>5. CASE NoTokens
  <2>1. /\ progress = "asked" /\ question.mode = "smart" /\ progress' = "answered"
        /\ answer' \in {"matches", "nothing found", "empty index"}
        /\ UNCHANGED <<docs, question, synonyms, rows, place, matches, counted>>
    BY <1>5, AnswerFact DEF NoTokens, Refuse
  <2> QED
    BY <2>1, SameSearch DEF SearchInv
<1>6. CASE SelectHits
  BY <1>6, SelectHitsStep
<1>7. CASE ShowHit
  BY <1>7, ShowHitStep
<1>8. CASE LearnKeywords \/ LearnFunctions
  <2>1. progress = "asked" /\ UNCHANGED <<progress, docs, question, rows, place, matches, counted, answer>>
    BY <1>8 DEF LearnKeywords, LearnFunctions, Learning
  <2> QED
    BY <2>1 DEF SearchInv, DumpIsWhole, RowsFit, NothingYet, Lines, Filtered
<1>9. CASE UNCHANGED searchVars
  <2>1. UNCHANGED <<docs, question, synonyms, rows, place, matches, counted, progress, answer>>
    BY <1>9 DEF searchVars
  <2> QED
    BY <2>1, SameSearch DEF SearchInv
<1> QED
  BY <1>1, <1>2, <1>3, <1>4, <1>5, <1>6, <1>7, <1>8, <1>9 DEF SearchNext

\* The invariant of a search holds throughout.
LEMMA SearchInvariant == SearchSpec => []SearchInv
  BY SearchStarts, SearchStep, PTL DEF SearchSpec

--------------------------------------------------------------------------------
(* What a search promises                                                       *)

\* Nothing is listed that is not counted, and a smart search lists no more than was
\* asked for.
THEOREM SearchTypeCorrect == SearchSpec => []SearchTypeOK
<1>1. SearchInv => SearchTypeOK
  <2> SUFFICES ASSUME SearchInv PROVE SearchTypeOK
    OBVIOUS
  <2>1. DumpIsWhole /\ RowsFit
    BY DEF SearchInv
  <2>2. Limit \in Nat
    BY <2>1, LimitFact DEF DumpIsWhole
  <2>3. counted \in Nat /\ Len(matches) <= counted /\ (question.mode = "smart" => Len(matches) <= Limit)
    <3>1. CASE NothingYet
      BY <2>2, <3>1 DEF NothingYet
    <3>2. CASE Counting /\ question.mode \in {"regex", "exact"}
      <4>1. counted \in Nat
        BY <3>2, FS_CardinalityType DEF Counting
      <4> QED
        BY <2>2, <3>2, <4>1 DEF Counting
    <3>3. CASE Showing
      <4>1. Len(matches) \in Nat /\ Len(rows) \in Nat
        BY <2>1, <3>3 DEF Showing, RowsFit
      <4> QED
        BY <2>2, <3>3, <4>1 DEF Showing
    <3> QED
      BY <3>1, <3>2, <3>3 DEF SearchInv
  <2>4. \A i \in DOMAIN rows : rows[i] \in DOMAIN docs /\ Filtered(docs[rows[i]])
    BY <2>1 DEF RowsFit
  <2> QED
    BY <2>1, <2>3, <2>4 DEF SearchTypeOK, SearchInv, RowsFit, SearchErrors
<1> QED
  BY <1>1, SearchInvariant, PTL

\* _search_line_by_line: for every dump, question and order of equal names the
\* total is the number of lines that match, and the list is the first of them.
THEOREM SearchCountsAll == SearchSpec => []CountsAllShowsFirst
<1>1. SearchInv => CountsAllShowsFirst
  <2> SUFFICES ASSUME SearchInv, Answered({"regex", "exact"}) PROVE CountsAllShowsFirst
    BY DEF CountsAllShowsFirst
  <2>1. DumpIsWhole /\ RowsFit /\ ScanOrder /\ Counting /\ place[1] > Len(rows)
    BY DEF SearchInv, Answered, SearchErrors
  <2> DEFINE shown == [n \in DOMAIN matches |-> <<matches[n].doc, matches[n].line>>]
             k == Len(matches)
  <2>2. DOMAIN rows = 1 .. Len(rows) /\ Len(rows) \in Nat /\ rows \in [1 .. Len(rows) -> DOMAIN docs]
    BY <2>1 DEF RowsFit
  <2>3. PastHits = Hits
    <3>1. ASSUME NEW h \in Hits PROVE Past(h)
      <4>1. h[1] \in DOMAIN docs /\ Filtered(docs[h[1]])
        BY DEF Hits
      <4>2. PICK i \in DOMAIN rows : rows[i] = h[1]
        BY <2>1, <4>1 DEF ScanOrder
      <4>3. i < place[1]
        BY <2>1, <2>2 DEF ScanOrder
      <4> QED
        BY <4>2, <4>3 DEF Past
    <3> QED
      BY <3>1 DEF PastHits
  <2>4. k \in Nat /\ DOMAIN matches = 1 .. k /\ DOMAIN shown = 1 .. k
    BY <2>1, LenProperties DEF Counting
  <2>5. \A n \in 1 .. k : shown[n] = Shown(n) /\ shown[n] \in Hits
    BY <2>1, <2>3, <2>4 DEF Shown, Counting
  <2>6. \A m, n \in 1 .. k : shown[m] = shown[n] => m = n
    <3>1. \A m, n \in 1 .. k : Shown(m) = Shown(n) => m = n
      BY <2>1, <2>4 DEF Counting
    <3> HIDE DEF shown
    <3> QED
      BY <2>5, <3>1
  <2>7. ToSet(shown) = {shown[n] : n \in 1 .. k}
    BY <2>4 DEF ToSet
  <2>8. ToSet(shown) \subseteq Hits
    BY <2>5, <2>7
  <2>9. Len(shown) = k
    <3> HIDE DEF shown, k
    <3>1. shown \in [1 .. k -> Hits]
      <4>1. shown = [n \in 1 .. k |-> shown[n]]
        BY <2>4 DEF shown
      <4> QED
        BY <2>5, <4>1
    <3> QED
      BY <2>4, <3>1, SeqDef, LenProperties
  <2>10. Len(shown) = Cardinality(ToSet(shown))
    <3>1. shown \in Bijection(1 .. k, ToSet(shown))
      <4>1. shown = [n \in 1 .. k |-> shown[n]]
        BY <2>4
      <4> HIDE DEF shown, k
      <4> QED
        BY <2>6, <2>7, <4>1 DEF Bijection, Injection, Surjection, IsInjective
    <3> HIDE DEF shown, k
    <3>2. IsFiniteSet(1 .. k) /\ Cardinality(1 .. k) = k
      BY <2>4, FS_Interval
    <3> QED
      BY <2>9, <3>1, <3>2, FS_Bijection DEF ExistsBijection
  <2>11. counted \in Nat /\ counted = Cardinality(Hits)
    BY <2>1, <2>3, FS_CardinalityType DEF Counting
  <2>12. k = Min({counted, IF question.limit <= 0 THEN DefaultLimit
                           ELSE Min({question.limit, MaxLimit})})
    BY <2>1, <2>11, LimitFact DEF Counting, DumpIsWhole
  <2>13. ASSUME NEW n \in DOMAIN shown, NEW h \in Hits,
                \/ docs[h[1]].name < docs[shown[n][1]].name
                \/ h[1] = shown[n][1] /\ h[2] < shown[n][2]
         PROVE  \E m \in 1 .. n - 1 : shown[m] = h
    <3> DEFINE g == shown[n]
    <3>1. g = Shown(n) /\ g \in Hits /\ n \in 1 .. k
      BY <2>4, <2>5
    <3> HIDE DEF shown
    <3>2. /\ h[1] \in DOMAIN docs /\ Filtered(docs[h[1]])
          /\ g[1] \in DOMAIN docs /\ Filtered(docs[g[1]])
      BY <3>1 DEF Hits
    <3>3. PICK a \in DOMAIN rows : rows[a] = h[1]
      BY <2>1, <3>2 DEF ScanOrder
    <3>4. PICK b \in DOMAIN rows : rows[b] = g[1]
      BY <2>1, <3>2 DEF ScanOrder
    <3>5. Ahead(h, g)
      <4>1. CASE docs[h[1]].name < docs[g[1]].name
        <5>1. docs[h[1]].name \in Int /\ docs[g[1]].name \in Int
          BY <2>1, <3>2 DEF DumpIsWhole
        <5>2. ~(b < a) /\ a # b
          BY <2>1, <3>3, <3>4, <4>1, <5>1 DEF ScanOrder, InOrder
        <5> QED
          BY <2>2, <3>3, <3>4, <5>2 DEF Ahead
      <4>2. CASE h[1] = g[1] /\ h[2] < g[2]
        BY <3>3, <4>2 DEF Ahead
      <4> QED
        BY <2>13, <4>1, <4>2
    <3>6. PICK m \in 1 .. n - 1 : Shown(m) = h
      BY <2>1, <2>3, <2>4, <3>1, <3>5 DEF Counting
    <3>7. m \in 1 .. k
      BY <2>4, <3>1
    <3> QED
      BY <2>5, <3>6, <3>7
  <2> QED
    BY <2>8, <2>9, <2>10, <2>11, <2>12, <2>13 DEF CountsAllShowsFirst, Hits
<1> QED
  BY <1>1, SearchInvariant, PTL

--------------------------------------------------------------------------------
(* What a smart search shows                                                    *)

\* The words of the pairs of keywords that the map is built of.
KeywordsOf(n) == UNION {{KeywordPairs[i].ru, KeywordPairs[i].en} : i \in 1 .. n}

\* The map leads from each word to the other one of its pair, and back; while it is
\* built of keywords, it has no other words.
MapIsMutual ==
    /\ learned \in Nat
    /\ \A t \in DOMAIN synonyms : synonyms[t] \in DOMAIN synonyms /\ synonyms[synonyms[t]] = t
    /\ learned <= Len(KeywordPairs) => DOMAIN synonyms \subseteq KeywordsOf(learned)

TextsAreWhole ==
    /\ question.query \in Seq(ToSet(question.query))
    /\ \A d \in DOMAIN docs : \A i \in DOMAIN docs[d].lines :
          docs[d].lines[i] \in Seq(ToSet(docs[d].lines[i]))

\* A module that the expression of the search finds, and a match that shows one.
IsFound(d) == d \in DOMAIN docs /\ Tokens(question.query) # {} /\ FtsMatches(docs[d])
ShowsFound(n) == \E d : IsFound(d) /\ matches[n] = Match(d, LineOf(docs[d].lines))

SmartInv ==
    /\ MapIsMutual /\ TextsAreWhole
    /\ question.mode = "smart" => /\ \A i \in DOMAIN rows : IsFound(rows[i])
                                  /\ \A n \in DOMAIN matches : ShowsFound(n)

\* A pair none of whose words is taken keeps the map mutual.
LEMMA BothFact ==
    ASSUME MapIsMutual, NEW p, p.ru # p.en, {p.ru, p.en} \cap DOMAIN synonyms = {}
    PROVE  LET m == Both(p) IN
           /\ DOMAIN m = DOMAIN synonyms \cup {p.ru, p.en}
           /\ \A t \in DOMAIN m : m[t] \in DOMAIN m /\ m[m[t]] = t
<1> DEFINE m == Both(p)
<1>1. DOMAIN m = DOMAIN synonyms \cup {p.ru, p.en}
  BY DEF Both
<1>2. m[p.ru] = p.en /\ m[p.en] = p.ru
  BY DEF Both
<1>3. \A t \in DOMAIN synonyms : t # p.ru /\ t # p.en
  OBVIOUS
<1>4. \A t \in DOMAIN synonyms : m[t] = synonyms[t] /\ synonyms[t] \in DOMAIN synonyms
                                 /\ synonyms[synonyms[t]] = t
  BY <1>3 DEF Both, MapIsMutual
<1>5. ASSUME NEW t \in DOMAIN m PROVE m[t] \in DOMAIN m /\ m[m[t]] = t
  <2> HIDE DEF m
  <2>1. CASE t = p.ru
    BY <1>1, <1>2, <2>1
  <2>2. CASE t = p.en
    BY <1>1, <1>2, <2>2
  <2>3. CASE t \in DOMAIN synonyms
    BY <1>1, <1>4, <2>3
  <2> QED
    BY <1>1, <1>5, <2>1, <2>2, <2>3
<1> QED
  BY <1>1, <1>5

\* LearnKeywords, LearnFunctions: one more pair is in the map or is skipped whole.
LEMMA LearnStep == MapIsMutual /\ (LearnKeywords \/ LearnFunctions) => MapIsMutual'
<1> SUFFICES ASSUME MapIsMutual, LearnKeywords \/ LearnFunctions PROVE MapIsMutual'
  OBVIOUS
<1>1. learned \in Nat /\ learned' = learned + 1 /\ Len(KeywordPairs) \in Nat
  BY SearchAssumption DEF MapIsMutual, LearnKeywords, LearnFunctions, Learning
<1>2. ASSUME synonyms' = synonyms, learned' <= Len(KeywordPairs)
      PROVE  DOMAIN synonyms' \subseteq KeywordsOf(learned')
  BY <1>1, <1>2 DEF MapIsMutual, KeywordsOf
<1>3. CASE synonyms' = synonyms
  BY <1>1, <1>2, <1>3 DEF MapIsMutual
<1>4. CASE LearnKeywords /\ synonyms' # synonyms
  <2> DEFINE p == KeywordPairs[learned + 1]
  <2>1. p.ru # p.en /\ synonyms' = Both(p) /\ learned < Len(KeywordPairs)
    BY <1>4 DEF LearnKeywords
  <2>2. {p.ru, p.en} \cap KeywordsOf(learned) = {}
    <3>1. ASSUME NEW i \in 1 .. learned
          PROVE  {KeywordPairs[i].ru, KeywordPairs[i].en} \cap {p.ru, p.en} = {}
      <4>1. i \in 1 .. Len(KeywordPairs) /\ learned + 1 \in 1 .. Len(KeywordPairs) /\ i # learned + 1
        BY <1>1, <2>1
      <4> QED
        BY <4>1, SearchAssumption
    <3> QED
      BY <3>1 DEF KeywordsOf
  <2>3. DOMAIN synonyms \subseteq KeywordsOf(learned)
    BY <1>1, <2>1 DEF MapIsMutual
  <2>4. KeywordsOf(learned') = KeywordsOf(learned) \cup {p.ru, p.en}
    <3>1. 1 .. learned' = (1 .. learned) \cup {learned + 1}
      BY <1>1
    <3> QED
      BY <1>1, <3>1 DEF KeywordsOf
  <2> HIDE DEF p
  <2>5. {p.ru, p.en} \cap DOMAIN synonyms = {}
    BY <2>2, <2>3
  <2>6. /\ DOMAIN synonyms' = DOMAIN synonyms \cup {p.ru, p.en}
        /\ \A t \in DOMAIN synonyms' : synonyms'[t] \in DOMAIN synonyms' /\ synonyms'[synonyms'[t]] = t
    BY <2>1, <2>5, BothFact
  <2>7. DOMAIN synonyms' \subseteq KeywordsOf(learned')
    BY <2>3, <2>4, <2>6
  <2> QED
    BY <1>1, <2>6, <2>7 DEF MapIsMutual
<1>5. CASE LearnFunctions /\ synonyms' # synonyms
  <2> DEFINE p == FunctionPairs[learned + 1 - Len(KeywordPairs)]
  <2>1. /\ p.ru # p.en /\ synonyms' = Both(p) /\ {p.ru, p.en} \cap DOMAIN synonyms = {}
        /\ learned >= Len(KeywordPairs)
    BY <1>1, <1>5 DEF LearnFunctions
  <2> HIDE DEF p
  <2>2. \A t \in DOMAIN synonyms' : synonyms'[t] \in DOMAIN synonyms' /\ synonyms'[synonyms'[t]] = t
    BY <2>1, BothFact
  <2>3. ~(learned' <= Len(KeywordPairs))
    BY <1>1, <2>1
  <2> QED
    BY <1>1, <2>2, <2>3 DEF MapIsMutual
<1> QED
  BY <1>3, <1>4, <1>5

\* Every step of a search keeps what is known of a smart one.
LEMMA SmartStep == SearchInv /\ SmartInv /\ [SearchNext]_searchVars => SmartInv'
<1> SUFFICES ASSUME SearchInv, SmartInv, [SearchNext]_searchVars PROVE SmartInv'
  OBVIOUS
<1>1. ASSUME UNCHANGED <<docs, question, synonyms, learned>>
      PROVE  /\ MapIsMutual' /\ TextsAreWhole'
             /\ \A d : IsFound(d)' <=> IsFound(d)
             /\ \A d : Match(d, LineOf(docs[d].lines))' = Match(d, LineOf(docs[d].lines))
  <2>1. MapIsMutual' /\ TextsAreWhole'
    BY <1>1 DEF SmartInv, MapIsMutual, TextsAreWhole
  <2>2. \A d : IsFound(d)' <=> IsFound(d)
    BY <1>1 DEF IsFound, FtsMatches, Expanded
  <2>3. \A d : Match(d, LineOf(docs[d].lines))' = Match(d, LineOf(docs[d].lines))
    BY <1>1 DEF Match, LineOf, Expanded
  <2> QED
    BY <2>1, <2>2, <2>3
<1>2. ASSUME UNCHANGED <<docs, question, synonyms, learned, rows, matches>> PROVE SmartInv'
  <2>1. \A n : ShowsFound(n) => ShowsFound(n)'
    BY <1>1, <1>2 DEF ShowsFound
  <2> QED
    BY <1>1, <1>2, <2>1 DEF SmartInv
<1>3. CASE RefuseQuery \/ NoTokens \/ ScanEnds \/ UNCHANGED searchVars
  BY <1>2, <1>3 DEF RefuseQuery, Refuse, NoTokens, ScanEnds, searchVars
<1>4. CASE SelectRows \/ ScanLine
  <2>1. question.mode # "smart" /\ UNCHANGED <<docs, question, synonyms, learned>>
    BY <1>4 DEF SelectRows, ScanLine, SearchInv
  <2> QED
    BY <1>1, <2>1 DEF SmartInv
<1>5. CASE LearnKeywords \/ LearnFunctions
  <2>1. MapIsMutual'
    BY <1>5, LearnStep DEF SmartInv
  <2>2. progress = "asked" /\ UNCHANGED <<docs, question, rows, matches>>
    BY <1>5 DEF LearnKeywords, LearnFunctions, Learning
  <2>3. rows' = <<>> /\ matches' = <<>>
    BY <2>2 DEF SearchInv, NothingYet
  <2>4. TextsAreWhole'
    BY <2>2 DEF SmartInv, TextsAreWhole
  <2> QED
    BY <2>1, <2>3, <2>4 DEF SmartInv
<1>6. CASE SelectHits
  <2> DEFINE S == {d \in DOMAIN docs : Filtered(docs[d]) /\ FtsMatches(docs[d])}
  <2>1. /\ UNCHANGED <<docs, question, synonyms, learned, matches>> /\ progress = "asked"
        /\ Tokens(question.query) # {}
    BY <1>6 DEF SelectHits
  <2>2. matches' = <<>>
    BY <2>1 DEF SearchInv, NothingYet
  <2>3. PICK r \in SetToSeqs(S) : rows' = SubSeq(r, 1, IF Limit < Len(r) THEN Limit ELSE Len(r))
    BY <1>6 DEF SelectHits
  <2>4. \A d \in S : IsFound(d)'
    BY <1>1, <2>1 DEF IsFound
  <2>5. IsFiniteSet(S) /\ Limit \in Nat
    BY SomeRowsFact, LimitFact DEF SearchInv, DumpIsWhole
  <2> HIDE DEF S
  <2>6. r \in Seq(S) /\ Len(r) \in Nat
    BY <2>3, <2>5, RowsFact, LenProperties
  <2> DEFINE m == IF Limit < Len(r) THEN Limit ELSE Len(r)
  <2>7. m \in Nat /\ m <= Len(r)
    BY <2>5, <2>6
  <2>8. rows' = SubSeq(r, 1, m)
    BY <2>3
  <2> HIDE DEF m
  <2>9. \A i \in DOMAIN rows' : rows'[i] \in S
    BY <2>6, <2>7, <2>8, SubSeqProperties, LenProperties
  <2> QED
    BY <1>1, <2>1, <2>2, <2>4, <2>9 DEF SmartInv
<1>7. CASE ShowHit
  <2> DEFINE d == rows[place[1]]
             x == Match(d, LineOf(docs[d].lines))
             k == Len(matches)
  <2>1. /\ UNCHANGED <<docs, question, synonyms, learned, rows>> /\ progress = "hits"
        /\ place[1] <= Len(rows) /\ matches' = Append(matches, x)
    BY <1>7 DEF ShowHit
  <2>2. question.mode = "smart" /\ Showing /\ RowsFit
    BY <2>1 DEF SearchInv
  <2>3. IsFound(d)
    BY <2>1, <2>2 DEF SmartInv, RowsFit, Showing
  <2>4. \E S : matches \in Seq(S) /\ x \in S
    <3>1. matches \in Seq({Match(e, LineOf(docs[e].lines)) : e \in DOMAIN docs}) /\ d \in DOMAIN docs
      BY <2>2, <2>3 DEF Showing, IsFound
    <3> QED
      BY <3>1
  <2>5. PICK S : matches \in Seq(S) /\ x \in S
    BY <2>4
  <2>6. /\ DOMAIN matches = 1 .. k /\ k \in Nat /\ DOMAIN matches' = 1 .. k + 1
        /\ \A n \in 1 .. k : matches'[n] = matches[n]
        /\ matches'[k + 1] = x
    <3> HIDE DEF x
    <3> QED
      BY <2>1, <2>5, AppendFact
  <2>7. ASSUME NEW n \in DOMAIN matches' PROVE ShowsFound(n)'
    <3>1. CASE n \in 1 .. k
      <4>1. PICK e : IsFound(e) /\ matches[n] = Match(e, LineOf(docs[e].lines))
        BY <2>2, <2>6, <3>1 DEF SmartInv, ShowsFound
      <4> QED
        BY <1>1, <2>1, <2>6, <3>1, <4>1 DEF ShowsFound
    <3>2. CASE n = k + 1
      BY <1>1, <2>1, <2>3, <2>6, <3>2 DEF ShowsFound
    <3> QED
      BY <2>6, <3>1, <3>2
  <2> QED
    BY <1>1, <2>1, <2>7 DEF SmartInv
<1> QED
  BY <1>3, <1>4, <1>5, <1>6, <1>7 DEF SearchNext

\* Both invariants of a search hold throughout.
LEMMA SmartInvariant == SearchSpec => [](SearchInv /\ SmartInv)
<1>1. SearchInit => SmartInv
  <2> SUFFICES ASSUME SearchInit PROVE SmartInv
    OBVIOUS
  <2>1. docs \in Dumps /\ question \in Questions
    BY DEF SearchInit
  <2>2. TextsAreWhole
    BY <2>1, SearchAssumption DEF TextsAreWhole
  <2>3. MapIsMutual
    BY DEF SearchInit, MapIsMutual
  <2> QED
    BY <2>2, <2>3 DEF SearchInit, SmartInv
<1> QED
  BY <1>1, SearchStarts, SearchStep, SmartStep, PTL DEF SearchSpec

--------------------------------------------------------------------------------
(* Why a module was found                                                       *)

\* A number that is the least of some.
LEMMA LeastFact ==
    ASSUME NEW T \in SUBSET Nat, T # {}
    PROVE  \E x \in T : \A y \in T : x <= y
<1>1. PICK x \in T : \A y \in T : ~ (<<y, x>> \in OpToRel(<, Nat))
  BY NatLessThanWellFounded, WFMin
<1>2. ASSUME NEW y \in T PROVE x <= y
  <2>1. <<y, x>> \in Nat \X Nat /\ <<y, x>>[1] = y /\ <<y, x>>[2] = x
    OBVIOUS
  <2>2. ~ (y < x)
    BY <1>1, <2>1 DEF OpToRel
  <2> QED
    BY <2>2
<1> QED
  BY <1>2

\* _best_line: it gives a line with a word in it, if there is one.
LEMMA BestLineFact ==
    ASSUME NEW lines, NEW words, NEW long \in Nat, DOMAIN lines = 1 .. long,
           IsFiniteSet(DOMAIN words)
    PROVE  LET b == BestLine(lines, words) IN
           \/ b = 0 /\ \A i \in DOMAIN lines, n \in DOMAIN words : ~IsIn(words[n], lines[i])
           \/ b \in DOMAIN lines /\ \E n \in DOMAIN words : IsIn(words[n], lines[b])
<1> DEFINE In(i) == {n \in DOMAIN words : IsIn(words[n], lines[i])}
           most == Cardinality(DOMAIN words)
           score == [i \in DOMAIN lines |-> Cardinality(In(i))]
           best == {i \in DOMAIN lines :
                       /\ score[i] > 0
                       /\ \A j \in DOMAIN lines : score[j] <= score[i] /\ (j < i => score[j] < score[i])}
           b == BestLine(lines, words)
<1>1. b = IF best = {} THEN 0 ELSE CHOOSE i \in best : TRUE
  BY DEF BestLine
<1>2. \A i : In(i) \subseteq DOMAIN words
  OBVIOUS
<1> HIDE DEF In, b
<1>3. ASSUME NEW i \in DOMAIN lines
      PROVE  score[i] \in 0 .. most /\ most \in Nat /\ (score[i] > 0 <=> In(i) # {})
  <2>1. /\ IsFiniteSet(In(i)) /\ Cardinality(In(i)) \in Nat /\ Cardinality(In(i)) <= most
        /\ most \in Nat
    BY <1>2, FS_Subset, FS_CardinalityType
  <2>2. Cardinality(In(i)) = 0 <=> In(i) = {}
    BY <2>1, FS_EmptySet
  <2> QED
    BY <2>1, <2>2
<1>4. ASSUME NEW i \in DOMAIN lines, In(i) # {} PROVE best # {}
  <2> DEFINE Gap == {most - score[j] : j \in DOMAIN lines}
  <2> HIDE DEF score, most
  <2>1. Gap \in SUBSET Nat /\ Gap # {}
    BY <1>3
  <2>2. PICK g \in Gap : \A h \in Gap : g <= h
    <3> HIDE DEF Gap
    <3> QED
      BY <2>1, LeastFact
  <2> DEFINE High == {j \in DOMAIN lines : most - score[j] = g}
  <2>3. High \in SUBSET Nat /\ High # {}
    BY <2>2
  <2>4. PICK k \in High : \A j \in High : k <= j
    <3> HIDE DEF High, Gap
    <3> QED
      BY <2>3, LeastFact
  <2>5. k \in DOMAIN lines /\ most - score[k] = g
    OBVIOUS
  <2>6. ASSUME NEW j \in DOMAIN lines PROVE score[j] <= score[k]
    <3>1. g <= most - score[j]
      BY <2>2
    <3> QED
      BY <1>3, <2>5, <3>1
  <2>7. ASSUME NEW j \in DOMAIN lines, j < k PROVE score[j] < score[k]
    <3>1. j \notin High
      BY <2>4, <2>7
    <3>2. score[j] # score[k]
      BY <2>5, <3>1
    <3> QED
      BY <1>3, <2>5, <2>6, <3>2
  <2>8. score[k] > 0
    BY <1>3, <1>4, <2>5, <2>6
  <2> QED
    BY <2>5, <2>6, <2>7, <2>8
<1>5. CASE best = {}
  BY <1>1, <1>4, <1>5 DEF In, b
<1>6. CASE best # {}
  <2>1. b \in best
    BY <1>1, <1>6
  <2>2. b \in DOMAIN lines /\ score[b] > 0
    BY <2>1
  <2> HIDE DEF score, best
  <2>3. In(b) # {}
    BY <1>3, <2>2
  <2> QED
    BY <2>2, <2>3 DEF In, b
<1> QED
  BY <1>5, <1>6

\* The words of a query without separators other than spaces are its tokens.
LEMMA WordsFact ==
    ASSUME TextsAreWhole, Dot \notin ToSet(question.query)
    PROVE  LET words == PlainTokens(question.query) IN
           /\ IsFiniteSet(DOMAIN words)
           /\ Tokens(question.query) = {words[w] : w \in DOMAIN words}
<1> DEFINE text == question.query
           long == Len(text)
           W == Words(text, {Space})
<1>1. text \in Seq(ToSet(text)) /\ long \in Nat /\ DOMAIN text = 1 .. long
  BY LenProperties DEF TextsAreWhole
<1>2. Words(text, {Dot, Space}) = W
  <2>1. \A i \in DOMAIN text : text[i] # Dot
    BY DEF ToSet
  <2> QED
    BY <2>1 DEF Words
<1>3. IsFiniteSet(W)
  <2>1. W \subseteq (1 .. long) \X (1 .. long)
    BY <1>1 DEF Words
  <2>2. IsFiniteSet(1 .. long)
    BY <1>1, FS_Interval
  <2>3. IsFiniteSet((1 .. long) \X (1 .. long))
    BY <2>2, FS_Product
  <2> QED
    BY <2>1, <2>3, FS_Subset
<1> QED
  BY <1>2, <1>3 DEF PlainTokens, Tokens

\* A token of a text is a part of it.
LEMMA PartFact ==
    ASSUME NEW text, text \in Seq(ToSet(text)), NEW t \in Tokens(text)
    PROVE  IsIn(t, text)
<1>1. PICK w \in Words(text, {Dot, Space}) : t = SubSeq(text, w[1], w[2])
  BY DEF Tokens
<1> DEFINE m == w[1]
           n == w[2]
           i == m - 1
<1>2. DOMAIN text = 1 .. Len(text) /\ Len(text) \in Nat
  BY LenProperties
<1>3. m \in 1 .. Len(text) /\ n \in 1 .. Len(text) /\ m <= n
  BY <1>1, <1>2 DEF Words
<1>4. Len(t) = n - m + 1
  <2>1. \A k \in m .. n : text[k] \in ToSet(text)
    BY <1>2, <1>3 DEF ToSet
  <2>2. m \in Int /\ n \in Int /\ t = SubSeq(text, m, n)
    BY <1>1, <1>3
  <2> HIDE DEF m, n
  <2> QED
    BY <1>3, <2>1, <2>2, SubSeqProperties
<1> HIDE DEF m, n
<1>5. i \in 0 .. Len(text) - Len(t) /\ i + 1 = m /\ i + Len(t) = n
  BY <1>2, <1>3, <1>4
<1>6. t = SubSeq(text, m, n)
  BY <1>1 DEF m, n
<1> HIDE DEF i
<1> QED
  BY <1>5, <1>6 DEF IsIn

\* _extract_context: a line is in the context that is shown with it.
LEMMA ContextFact ==
    ASSUME NEW lines, lines \in Seq(ToSet(lines)), NEW line \in DOMAIN lines
    PROVE  lines[line] \in ToSet(Context(lines, line))
<1> DEFINE first == IF line - Window < 1 THEN 1 ELSE line - Window
           last == IF line + Window > Len(lines) THEN Len(lines) ELSE line + Window
           c == Context(lines, line)
           k == line - first + 1
<1>1. DOMAIN lines = 1 .. Len(lines) /\ Len(lines) \in Nat /\ line \in 1 .. Len(lines) /\ Window \in Nat
  BY LenProperties, SearchAssumption
<1>2. c = SubSeq(lines, first, last)
  BY DEF Context
<1>3. first \in 1 .. line /\ last \in line .. Len(lines)
  BY <1>1
<1> HIDE DEF first, last, c
<1>4. first \in Int /\ last \in Int /\ k \in 1 .. last - first + 1 /\ first + k - 1 = line /\ first <= last
  BY <1>1, <1>3
<1> HIDE DEF k
<1>5. \A i \in first .. last : lines[i] \in ToSet(lines)
  BY <1>1, <1>3 DEF ToSet
<1>6. /\ c \in Seq(ToSet(lines)) /\ Len(c) = last - first + 1
      /\ \A i \in 1 .. last - first + 1 : c[i] = lines[first + i - 1]
  BY <1>2, <1>4, <1>5, SubSeqProperties
<1>7. k \in DOMAIN c /\ c[k] = lines[line]
  BY <1>4, <1>6, LenProperties
<1> QED
  BY <1>7 DEF ToSet, c

\* The line of a hit has a token of the query or, if no line has, a synonym of one.
LEMMA LineFact ==
    ASSUME TextsAreWhole, DumpIsWhole, Dot \notin ToSet(question.query), NEW d, IsFound(d)
    PROVE  LET lines == docs[d].lines
               tokens == Tokens(question.query)
               line == LineOf(lines)
               Has(i, ts) == \E t \in ts : IsIn(t, lines[i])
           IN /\ line \in DOMAIN lines
              /\ IF \E i \in DOMAIN lines : Has(i, tokens) THEN Has(line, tokens)
                 ELSE Has(line, UNION {Expanded(t) : t \in tokens})
<1> DEFINE lines == docs[d].lines
           tokens == Tokens(question.query)
           words == PlainTokens(question.query)
           expanded == UNION {Expanded(t) : t \in tokens}
           Has(i, ts) == \E t \in ts : IsIn(t, lines[i])
           best == BestLine(lines, words)
           second == FirstLineWithAny(lines, expanded)
           line == LineOf(lines)
<1>1. line = IF best > 0 THEN best
             ELSE IF tokens \cap DOMAIN synonyms # {} /\ second > 0 THEN second ELSE 1
  BY DEF LineOf
<1>2. /\ d \in DOMAIN docs /\ Len(lines) \in Nat \ {0} /\ DOMAIN lines = 1 .. Len(lines)
      /\ \A i \in DOMAIN lines : lines[i] \in Seq(ToSet(lines[i]))
  BY DEF IsFound, DumpIsWhole, Lines, TextsAreWhole
<1>3. IsFiniteSet(DOMAIN words) /\ tokens = {words[w] : w \in DOMAIN words}
  BY WordsFact
<1>4. tokens # {} /\ \A t \in tokens : Expanded(t) \cap TokensOf(docs[d]) # {}
  BY DEF IsFound, FtsMatches
<1>5. \A s \in TokensOf(docs[d]) : \E i \in DOMAIN lines : IsIn(s, lines[i])
  <2>1. \A i \in DOMAIN lines : \A s \in Tokens(lines[i]) : IsIn(s, lines[i])
    BY <1>2, PartFact
  <2> QED
    BY <2>1 DEF TokensOf
<1>6. second = LET has == {i \in DOMAIN lines : Has(i, expanded)} IN IF has = {} THEN 0 ELSE Min(has)
  BY DEF FirstLineWithAny
<1> HIDE DEF lines, words, best, second, line, tokens
<1>7. \A i \in DOMAIN lines : (\E n \in DOMAIN words : IsIn(words[n], lines[i])) <=> Has(i, tokens)
  BY <1>3
<1>8. \/ best = 0 /\ \A i \in DOMAIN lines : ~Has(i, tokens)
      \/ best \in DOMAIN lines /\ Has(best, tokens)
  <2>1. \/ best = 0 /\ \A i \in DOMAIN lines, n \in DOMAIN words : ~IsIn(words[n], lines[i])
        \/ best \in DOMAIN lines /\ \E n \in DOMAIN words : IsIn(words[n], lines[best])
    BY <1>2, <1>3, BestLineFact DEF best
  <2> QED
    BY <1>7, <2>1
<1>9. CASE best \in DOMAIN lines /\ Has(best, tokens)
  <2>1. line = best
    BY <1>1, <1>2, <1>9
  <2> QED
    BY <1>9, <2>1 DEF line, lines, tokens
<1>10. CASE best = 0 /\ \A i \in DOMAIN lines : ~Has(i, tokens)
  <2>1. PICK t \in tokens : TRUE
    BY <1>4
  <2>2. PICK s \in Expanded(t) : s \in TokensOf(docs[d])
    BY <1>4, <2>1
  <2>3. PICK i \in DOMAIN lines : IsIn(s, lines[i])
    BY <1>5, <2>2
  <2>4. s # t
    BY <1>10, <2>1, <2>3
  <2>5. t \in DOMAIN synonyms
    BY <2>2, <2>4 DEF Expanded
  <2>6. s \in expanded
    BY <2>1, <2>2
  <2> DEFINE has == {j \in DOMAIN lines : Has(j, expanded)}
  <2>7. i \in has
    BY <2>3, <2>6
  <2>8. second = Min(has)
    BY <1>6, <2>7
  <2>9. has \subseteq DOMAIN lines
    OBVIOUS
  <2>10. Min(has) \in has
    <3> HIDE DEF has
    <3>1. has \in SUBSET Nat /\ has # {}
      BY <1>2, <2>7, <2>9
    <3>2. PICK x \in has : \A y \in has : x <= y
      BY <3>1, LeastFact
    <3> QED
      BY <3>2 DEF Min
  <2>11. second \in DOMAIN lines /\ Has(second, expanded)
    BY <2>8, <2>10
  <2>12. second > 0
    BY <1>2, <2>11
  <2>13. line = second
    BY <1>1, <1>10, <2>1, <2>5, <2>12
  <2>14. /\ line \in DOMAIN lines /\ Has(line, expanded)
         /\ ~ \E j \in DOMAIN lines : Has(j, tokens)
    BY <1>10, <2>11, <2>13
  <2> HIDE DEF has
  <2> QED
    BY <2>14 DEF line, lines, tokens
<1> QED
  BY <1>8, <1>9, <1>10

\* _search_smart, build_synonym_map: for every dump, list of pairs and ranking, the
\* line shown of a module has a token of the query or, if no line has, a synonym of
\* one, each possibly as a part of a longer word, unless the query has separators
\* other than spaces; it is in its context; and a search by either of two synonyms is
\* the same.
THEOREM SearchExplains == SearchSpec => []HitsAreExplained
<1>1. ASSUME SearchInv, SmartInv PROVE ShownLineExplains
  <2> SUFFICES ASSUME Answered({"smart"}), Dot \notin ToSet(question.query), NEW n \in DOMAIN matches
               PROVE  LET tokens == Tokens(question.query)
                          lines == docs[matches[n].doc].lines
                          Has(i, ts) == \E t \in ts : IsIn(t, lines[i])
                          line == matches[n].line
                      IN /\ lines[line] \in ToSet(matches[n].context)
                         /\ IF \E i \in DOMAIN lines : Has(i, tokens) THEN Has(line, tokens)
                            ELSE Has(line, UNION {Expanded(t) : t \in tokens})
    BY DEF ShownLineExplains
  <2>1. PICK d : IsFound(d) /\ matches[n] = Match(d, LineOf(docs[d].lines))
    BY <1>1 DEF SmartInv, ShowsFound, Answered
  <2>2. /\ matches[n].doc = d /\ matches[n].line = LineOf(docs[d].lines)
        /\ matches[n].context = Context(docs[d].lines, LineOf(docs[d].lines))
    BY <2>1 DEF Match
  <2>3. TextsAreWhole /\ DumpIsWhole
    BY <1>1 DEF SmartInv, SearchInv
  <2>4. docs[d].lines \in Seq(ToSet(docs[d].lines))
    BY <2>1, <2>3 DEF IsFound, DumpIsWhole
  <2>5. LineOf(docs[d].lines) \in DOMAIN docs[d].lines
    BY <2>1, <2>3, LineFact
  <2>6. docs[d].lines[LineOf(docs[d].lines)] \in ToSet(Context(docs[d].lines, LineOf(docs[d].lines)))
    BY <2>4, <2>5, ContextFact
  <2> QED
    BY <2>1, <2>2, <2>3, <2>6, LineFact
<1>2. ASSUME SmartInv PROVE SynonymsAreMutual
  <2>1. \A t \in DOMAIN synonyms : synonyms[t] \in DOMAIN synonyms /\ synonyms[synonyms[t]] = t
    BY <1>2 DEF SmartInv, MapIsMutual
  <2>2. \A t \in DOMAIN synonyms : Expanded(t) = {t, synonyms[t]}
    BY DEF Expanded
  <2> QED
    BY <2>1, <2>2 DEF SynonymsAreMutual
<1>3. SearchInv /\ SmartInv => HitsAreExplained
  BY <1>1, <1>2 DEF HitsAreExplained
<1> QED
  BY <1>3, SmartInvariant, PTL

================================================================================
