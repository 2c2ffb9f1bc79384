------------------------------ MODULE ParserProofs ------------------------------
(***************************************************************************)
(* The parsers of what others wrote, for inputs of any content and length: *)
(* the chains of a help file are read whole, within the limit, and no      *)
(* block twice; the preprocessor directives of a text are accepted exactly *)
(* if they pair; an expression's node, and the variables it reads, are     *)
(* what its tokens say; and the parser of statements always knows what is  *)
(* left to do and opens no more blocks than its limit.                     *)
(***************************************************************************)
EXTENDS HbkChain, BslDirectives, BslExpression, BslParser, FiniteSetTheorems, SequenceTheorems,
        WellFoundedInduction, TLAPS

--------------------------------------------------------------------------------
(* Help files: HbkChain                                                         *)

\* Every read is of another block: the reads are counted by the visited ones.
Counted == reads = Cardinality(visited)

\* The next block of an unfinished chain is one of the file.
Linked == remaining > 0 => offset \in Offsets

HbkInv == HbkTypeOK /\ BodyIsWhole /\ Counted /\ Linked /\ PagesWithinLimit

LEMMA AtMostFact ==
    ASSUME NEW n \in Nat, NEW m \in Nat
    PROVE  AtMost(n, m) \in Nat /\ AtMost(n, m) <= n
  BY DEF AtMost

LEMMA ZeroFact == ASSUME NEW n \in Nat PROVE 0 + n = n
  OBVIOUS

\* A set of visited blocks is finite, and has no more members than the file.
LEMMA VisitedFinite ==
    ASSUME NEW V \in SUBSET Offsets
    PROVE  IsFiniteSet(V) /\ Cardinality(V) \in Nat /\ Cardinality(V) <= Cardinality(Offsets)
  BY HbkAssumption, FS_Subset, FS_CardinalityType

\* The header of a chain: nothing is read yet.
LEMMA StartStep ==
    ASSUME HbkInv, NEW where \in {"infos", "storage"}, NEW o \in Offsets, StartBody(where, o),
           entities' \in Nat, UNCHANGED <<unpacked, yielded>>
    PROVE  HbkInv'
<1>0. total' \in Nat
  BY HbkAssumption DEF StartBody
<1>5. remaining' = total' /\ taken' = 0
  BY DEF StartBody
<1>1. HbkTypeOK'
  BY <1>0, <1>5 DEF HbkInv, HbkTypeOK, StartBody
<1>2. BodyIsWhole'
  <2>1. taken' + remaining' = total'
    <3>1. 0 + total' = total'
      BY <1>0, ZeroFact, Zenon
    <3> QED
      BY <1>5, <3>1, Zenon
  <2>3. total' <= MaxStorage
    BY DEF StartBody
  <2>2. hbk' \notin {"table", "pages", "done"}
    BY DEF StartBody
  <2> QED
    BY <2>1, <2>2, <2>3 DEF BodyIsWhole
<1>4. PagesWithinLimit' /\ Linked'
  BY DEF HbkInv, StartBody, PagesWithinLimit, Linked
<1>3. Counted'
  BY FS_EmptySet DEF StartBody, Counted
<1> QED
  BY <1>1, <1>2, <1>3, <1>4 DEF HbkInv

\* One more block.
LEMMA BlockStep == HbkInv /\ ReadBlock => HbkInv'
<1> SUFFICES ASSUME HbkInv, ReadBlock PROVE HbkInv'
  OBVIOUS
<1> USE DEF HbkInv, HbkTypeOK
<1>1. PICK size0 \in 1 .. MaxNumber, following \in Offsets \cup {End} :
          /\ taken' = taken + AtMost(remaining, size0)
          /\ remaining' = remaining - AtMost(remaining, size0)
          /\ remaining' > 0 => following # End
          /\ offset' = following
  BY DEF ReadBlock
<1>2. AtMost(remaining, size0) \in Nat /\ AtMost(remaining, size0) <= remaining
  BY HbkAssumption, AtMostFact
<1>3. taken' \in Nat /\ remaining' \in Nat /\ taken' + remaining' = total
  BY <1>1, <1>2 DEF BodyIsWhole
<1>4. offset \in Offsets /\ offset \notin visited
  BY DEF ReadBlock, Linked
<1>5. HbkTypeOK'
  BY <1>1, <1>3, <1>4 DEF ReadBlock
<1>6. BodyIsWhole' /\ Linked' /\ PagesWithinLimit'
  BY <1>1, <1>3 DEF ReadBlock, BodyIsWhole, Linked, PagesWithinLimit
<1>7. Cardinality(visited') = Cardinality(visited) + 1
  BY <1>4, VisitedFinite, FS_AddElement DEF ReadBlock
<1>8. Counted'
  BY <1>7 DEF ReadBlock, Counted
<1> QED
  BY <1>5, <1>6, <1>8

\* Every other step of read_pages.
LEMMA ReadingStep == HbkInv /\ [Reading]_hbkVars => HbkInv'
<1> SUFFICES ASSUME HbkInv, [Reading]_hbkVars PROVE HbkInv'
  OBVIOUS
<1> USE DEF HbkInv, HbkTypeOK, BodyIsWhole, Counted, Linked, PagesWithinLimit, chain
<1>1. CASE OpenFile
  BY <1>1, HbkAssumption, StartStep DEF OpenFile
<1>2. CASE ReadBlock
  BY <1>2, BlockStep
<1>3. CASE InfosRead
  <2>1. total \div EntrySize \in Nat
    BY HbkAssumption
  <2> QED
    BY <1>3, <2>1 DEF InfosRead
<1>4. CASE SkipEntity
  BY <1>4 DEF SkipEntity
<1>5. CASE FileStorage
  BY <1>5, StartStep DEF FileStorage
<1>6. CASE OpenArchive
  BY <1>6 DEF OpenArchive
<1>7. CASE Page
  BY <1>7, HbkAssumption DEF Page
<1>8. CASE ArchiveEnds
  BY <1>8 DEF ArchiveEnds
<1>9. CASE Damaged
  BY <1>9 DEF Damaged
<1>10. CASE UNCHANGED hbkVars
  BY <1>10 DEF hbkVars
<1> QED
  BY <1>1, <1>2, <1>3, <1>4, <1>5, <1>6, <1>7, <1>8, <1>9, <1>10 DEF Reading

LEMMA HbkInductive == HbkSpec => []HbkInv
<1>1. HbkInit => HbkInv
  BY HbkAssumption, FS_EmptySet
     DEF HbkInit, HbkInv, HbkTypeOK, BodyIsWhole, Counted, Linked, PagesWithinLimit
<1> QED
  BY <1>1, ReadingStep, PTL DEF HbkSpec

\* Every variable of read_pages keeps its type, whatever the container holds.
THEOREM HbkTypeCorrect == HbkSpec => []HbkTypeOK
<1> QED
  BY HbkInductive, PTL DEF HbkInv

\* Whatever a container holds, read_pages reads every chain to its announced length
\* within the limit, no chain for longer than the file has blocks, and keeps what
\* it unpacks within the limit.
THEOREM ReadingIsSafe == HbkSpec => []ReadsAreBounded
<1>1. HbkInv => ReadsAreBounded
  BY VisitedFinite DEF HbkInv, HbkTypeOK, Counted, NoBlockTwice, ReadsAreBounded
<1> QED
  BY <1>1, HbkInductive, PTL

--------------------------------------------------------------------------------
(* Counting in a sequence, and sequences                                        *)

Count(s, i, kinds) == Cardinality({j \in 1 .. i : s[j] \in kinds})

\* A count is a number; it begins with zero, and goes on by what is counted.
LEMMA CountFact ==
    ASSUME NEW s, NEW i \in Nat, NEW kinds
    PROVE  /\ Count(s, i, kinds) \in Nat /\ Count(s, 0, kinds) = 0
           /\ i > 0 => Count(s, i, kinds) =
                          Count(s, i - 1, kinds) + (IF s[i] \in kinds THEN 1 ELSE 0)
<1> DEFINE Of(l) == {j \in 1 .. l : s[j] \in kinds}
<1>1. \A l \in Nat : IsFiniteSet(Of(l)) /\ Cardinality(Of(l)) \in Nat
  <2>1. ASSUME NEW l \in Nat PROVE IsFiniteSet(1 .. l)
    BY FS_Interval
  <2> QED
    BY <2>1, FS_Subset, FS_CardinalityType
<1>2. ASSUME i > 0
      PROVE  Cardinality(Of(i)) = Cardinality(Of(i - 1)) + (IF s[i] \in kinds THEN 1 ELSE 0)
  <2>1. Of(i) = IF s[i] \in kinds THEN Of(i - 1) \cup {i} ELSE Of(i - 1)
    <3>1. 1 .. i = (1 .. i - 1) \cup {i}
      BY <1>2
    <3> QED
      BY <3>1
  <2>2. IsFiniteSet(Of(i - 1)) /\ Cardinality(Of(i - 1)) \in Nat /\ i \notin Of(i - 1)
    BY <1>1, <1>2
  <2>3. Cardinality(Of(i - 1) \cup {i}) = Cardinality(Of(i - 1)) + 1
    BY <2>2, FS_AddElement
  <2> HIDE DEF Of
  <2> QED
    BY <2>1, <2>2, <2>3
<1>3. Of(0) = {}
  OBVIOUS
<1>4. \A l : Count(s, l, kinds) = Cardinality(Of(l))
  BY DEF Count
<1>5. Cardinality({}) = 0
  BY FS_EmptySet
<1> HIDE DEF Of
<1>6. Count(s, i, kinds) \in Nat /\ Count(s, 0, kinds) = 0
  BY <1>1, <1>3, <1>4, <1>5
<1> QED
  BY <1>2, <1>4, <1>6

\* It is zero where there is nothing to count.
LEMMA CountNone ==
    ASSUME NEW s, NEW i \in Nat, NEW kinds
    PROVE  Count(s, i, kinds) = 0 <=> \A j \in 1 .. i : s[j] \notin kinds
<1> DEFINE Of == {j \in 1 .. i : s[j] \in kinds}
<1>1. IsFiniteSet(Of)
  <2>1. IsFiniteSet(1 .. i)
    BY FS_Interval
  <2> QED
    BY <2>1, FS_Subset
<1>2. Cardinality(Of) = 0 <=> Of = {}
  BY <1>1, FS_EmptySet
<1> QED
  BY <1>2 DEF Count

\* It depends on what it counts.
LEMMA CountSame ==
    ASSUME NEW s, NEW t, NEW i, NEW kinds, \A j \in 1 .. i : s[j] = t[j]
    PROVE  Count(s, i, kinds) = Count(t, i, kinds)
<1>1. {j \in 1 .. i : s[j] \in kinds} = {j \in 1 .. i : t[j] \in kinds}
  OBVIOUS
<1> QED
  BY <1>1 DEF Count

\* The last element of a sequence, and what is left without it.
LEMMA LastOfSeq ==
    ASSUME NEW S, NEW o \in Seq(S), o # <<>>
    PROVE  /\ Len(o) \in Nat \ {0} /\ o[Len(o)] \in S
           /\ Front(o) \in Seq(S) /\ Len(Front(o)) = Len(o) - 1
           /\ \A k \in 1 .. Len(o) - 1 : Front(o)[k] = o[k]
  BY DEF Front

\* The text goes on with one more.
GoesOn(s, kind, t) ==
    /\ Len(t) = Len(s) + 1 /\ t[Len(s) + 1] = kind
    /\ \A i \in 1 .. Len(s) : t[i] = s[i]

--------------------------------------------------------------------------------
(* The directives of a text: BslDirectives. The lemmas are about any sequence of  *)
(* directives, so that they hold before and after a step.                         *)

LevelIn(s, i) == Count(s, i, Opens) - Count(s, i, Closes)
PartnerIn(s, i) == Max({0} \cup {j \in 1 .. i - 1 :
                       s[j] \in Opens /\ LevelIn(s, j) = LevelIn(s, i - 1)})
PartnerIsIn(s, i, kind) == PartnerIn(s, i) > 0 /\ s[PartnerIn(s, i)] = kind
BelongsIn(s, i) ==
    /\ s[i] = "endif" => PartnerIsIn(s, i, "if")
    /\ s[i] = "endregion" => PartnerIsIn(s, i, "region")
    /\ s[i] \in {"elsif", "else"} =>
          /\ PartnerIsIn(s, i, "if") /\ LevelIn(s, i) > 0
          /\ \A j \in PartnerIn(s, i) + 1 .. i - 1 :
                s[j] = "else" => LevelIn(s, j) # LevelIn(s, i)

Texts == Seq(DirectiveKinds)
Stacks == Seq([kind : Opens, else : BOOLEAN])

\* The k-th directive that is open is the j-th of the text: what came behind it is
\* at least as deep, and its else is noted.
OpenedAt(s, o, j, k) ==
    /\ s[j] = o[k].kind /\ LevelIn(s, j) = k
    /\ \A l \in j .. Len(s) : LevelIn(s, l) >= k
    /\ o[k].else <=> (\E l \in j + 1 .. Len(s) : s[l] = "else" /\ LevelIn(s, l) = k)

Good(s, i) == LevelIn(s, i) >= 0 /\ BelongsIn(s, i)

\* The stack is the nesting of a text in which every directive belongs somewhere.
IsNesting(s, o) ==
    /\ \A i \in 1 .. Len(s) : Good(s, i)
    /\ LevelIn(s, Len(s)) = Len(o)
    /\ \A k \in 1 .. Len(o) : \E j \in 1 .. Len(s) : OpenedAt(s, o, j, k)

DirectivesInv ==
    /\ directives \in Texts /\ open \in Stacks
    /\ IF errors = {} THEN IsNesting(directives, open)
       ELSE \E i \in 1 .. Len(directives) : ~ Good(directives, i)

\* A level is an integer; the first is none; and a level is the one before it, but
\* one up for an opening directive and one down for an end.
LEMMA LevelFact ==
    ASSUME NEW s, NEW i \in Nat
    PROVE  /\ LevelIn(s, i) \in Int /\ LevelIn(s, 0) = 0
           /\ i > 0 => LevelIn(s, i) = IF s[i] \in Opens THEN LevelIn(s, i - 1) + 1
                                       ELSE IF s[i] \in Closes THEN LevelIn(s, i - 1) - 1
                                       ELSE LevelIn(s, i - 1)
<1>1. ~ (s[i] \in Opens /\ s[i] \in Closes)
  BY DEF Opens, Closes
<1>2. /\ Count(s, i, Opens) \in Nat /\ Count(s, 0, Opens) = 0
      /\ i > 0 => Count(s, i, Opens) = Count(s, i - 1, Opens) + (IF s[i] \in Opens THEN 1 ELSE 0)
  BY CountFact
<1>3. /\ Count(s, i, Closes) \in Nat /\ Count(s, 0, Closes) = 0
      /\ i > 0 => Count(s, i, Closes) = Count(s, i - 1, Closes) + (IF s[i] \in Closes THEN 1 ELSE 0)
  BY CountFact
<1>4. i > 0 => Count(s, i - 1, Opens) \in Nat /\ Count(s, i - 1, Closes) \in Nat
  <2>1. i > 0 => i - 1 \in Nat
    OBVIOUS
  <2> QED
    BY <2>1, CountFact
<1> QED
  BY <1>1, <1>2, <1>3, <1>4 DEF LevelIn

\* A set of numbers below a bound has a largest one.
LEMMA Largest ==
    ASSUME NEW n \in Nat, NEW S \in SUBSET (0 .. n), S # {}
    PROVE  Max(S) \in S /\ \A y \in S : y <= Max(S)
<1> DEFINE Gap == {n - m : m \in S}
<1>1. Gap \in SUBSET Nat /\ Gap # {}
  <2>1. ASSUME NEW m \in S PROVE n - m \in Nat /\ n - m \in Gap
    <3>1. m \in 0 .. n
      OBVIOUS
    <3> QED
      BY <3>1
  <2>2. Gap # {}
    BY <2>1
  <2> QED
    BY <2>1, <2>2
<1>2. PICK g \in Gap : \A h \in Gap : g <= h
  <2> HIDE DEF Gap
  <2>1. PICK g \in Gap : \A h \in Gap : ~ (<<h, g>> \in OpToRel(<, Nat))
    BY <1>1, NatLessThanWellFounded, WFMin
  <2>2. ASSUME NEW h \in Gap PROVE g <= h
    <3>1. <<h, g>> \in Nat \X Nat /\ <<h, g>>[1] = h /\ <<h, g>>[2] = g
      BY <1>1
    <3>2. ~ (h < g)
      BY <2>1, <3>1 DEF OpToRel
    <3> QED
      BY <1>1, <3>2
  <2> QED
    BY <2>2
<1>3. PICK m \in S : g = n - m
  OBVIOUS
<1>4. \A y \in S : m >= y
  <2>1. ASSUME NEW y \in S PROVE m >= y
    <3>1. n - y \in Gap
      OBVIOUS
    <3> QED
      BY <1>2, <1>3, <3>1
  <2> QED
    BY <2>1
<1> HIDE DEF Gap
<1>5. Max(S) \in S /\ \A y \in S : Max(S) >= y
  BY <1>4 DEF Max
<1> QED
  BY <1>5

\* The partner comes before the directive, and none on its level comes later.
LEMMA PartnerFact ==
    ASSUME NEW s, NEW i \in Nat \ {0}
    PROVE  /\ PartnerIn(s, i) \in 0 .. i - 1
           /\ PartnerIn(s, i) > 0 => /\ s[PartnerIn(s, i)] \in Opens
                                     /\ LevelIn(s, PartnerIn(s, i)) = LevelIn(s, i - 1)
           /\ \A j \in 1 .. i - 1 : s[j] \in Opens /\ LevelIn(s, j) = LevelIn(s, i - 1)
                                       => j <= PartnerIn(s, i)
<1> DEFINE S == {0} \cup {j \in 1 .. i - 1 : s[j] \in Opens /\ LevelIn(s, j) = LevelIn(s, i - 1)}
<1>1. S \in SUBSET (0 .. i - 1) /\ S # {} /\ i - 1 \in Nat
  OBVIOUS
<1>2. Max(S) \in S /\ \A y \in S : y <= Max(S)
  <2> HIDE DEF S
  <2> QED
    BY <1>1, Largest
<1>3. PartnerIn(s, i) = Max(S)
  BY DEF PartnerIn
<1> QED
  BY <1>1, <1>2, <1>3

\* What is said of the directives so far does not change with the next one.
LEMMA PrefixStays ==
    ASSUME NEW s \in Texts, NEW kind \in DirectiveKinds, NEW t \in Texts, GoesOn(s, kind, t)
    PROVE  /\ \A i \in 0 .. Len(s) : LevelIn(t, i) = LevelIn(s, i)
           /\ \A i \in 1 .. Len(s) : Good(t, i) <=> Good(s, i)
<1> DEFINE n == Len(s)
<1>1. /\ n \in Nat /\ Len(t) = n + 1 /\ t[n + 1] = kind
      /\ \A i \in 1 .. n : t[i] = s[i]
  BY DEF Texts, GoesOn
<1>2. \A i \in 0 .. n : LevelIn(t, i) = LevelIn(s, i)
  <2>1. ASSUME NEW i \in 0 .. n, NEW kinds PROVE Count(t, i, kinds) = Count(s, i, kinds)
    BY <1>1, CountSame
  <2> QED
    BY <2>1 DEF LevelIn
<1>3. ASSUME NEW i \in 1 .. n PROVE Good(t, i) <=> Good(s, i)
  <2>1. {j \in 1 .. i - 1 : t[j] \in Opens /\ LevelIn(t, j) = LevelIn(t, i - 1)}
        = {j \in 1 .. i - 1 : s[j] \in Opens /\ LevelIn(s, j) = LevelIn(s, i - 1)}
    BY <1>1, <1>2
  <2>2. PartnerIn(t, i) = PartnerIn(s, i) /\ PartnerIn(s, i) \in 0 .. i - 1
    <3>1. PartnerIn(s, i) \in 0 .. i - 1
      BY PartnerFact
    <3> QED
      BY <2>1, <3>1 DEF PartnerIn
  <2>3. \A k : PartnerIsIn(t, i, k) <=> PartnerIsIn(s, i, k)
    BY <1>1, <2>2 DEF PartnerIsIn
  <2>4. (\A j \in PartnerIn(t, i) + 1 .. i - 1 : t[j] = "else" => LevelIn(t, j) # LevelIn(t, i))
        <=> (\A j \in PartnerIn(s, i) + 1 .. i - 1 : s[j] = "else" => LevelIn(s, j) # LevelIn(s, i))
    BY <1>1, <1>2, <2>2
  <2>5. LevelIn(t, i) = LevelIn(s, i) /\ t[i] = s[i]
    BY <1>1, <1>2
  <2> QED
    BY <2>3, <2>4, <2>5 DEF Good, BelongsIn
<1> QED
  BY <1>1, <1>2, <1>3

\* What is opened last is the partner of the next directive.
LEMMA InnermostIsPartner ==
    ASSUME NEW s \in Texts, NEW o \in Stacks, IsNesting(s, o), o # <<>>,
           NEW kind \in DirectiveKinds, NEW t \in Texts, GoesOn(s, kind, t),
           NEW j \in 1 .. Len(s), OpenedAt(s, o, j, Len(o))
    PROVE  PartnerIn(t, Len(s) + 1) = j
<1> DEFINE n == Len(s)
<1>1. n \in Nat /\ j \in 1 .. n /\ LevelIn(s, n) = Len(o) /\ Len(o) \in Nat \ {0}
  BY DEF Texts, Stacks, IsNesting
<1>2. s[j] \in Opens /\ LevelIn(s, j) = LevelIn(s, n)
  <2>1. o[Len(o)] \in [kind : Opens, else : BOOLEAN]
    BY LastOfSeq DEF Stacks
  <2> QED
    BY <1>1, <2>1 DEF OpenedAt
<1>3. ASSUME NEW l \in j + 1 .. n, s[l] \in Opens, LevelIn(s, l) = LevelIn(s, n) PROVE FALSE
  <2>1. LevelIn(s, l - 1) >= LevelIn(s, n) /\ l - 1 \in Nat /\ l \in Nat /\ l > 0
    BY <1>1 DEF OpenedAt
  <2>2. LevelIn(s, l) = LevelIn(s, l - 1) + 1 /\ LevelIn(s, l - 1) \in Int
    BY <1>3, <2>1, LevelFact
  <2> QED
    BY <1>1, <1>3, <2>1, <2>2
<1>4. /\ \A i \in 1 .. n : t[i] = s[i]
      /\ \A i \in 0 .. n : LevelIn(t, i) = LevelIn(s, i)
  BY PrefixStays DEF GoesOn
<1>5. t[j] \in Opens /\ LevelIn(t, j) = LevelIn(t, n)
  BY <1>1, <1>2, <1>4
<1>6. PartnerIn(t, n + 1) \in j .. n
  <2>1. (n + 1) - 1 = n /\ n + 1 \in Nat \ {0}
    BY <1>1
  <2>2. /\ PartnerIn(t, n + 1) \in 0 .. n
        /\ j <= PartnerIn(t, n + 1)
    BY <1>1, <1>5, <2>1, PartnerFact
  <2> QED
    BY <1>1, <2>2
<1>7. s[PartnerIn(t, n + 1)] \in Opens /\ LevelIn(s, PartnerIn(t, n + 1)) = LevelIn(s, n)
  <2>1. (n + 1) - 1 = n /\ n + 1 \in Nat \ {0} /\ PartnerIn(t, n + 1) > 0
    BY <1>1, <1>6
  <2>2. t[PartnerIn(t, n + 1)] \in Opens /\ LevelIn(t, PartnerIn(t, n + 1)) = LevelIn(t, n)
    BY <2>1, PartnerFact
  <2> QED
    BY <1>1, <1>4, <1>6, <2>2
<1> QED
  BY <1>1, <1>3, <1>6, <1>7

\* A directive that opens one goes on the stack.
LEMMA OpenNests ==
    ASSUME NEW s \in Texts, NEW o \in Stacks, IsNesting(s, o), NEW kind \in Opens,
           NEW t \in Texts, GoesOn(s, kind, t), NEW p, p = Append(o, [kind |-> kind, else |-> FALSE])
    PROVE  p \in Stacks /\ IsNesting(t, p)
<1> DEFINE n == Len(s)
           m == Len(o)
<1>0. kind \in DirectiveKinds /\ kind \notin {"endif", "endregion", "elsif", "else"}
  BY DEF Opens, DirectiveKinds
<1>1. /\ t \in Texts /\ Len(t) = n + 1 /\ t[n + 1] = kind
      /\ \A i \in 1 .. n : t[i] = s[i]
      /\ \A i \in 0 .. n : LevelIn(t, i) = LevelIn(s, i)
      /\ \A i \in 1 .. n : Good(t, i) <=> Good(s, i)
  BY <1>0, PrefixStays DEF GoesOn
<1>2. n \in Nat /\ m \in Nat /\ LevelIn(s, n) = m
  BY DEF Texts, Stacks, IsNesting
<1>3. LevelIn(t, n + 1) = m + 1
  <2>1. n + 1 \in Nat /\ n + 1 > 0 /\ (n + 1) - 1 = n /\ LevelIn(t, n) = m
    BY <1>1, <1>2
  <2> QED
    BY <1>1, <1>2, <2>1, LevelFact
<1>4. /\ p \in Stacks /\ Len(p) = m + 1 /\ p[m + 1] = [kind |-> kind, else |-> FALSE]
      /\ \A k \in 1 .. m : p[k] = o[k]
  BY DEF Stacks
<1>5. Good(t, n + 1)
  BY <1>0, <1>1, <1>2, <1>3 DEF Good, BelongsIn
<1>6. ASSUME NEW k \in 1 .. m PROVE \E j \in 1 .. n : OpenedAt(t, p, j, k)
  <2>1. PICK j \in 1 .. n : OpenedAt(s, o, j, k)
    BY DEF IsNesting
  <2>2. t[j] = p[k].kind /\ LevelIn(t, j) = k
    BY <1>1, <1>2, <1>4, <2>1 DEF OpenedAt
  <2>3. \A l \in j .. n + 1 : LevelIn(t, l) >= k
    <3>1. \A l \in j .. n : LevelIn(t, l) >= k
      BY <1>1, <1>2, <2>1 DEF OpenedAt
    <3> QED
      BY <1>2, <1>3, <3>1
  <2>4. \A l \in j + 1 .. n : t[l] = s[l] /\ LevelIn(t, l) = LevelIn(s, l)
    BY <1>1, <1>2
  <2>5. (\E l \in j + 1 .. n + 1 : t[l] = "else" /\ LevelIn(t, l) = k)
        <=> (\E l \in j + 1 .. n : s[l] = "else" /\ LevelIn(s, l) = k)
    BY <1>0, <1>1, <1>2, <2>4
  <2> QED
    BY <1>1, <1>4, <2>1, <2>2, <2>3, <2>5 DEF OpenedAt
<1>7. OpenedAt(t, p, n + 1, m + 1)
  BY <1>1, <1>2, <1>3, <1>4 DEF OpenedAt
<1>8. \A i \in 1 .. n + 1 : Good(t, i)
  BY <1>1, <1>2, <1>5 DEF IsNesting
<1>9. ASSUME NEW k \in 1 .. m + 1 PROVE \E j \in 1 .. n + 1 : OpenedAt(t, p, j, k)
  <2>1. CASE k \in 1 .. m
    <3>1. PICK j \in 1 .. n : OpenedAt(t, p, j, k)
      BY <1>6, <2>1
    <3> QED
      BY <1>2, <3>1
  <2>2. CASE k = m + 1
    <3>1. n + 1 \in 1 .. n + 1
      BY <1>2
    <3> QED
      BY <1>7, <2>2, <3>1
  <2>3. k \in 1 .. m \/ k = m + 1
    BY <1>2
  <2> QED
    BY <2>1, <2>2, <2>3
<1> QED
  BY <1>1, <1>3, <1>4, <1>8, <1>9 DEF IsNesting

Branching(o) == o # <<>> /\ o[Len(o)].kind = "if" /\ ~ o[Len(o)].else

\* A branch belongs to the innermost if, as long as that has no else.
LEMMA BranchNests ==
    ASSUME NEW s \in Texts, NEW o \in Stacks, IsNesting(s, o), NEW kind \in {"elsif", "else"},
           NEW t \in Texts, GoesOn(s, kind, t)
    PROVE  /\ Branching(o) => LET p == [o EXCEPT ![Len(o)].else = (kind = "else")]
                         IN p \in Stacks /\ IsNesting(t, p)
           /\ ~ Branching(o) => ~ Good(t, Len(s) + 1)
<1> DEFINE n == Len(s)
           m == Len(o)
<1>0. kind \in DirectiveKinds /\ kind \notin {"endif", "endregion"} \cup Opens \cup Closes
  BY DEF Opens, Closes, DirectiveKinds
<1>1. /\ t \in Texts /\ Len(t) = n + 1 /\ t[n + 1] = kind
      /\ \A i \in 1 .. n : t[i] = s[i]
      /\ \A i \in 0 .. n : LevelIn(t, i) = LevelIn(s, i)
      /\ \A i \in 1 .. n : Good(t, i) <=> Good(s, i)
  BY <1>0, PrefixStays DEF GoesOn
<1>2. n \in Nat /\ m \in Nat /\ LevelIn(s, n) = m
  BY DEF Texts, Stacks, IsNesting
<1>3. LevelIn(t, n + 1) = m
  <2>1. n + 1 \in Nat /\ n + 1 > 0 /\ (n + 1) - 1 = n /\ LevelIn(t, n) = m
    BY <1>1, <1>2
  <2> QED
    BY <1>0, <1>1, <1>2, <2>1, LevelFact
<1>4. CASE o = <<>>
  BY <1>1, <1>2, <1>3, <1>4 DEF Good, BelongsIn, Branching
<1>5. CASE o # <<>>
  <2>0. m \in 1 .. m
    BY <1>2, <1>5 DEF Stacks
  <2>1. PICK j \in 1 .. n : OpenedAt(s, o, j, m)
    BY <2>0 DEF IsNesting
  <2>2. PartnerIn(t, n + 1) = j
    BY <1>0, <1>5, <2>1, InnermostIsPartner
  <2>3. PartnerIsIn(t, n + 1, "if") <=> o[m].kind = "if"
    BY <1>1, <2>1, <2>2 DEF PartnerIsIn, OpenedAt
  <2>4. o[m].else <=> \E l \in j + 1 .. (n + 1) - 1 : t[l] = "else" /\ LevelIn(t, l) = LevelIn(t, n + 1)
    <3>1. \A l \in j + 1 .. n : t[l] = s[l] /\ LevelIn(t, l) = LevelIn(s, l)
      BY <1>1, <1>2
    <3> QED
      BY <1>2, <1>3, <2>1, <3>1 DEF OpenedAt
  <2>5. Good(t, n + 1) <=> Branching(o)
    BY <1>0, <1>1, <1>2, <1>3, <1>5, <2>0, <2>2, <2>3, <2>4 DEF Good, BelongsIn, Branching
  <2>6. ASSUME Branching(o), NEW p, p = [o EXCEPT ![m].else = (kind = "else")]
        PROVE  p \in Stacks /\ IsNesting(t, p)
    <3>1. /\ p \in Stacks /\ Len(p) = m /\ p[m].kind = o[m].kind /\ (p[m].else <=> kind = "else")
          /\ \A k \in 1 .. m - 1 : p[k] = o[k]
      <4>1. o[m] \in [kind : Opens, else : BOOLEAN]
        BY <1>5, LastOfSeq DEF Stacks
      <4>2. [o[m] EXCEPT !.else = (kind = "else")] \in [kind : Opens, else : BOOLEAN]
        BY <4>1
      <4>3. p = [o EXCEPT ![m] = [o[m] EXCEPT !.else = (kind = "else")]]
        BY <2>6
      <4> QED
        BY <1>2, <2>0, <4>1, <4>2, <4>3 DEF Stacks
    <3>2. ASSUME NEW k \in 1 .. m - 1 PROVE \E i \in 1 .. n + 1 : OpenedAt(t, p, i, k)
      <4>1. PICK i \in 1 .. n : OpenedAt(s, o, i, k)
        BY <1>2 DEF IsNesting
      <4>2. t[i] = p[k].kind /\ LevelIn(t, i) = k
        BY <1>1, <1>2, <3>1, <4>1 DEF OpenedAt
      <4>3. \A l \in i .. n + 1 : LevelIn(t, l) >= k
        BY <1>1, <1>2, <1>3, <4>1 DEF OpenedAt
      <4>4. \A l \in i + 1 .. n : t[l] = s[l] /\ LevelIn(t, l) = LevelIn(s, l)
        BY <1>1, <1>2
      <4>5. (\E l \in i + 1 .. n + 1 : t[l] = "else" /\ LevelIn(t, l) = k)
            <=> (\E l \in i + 1 .. n : s[l] = "else" /\ LevelIn(s, l) = k)
        BY <1>2, <1>3, <4>4
      <4> QED
        BY <1>1, <3>1, <4>1, <4>2, <4>3, <4>5 DEF OpenedAt
    <3>3. OpenedAt(t, p, j, m)
      <4>2. t[j] = p[m].kind /\ LevelIn(t, j) = m
        BY <1>1, <1>2, <3>1, <2>1 DEF OpenedAt
      <4>3. \A l \in j .. n + 1 : LevelIn(t, l) >= m
        BY <1>1, <1>2, <1>3, <2>1 DEF OpenedAt
      <4>4. ~ \E l \in j + 1 .. n : t[l] = "else" /\ LevelIn(t, l) = m
        BY <1>2, <1>3, <2>4, <2>6 DEF Branching
      <4>5. (\E l \in j + 1 .. n + 1 : t[l] = "else" /\ LevelIn(t, l) = m) <=> kind = "else"
        BY <1>1, <1>2, <1>3, <4>4
      <4> QED
        BY <1>1, <3>1, <4>2, <4>3, <4>5 DEF OpenedAt
    <3>4. \A i \in 1 .. n + 1 : Good(t, i)
      BY <1>1, <1>2, <2>5, <2>6 DEF IsNesting
    <3>5. \A k \in 1 .. m : \E i \in 1 .. n + 1 : OpenedAt(t, p, i, k)
      BY <1>2, <2>0, <3>2, <3>3
    <3> QED
      BY <1>1, <1>3, <3>1, <3>4, <3>5 DEF IsNesting
  <2> QED
    BY <2>5, <2>6
<1> QED
  BY <1>4, <1>5

\* An end closes the innermost directive, if that is of its kind.
LEMMA CloseNests ==
    ASSUME NEW s \in Texts, NEW o \in Stacks, IsNesting(s, o), NEW kind \in Closes,
           NEW t \in Texts, GoesOn(s, kind, t), NEW what, what = IF kind = "endif" THEN "if" ELSE "region"
    PROVE  IF o # <<>> /\ o[Len(o)].kind = what
           THEN Front(o) \in Stacks /\ IsNesting(t, Front(o))
           ELSE ~ Good(t, Len(s) + 1)
<1> DEFINE n == Len(s)
           m == Len(o)
<1>0. /\ kind \in DirectiveKinds /\ kind \notin {"elsif", "else"} \cup Opens
      /\ kind = "endif" \/ kind = "endregion"
  BY DEF Opens, Closes, DirectiveKinds
<1>1. /\ t \in Texts /\ Len(t) = n + 1 /\ t[n + 1] = kind
      /\ \A i \in 1 .. n : t[i] = s[i]
      /\ \A i \in 0 .. n : LevelIn(t, i) = LevelIn(s, i)
      /\ \A i \in 1 .. n : Good(t, i) <=> Good(s, i)
  BY <1>0, PrefixStays DEF GoesOn
<1>2. n \in Nat /\ m \in Nat /\ LevelIn(s, n) = m
  BY DEF Texts, Stacks, IsNesting
<1>3. LevelIn(t, n + 1) = m - 1
  <2>1. n + 1 \in Nat /\ n + 1 > 0 /\ (n + 1) - 1 = n /\ LevelIn(t, n) = m
    BY <1>1, <1>2
  <2> QED
    BY <1>0, <1>1, <1>2, <2>1, LevelFact
<1>4. CASE o = <<>>
  BY <1>2, <1>3, <1>4 DEF Good
<1>5. CASE o # <<>>
  <2>0. m \in 1 .. m
    BY <1>2, <1>5 DEF Stacks
  <2>1. PICK j \in 1 .. n : OpenedAt(s, o, j, m)
    BY <2>0 DEF IsNesting
  <2>2. PartnerIn(t, n + 1) = j
    BY <1>0, <1>5, <2>1, InnermostIsPartner
  <2>3. \A k : PartnerIsIn(t, n + 1, k) <=> o[m].kind = k
    BY <1>1, <2>1, <2>2 DEF PartnerIsIn, OpenedAt
  <2>5. Good(t, n + 1) <=> o[m].kind = what
    BY <1>0, <1>1, <1>2, <1>3, <2>0, <2>3 DEF Good, BelongsIn
  <2>6. ASSUME o[m].kind = what, NEW p, p = Front(o)
        PROVE  p \in Stacks /\ IsNesting(t, p)
    <3>1. p \in Stacks /\ Len(p) = m - 1 /\ \A k \in 1 .. m - 1 : p[k] = o[k]
      BY <1>5, <2>6, LastOfSeq DEF Stacks
    <3>2. ASSUME NEW k \in 1 .. m - 1 PROVE \E i \in 1 .. n + 1 : OpenedAt(t, p, i, k)
      <4>1. PICK i \in 1 .. n : OpenedAt(s, o, i, k)
        BY <1>2 DEF IsNesting
      <4>2. t[i] = p[k].kind /\ LevelIn(t, i) = k
        BY <1>1, <1>2, <3>1, <4>1 DEF OpenedAt
      <4>3. \A l \in i .. n + 1 : LevelIn(t, l) >= k
        BY <1>1, <1>2, <1>3, <4>1 DEF OpenedAt
      <4>4. \A l \in i + 1 .. n : t[l] = s[l] /\ LevelIn(t, l) = LevelIn(s, l)
        BY <1>1, <1>2
      <4>5. (\E l \in i + 1 .. n + 1 : t[l] = "else" /\ LevelIn(t, l) = k)
            <=> (\E l \in i + 1 .. n : s[l] = "else" /\ LevelIn(s, l) = k)
        BY <1>0, <1>1, <1>2, <4>4
      <4>6. (p[k].else <=> \E l \in i + 1 .. n + 1 : t[l] = "else" /\ LevelIn(t, l) = k)
            /\ i \in 1 .. n + 1
        BY <1>2, <3>1, <4>1, <4>5 DEF OpenedAt
      <4>7. OpenedAt(t, p, i, k)
        BY <1>1, <4>2, <4>3, <4>6 DEF OpenedAt
      <4> QED
        BY <4>6, <4>7
    <3>4. \A i \in 1 .. n + 1 : Good(t, i)
      BY <1>1, <1>2, <2>5, <2>6 DEF IsNesting
    <3> QED
      BY <1>1, <1>3, <3>1, <3>2, <3>4 DEF IsNesting
  <2> QED
    BY <1>5, <2>5, <2>6
<1> QED
  BY <1>4, <1>5

\* Every directive keeps the invariant.
LEMMA DirectivesStep == DirectivesInv /\ [DirectivesNext]_directiveVars => DirectivesInv'
<1> SUFFICES ASSUME DirectivesInv, [DirectivesNext]_directiveVars PROVE DirectivesInv'
  OBVIOUS
<1>0. directives \in Texts /\ open \in Stacks
  BY DEF DirectivesInv
<1>1. ASSUME NEW kind \in DirectiveKinds, Meet(kind)
      PROVE  directives' \in Texts /\ GoesOn(directives, kind, directives')
  BY <1>0, <1>1 DEF Meet, Texts, GoesOn
<1>2. ASSUME NEW kind \in DirectiveKinds, Meet(kind), errors # {}, errors' # {}
      PROVE  \E i \in 1 .. Len(directives') : ~ Good(directives', i)
  <2>1. PICK i \in 1 .. Len(directives) : ~ Good(directives, i)
    BY <1>2 DEF DirectivesInv
  <2>2. ~ Good(directives', i) /\ Len(directives') = Len(directives) + 1
    BY <1>0, <1>1, <1>2, <2>1, PrefixStays DEF GoesOn
  <2> QED
    BY <1>0, <2>2 DEF Texts
<1>3. ASSUME NEW kind \in DirectiveKinds, Meet(kind), ~ Good(directives', Len(directives) + 1)
      PROVE  \E i \in 1 .. Len(directives') : ~ Good(directives', i)
  BY <1>0, <1>1, <1>3 DEF GoesOn, Texts
<1>4. ASSUME NEW kind \in Opens, Meet(kind), open' = Append(open, [kind |-> kind, else |-> FALSE]),
             UNCHANGED errors
      PROVE  DirectivesInv'
  <2>0. kind \in DirectiveKinds
    BY DEF Opens, DirectiveKinds
  <2>1. open' \in Stacks /\ (errors = {} => IsNesting(directives', open'))
    <3>1. open' \in Stacks
      BY <1>0, <1>4 DEF Stacks
    <3>2. errors = {} => IsNesting(directives', open')
      BY <1>0, <1>1, <1>4, <2>0, OpenNests DEF DirectivesInv
    <3> QED
      BY <3>1, <3>2
  <2> QED
    BY <1>1, <1>2, <1>4, <2>0, <2>1 DEF DirectivesInv
<1>5. ASSUME NEW kind \in {"elsif", "else"}, Meet(kind),
             IF BranchFits(kind)
             THEN open' = [open EXCEPT ![Len(open)].else = (kind = "else")] /\ UNCHANGED errors
             ELSE Blame /\ UNCHANGED open
      PROVE  DirectivesInv'
  <2>0. kind \in DirectiveKinds /\ (BranchFits(kind) <=> Branching(open))
    BY DEF DirectiveKinds, BranchFits, Innermost, Branching, Last
  <2>1. CASE BranchFits(kind)
    <3>1. open' \in Stacks
      <4>1. open # <<>>
        BY <2>0, <2>1 DEF Branching
      <4>2. Len(open) \in Nat \ {0} /\ open[Len(open)] \in [kind : Opens, else : BOOLEAN]
        BY <1>0, <4>1, LastOfSeq DEF Stacks
      <4>3. [open[Len(open)] EXCEPT !.else = (kind = "else")] \in [kind : Opens, else : BOOLEAN]
        BY <4>2
      <4>4. open' = [open EXCEPT ![Len(open)] = [open[Len(open)] EXCEPT !.else = (kind = "else")]]
        BY <1>5, <2>1
      <4> QED
        BY <1>0, <4>2, <4>3, <4>4 DEF Stacks
    <3>2. errors = {} => IsNesting(directives', open')
      <4>1. ASSUME errors = {}
            PROVE  IsNesting(directives', [open EXCEPT ![Len(open)].else = (kind = "else")])
        BY <1>0, <1>1, <1>5, <2>0, <2>1, <4>1, BranchNests DEF DirectivesInv
      <4> QED
        BY <1>5, <2>1, <4>1
    <3> QED
      BY <1>1, <1>2, <1>5, <2>0, <2>1, <3>1, <3>2 DEF DirectivesInv
  <2>2. CASE ~ BranchFits(kind)
    <3>1. errors = {} => ~ Good(directives', Len(directives) + 1)
      BY <1>0, <1>1, <1>5, <2>0, <2>2, BranchNests DEF DirectivesInv
    <3>2. errors' # {} /\ open' = open
      BY <1>5, <2>2 DEF Blame
    <3> QED
      BY <1>0, <1>1, <1>2, <1>3, <1>5, <2>0, <3>1, <3>2 DEF DirectivesInv
  <2> QED
    BY <2>1, <2>2
<1>6. ASSUME NEW kind \in Closes, Meet(kind),
             IF Innermost(IF kind = "endif" THEN "if" ELSE "region")
             THEN open' = Front(open) /\ UNCHANGED errors
             ELSE Blame /\ UNCHANGED open
      PROVE  DirectivesInv'
  <2> DEFINE what == IF kind = "endif" THEN "if" ELSE "region"
  <2>0. kind \in DirectiveKinds /\ (Innermost(what) <=> open # <<>> /\ open[Len(open)].kind = what)
    BY DEF DirectiveKinds, Closes, Innermost, Last
  <2>3. errors = {} => IF open # <<>> /\ open[Len(open)].kind = what
                       THEN Front(open) \in Stacks /\ IsNesting(directives', Front(open))
                       ELSE ~ Good(directives', Len(directives) + 1)
    BY <1>0, <1>1, <1>6, <2>0, CloseNests DEF DirectivesInv
  <2>1. CASE Innermost(what)
    <3>1. open' \in Stacks
      BY <1>0, <1>6, <2>0, <2>1, LastOfSeq DEF Stacks
    <3>2. errors = {} => IsNesting(directives', open')
      BY <1>6, <2>0, <2>1, <2>3
    <3> QED
      BY <1>1, <1>2, <1>6, <2>0, <2>1, <3>1, <3>2 DEF DirectivesInv
  <2>2. CASE ~ Innermost(what)
    <3>1. errors = {} => ~ Good(directives', Len(directives) + 1)
      BY <2>0, <2>2, <2>3
    <3>2. errors' # {} /\ open' = open
      BY <1>6, <2>2 DEF Blame
    <3> QED
      BY <1>0, <1>1, <1>2, <1>3, <1>6, <2>0, <3>1, <3>2 DEF DirectivesInv
  <2> QED
    BY <2>1, <2>2
<1>7. CASE OpenDirective
  BY <1>4, <1>7 DEF OpenDirective, Opens
<1>8. CASE BranchDirective
  BY <1>5, <1>8 DEF BranchDirective
<1>9. CASE CloseDirective
  BY <1>6, <1>9 DEF CloseDirective, Closes
<1>10. CASE UNCHANGED directiveVars
  BY <1>10 DEF directiveVars, DirectivesInv
<1> QED
  BY <1>7, <1>8, <1>9, <1>10 DEF DirectivesNext

\* The model's operators are those of the lemmas, of the text so far.
LEMMA SameOperators ==
    \A i : Level(i) = LevelIn(directives, i) /\ (Belongs(i) <=> BelongsIn(directives, i))
<1>1. \A i : Level(i) = LevelIn(directives, i)
  BY DEF Level, LevelIn, Count
<1>2. \A i : Partner(i) = PartnerIn(directives, i)
  BY <1>1 DEF Partner, PartnerIn
<1> QED
  BY <1>1, <1>2 DEF Belongs, BelongsIn, PartnerIs, PartnerIsIn

\* _directives: for a text of any length, no diagnostic is given exactly if all
\* directives pair, by counting alone.
THEOREM PairsAreRight == DirectivesSpec => []PairsAreAccepted
<1>1. DirectivesInit => DirectivesInv
  <2> SUFFICES ASSUME DirectivesInit PROVE DirectivesInv
    OBVIOUS
  <2>1. directives \in Texts /\ open \in Stacks /\ Len(directives) = 0 /\ Len(open) = 0
    BY DEF DirectivesInit, Texts, Stacks
  <2>2. LevelIn(directives, 0) = 0
    BY LevelFact
  <2> QED
    BY <2>1, <2>2 DEF DirectivesInit, DirectivesInv, IsNesting
<1>2. DirectivesInv => PairsAreAccepted
  <2> SUFFICES ASSUME DirectivesInv PROVE PairsAreAccepted
    OBVIOUS
  <2>1. DOMAIN directives = 1 .. Len(directives) /\ Len(open) \in Nat /\ (open = <<>> <=> Len(open) = 0)
    BY DEF DirectivesInv, Texts, Stacks
  <2>2. PairsAreAccepted <=>
           (Accepted <=> /\ \A i \in 1 .. Len(directives) : Good(directives, i)
                         /\ LevelIn(directives, Len(directives)) = 0)
    BY <2>1, SameOperators DEF PairsAreAccepted, Good
  <2> QED
    BY <2>1, <2>2 DEF DirectivesInv, IsNesting, Accepted
<1> QED
  BY <1>1, <1>2, DirectivesStep, PTL DEF DirectivesSpec

--------------------------------------------------------------------------------
(* Expressions: BslExpression. The invariant is a predicate of the tokens taken,  *)
(* the token looked at and the open calls, so that its lemmas hold before and     *)
(* after a step.                                                                  *)

Lexeme == TokenKinds \cup {"eof"}
Waiting == {"unary", "group", "argument", "index", "binary"}
Inside == {"group", "argument", "index", "next argument", "after argument",
           "close group", "close index"}
Listing == {"arguments", "next argument", "argument", "after argument"}
Places == Waiting \cup Inside \cup Listing \cup {"operand", "type", "typed", "tail", "member"}
Listed == {"call", "new", "conditional"}
Operators == {"unary", "binary"}
Nodes == Listed \cup Operators \cup
         {"none", "identifier", "literal", "true", "string", "group", "member", "index"}
Calls == [at : Places, min : Nat, node : Nodes, reads : SUBSET Nat]

\* Behind these tokens an operand begins, and no operand goes on before the others.
Before == {"not", "+", "=", "*", "(", "[", ","}
Postfix == {".", "(", "["}

\* What a call has read, and what node it has, by where it stands.
CallFits(c) ==
    /\ c.at \in {"operand", "unary", "group", "type", "typed"} => c.reads = {}
    /\ c.at \in Listing => c.node \in Listed
    /\ c.node \in Operators => c.at \in {"tail", "binary"}
    /\ c.min = 0 \/ c.min >= 4

\* All calls but the innermost wait, and only what is inside of brackets may be a
\* comparison.
Stacked(cs) ==
    /\ \A k \in 1 .. Len(cs) : CallFits(cs[k]) /\ (k < Len(cs) <=> cs[k].at \in Waiting)
    /\ cs[1].min = 4
    /\ \A k \in 2 .. Len(cs) : cs[k].min = 0 => cs[k - 1].at \in {"group", "argument", "index"}

Bounded(s, peek, cs) ==
    /\ Len(s) <= MaxLength /\ (Len(s) < MaxLength \/ peek = "eof")
    /\ Len(cs) <= DepthLimit + 1
    /\ cs[Len(cs)].at # "operand" => Len(cs) <= DepthLimit

\* The name of a type is the last token.
Typed(s) == Len(s) > 1 /\ s[Len(s)] = "identifier" /\ s[Len(s) - 1] = "new"

\* Of what may be followed by more, the node is what its last tokens say.
NodeFits(s, peek, cs) ==
    LET n == Len(s)
        m == Len(cs)
        node == cs[m].node
    IN /\ node \in Operators => peek \notin Postfix
       /\ node = "identifier" =>
             /\ s[n] = "identifier" /\ cs[m].reads = {n}
             /\ \A k \in 1 .. m - 1 : n \notin cs[k].reads
             /\ m = 1 => n = 1
       /\ node = "member" => n > 1 /\ s[n - 1] = "."
       /\ node = "index" => n > 1 /\ s[n] = "]"
       /\ node \in {"literal", "true", "string"} => s[n] = node /\ (n = 1 \/ s[n - 1] # ".")
       /\ node = "group" => s[n] = ")" /\ (n = 1 \/ s[n - 1] # ".")
       /\ node \in Listed => (s[n] = ")" /\ (n = 1 \/ s[n - 1] # ".")) \/ (node = "new" /\ Typed(s))
       /\ node # "none"

\* Where the innermost call stands, by the last tokens.
TopFits(s, peek, cs) ==
    LET n == Len(s)
        m == Len(cs)
        place == cs[m].at
    IN /\ place # "member" => n = 0 \/ s[n] # "."
       /\ place \in {"operand", "next argument"} => n = 0 \/ s[n] \in Before
       /\ place = "operand" /\ m = 1 => n = 0
       /\ place # "operand" => n > 0
       /\ place = "type" => s[n] = "new"
       /\ place = "typed" => Typed(s)
       /\ place = "member" => s[n] = "."
       /\ place = "arguments" =>
             /\ cs[m].node = "call" => peek = "("
             /\ cs[m].node = "new" => s[n] = "new" \/ Typed(s)
             /\ cs[m].node = "conditional" => s[n] = "?"
       /\ place \in {"close group", "close index", "after argument"} => peek \notin Postfix
       /\ place = "tail" => NodeFits(s, peek, cs)

\* The identifiers that name neither a member nor a type; whether the last one is
\* read shows where a bracket may follow.
Names(s, i) == s[i] = "identifier" /\ (i = 1 \/ s[i - 1] \notin {".", "new"})
Readable(s, place) ==
    {i \in 1 .. Len(s) : /\ Names(s, i)
                         /\ IF i = Len(s) THEN place # "arguments" ELSE s[i + 1] # "("}
ReadBy(cs, m) == UNION {cs[k].reads : k \in 1 .. m}
ReadsFit(s, cs) == ReadBy(cs, Len(cs)) = Readable(s, cs[Len(cs)].at)

\* The brackets that are open are those the calls are inside of.
Bracket(s, i) == Count(s, i, {"(", "["}) - Count(s, i, {")", "]"})
Ats(cs) == [k \in 1 .. Len(cs) |-> cs[k].at]
DepthFits(s, cs) == Bracket(s, Len(s)) = Count(Ats(cs), Len(cs), Inside)

\* An operator outside of brackets is one of the outermost call.
Operates(s, i) == /\ Bracket(s, i) = 0 /\ s[i] \in {"+", "*", "not"}
                  /\ i = 1 \/ s[i - 1] # "."
Operated(c) == c.at \in Operators \/ c.node \in Operators
OperatorsFit(s, cs) ==
    /\ \A i \in 1 .. Len(s) : s[i] = "=" => Bracket(s, i) # 0
    /\ (\E i \in 1 .. Len(s) : Operates(s, i)) <=> Operated(cs[1])

ParsingInv(s, peek, cs) ==
    /\ s \in Seq(Lexeme) /\ peek \in Lexeme /\ cs \in Seq(Calls) /\ cs # <<>>
    /\ Stacked(cs) /\ Bounded(s, peek, cs) /\ TopFits(s, peek, cs)
    /\ ReadsFit(s, cs) /\ DepthFits(s, cs) /\ OperatorsFit(s, cs)

ExpressionInv ==
    IF result.node = "parsing" THEN ParsingInv(text, seen, calls) /\ result.reads = {}
    ELSE calls = <<>> /\ ExpressionTypeOK /\ ExpressionIsExact

--------------------------------------------------------------------------------
(* What one more token changes *)

\* The depth of brackets goes up and down with them, and that of the tokens before
\* stays.
LEMMA BracketFact ==
    ASSUME NEW s, NEW peek, NEW t, GoesOn(s, peek, t), Len(s) \in Nat
    PROVE  /\ \A i \in 0 .. Len(s) : Bracket(t, i) = Bracket(s, i)
           /\ Bracket(s, Len(s)) \in Int /\ Bracket(s, 0) = 0
           /\ Bracket(t, Len(s) + 1) =
                 IF peek \in {"(", "["} THEN Bracket(s, Len(s)) + 1
                 ELSE IF peek \in {")", "]"} THEN Bracket(s, Len(s)) - 1
                 ELSE Bracket(s, Len(s))
           /\ \A i \in 1 .. Len(s) : Operates(t, i) <=> Operates(s, i)
<1> DEFINE n == Len(s)
<1>1. /\ Len(t) = n + 1 /\ t[n + 1] = peek /\ n + 1 \in Nat /\ n + 1 > 0 /\ (n + 1) - 1 = n
      /\ \A i \in 1 .. n : t[i] = s[i]
  BY DEF GoesOn
<1>2. ASSUME NEW i \in 0 .. n, NEW kinds PROVE Count(t, i, kinds) = Count(s, i, kinds)
  BY <1>1, CountSame
<1>3. ASSUME NEW kinds
      PROVE  /\ Count(s, n, kinds) \in Nat /\ Count(s, 0, kinds) = 0
             /\ Count(t, n + 1, kinds) = Count(s, n, kinds) + (IF peek \in kinds THEN 1 ELSE 0)
  <2>1. Count(s, n, kinds) \in Nat /\ Count(s, 0, kinds) = 0 /\ Count(t, n, kinds) = Count(s, n, kinds)
    BY <1>2, CountFact
  <2>2. Count(t, n + 1, kinds) = Count(t, (n + 1) - 1, kinds) + (IF t[n + 1] \in kinds THEN 1 ELSE 0)
    BY <1>1, CountFact
  <2> QED
    BY <1>1, <2>1, <2>2
<1>4. \A i \in 0 .. n : Bracket(t, i) = Bracket(s, i)
  BY <1>2 DEF Bracket
<1>5. /\ Bracket(s, n) \in Int /\ Bracket(s, 0) = 0
      /\ Bracket(t, n + 1) = IF peek \in {"(", "["} THEN Bracket(s, n) + 1
                             ELSE IF peek \in {")", "]"} THEN Bracket(s, n) - 1
                             ELSE Bracket(s, n)
  BY <1>3 DEF Bracket
<1>6. \A i \in 1 .. n : Operates(t, i) <=> Operates(s, i)
  BY <1>1, <1>4 DEF Operates
<1> QED
  BY <1>4, <1>5, <1>6

\* Whether an identifier is read is known with the token after it.
LEMMA ReadableFact ==
    ASSUME NEW s, NEW peek, NEW t, GoesOn(s, peek, t), Len(s) \in Nat, NEW place
    PROVE  /\ peek = "(" => Readable(t, place) = Readable(s, "arguments")
           /\ peek # "(" /\ ~ Names(t, Len(s) + 1) => Readable(t, place) = Readable(s, "tail")
           /\ peek # "(" /\ Names(t, Len(s) + 1) /\ place # "arguments"
                 => Readable(t, place) = Readable(s, "tail") \cup {Len(s) + 1}
<1> DEFINE n == Len(s)
<1>1. /\ Len(t) = n + 1 /\ t[n + 1] = peek
      /\ \A i \in 1 .. n : t[i] = s[i]
  BY DEF GoesOn
<1>2. \A i \in 1 .. n : Names(t, i) <=> Names(s, i)
  BY <1>1 DEF Names
<1>3. ~ (peek = "(" /\ Names(t, n + 1))
  BY <1>1 DEF Names
<1>4. Readable(t, place) =
         {i \in 1 .. n : Names(s, i) /\ (IF i = n THEN peek # "(" ELSE s[i + 1] # "(")}
         \cup (IF Names(t, n + 1) /\ place # "arguments" THEN {n + 1} ELSE {})
  <2>1. 1 .. n + 1 = (1 .. n) \cup {n + 1} /\ n + 1 \notin 1 .. n
    OBVIOUS
  <2>2. \A i \in 1 .. n : (IF i = n + 1 THEN place # "arguments" ELSE t[i + 1] # "(")
                          <=> (IF i = n THEN peek # "(" ELSE s[i + 1] # "(")
    BY <1>1
  <2> QED
    BY <1>1, <1>2, <2>1, <2>2 DEF Readable
<1>5. Readable(s, "arguments") = {i \in 1 .. n : Names(s, i) /\ (IF i = n THEN FALSE ELSE s[i + 1] # "(")}
  BY DEF Readable
<1>6. Readable(s, "tail") = {i \in 1 .. n : Names(s, i) /\ (IF i = n THEN TRUE ELSE s[i + 1] # "(")}
  BY DEF Readable
<1> QED
  BY <1>3, <1>4, <1>5, <1>6

\* What the places of the innermost call have to do with it.
LEMMA ReadablePlaces ==
    ASSUME NEW s, Len(s) \in Nat
    PROVE  /\ \A place : place # "arguments" => Readable(s, place) = Readable(s, "tail")
           /\ Readable(s, "arguments") = Readable(s, "tail") \ {Len(s)}
           /\ ~ Names(s, Len(s)) => Readable(s, "arguments") = Readable(s, "tail")
           /\ \A place : Readable(s, place) \subseteq 1 .. Len(s)
  BY DEF Readable

--------------------------------------------------------------------------------
(* What a change of the innermost calls changes *)

Replaced(cs, ds, c) ==
    /\ Len(ds) = Len(cs) /\ ds[Len(cs)] = c
    /\ \A k \in 1 .. Len(cs) - 1 : ds[k] = cs[k]
Pushed(cs, ds, c, d) ==
    /\ Len(ds) = Len(cs) + 1 /\ ds[Len(cs)] = c /\ ds[Len(cs) + 1] = d
    /\ \A k \in 1 .. Len(cs) - 1 : ds[k] = cs[k]
Popped(cs, ds, c) ==
    /\ Len(cs) > 1 /\ Len(ds) = Len(cs) - 1 /\ ds[Len(cs) - 1] = c
    /\ \A k \in 1 .. Len(cs) - 2 : ds[k] = cs[k]

InsideOf(cs, m) == Count(Ats(cs), m, Inside)

\* Reads and depth of the first calls do not depend on the others.
LEMMA BelowSame ==
    ASSUME NEW cs, NEW ds, NEW m \in Nat, m <= Len(cs), m <= Len(ds), Len(cs) \in Nat, Len(ds) \in Nat,
           \A k \in 1 .. m : ds[k] = cs[k]
    PROVE  ReadBy(ds, m) = ReadBy(cs, m) /\ InsideOf(ds, m) = InsideOf(cs, m)
<1>1. {ds[k].reads : k \in 1 .. m} = {cs[k].reads : k \in 1 .. m}
  OBVIOUS
<1>2. \A k \in 1 .. m : Ats(ds)[k] = Ats(cs)[k]
  BY DEF Ats
<1> QED
  BY <1>1, <1>2, CountSame DEF ReadBy, InsideOf

\* With one more call, its reads and what it is inside of are added.
LEMMA OneMore ==
    ASSUME NEW cs, NEW m \in Nat \ {0}, m <= Len(cs), Len(cs) \in Nat
    PROVE  /\ ReadBy(cs, m) = ReadBy(cs, m - 1) \cup cs[m].reads
           /\ InsideOf(cs, m - 1) \in Nat
           /\ InsideOf(cs, m) = InsideOf(cs, m - 1) + (IF cs[m].at \in Inside THEN 1 ELSE 0)
<1>1. ReadBy(cs, m) = ReadBy(cs, m - 1) \cup cs[m].reads
  <2>1. 1 .. m = (1 .. m - 1) \cup {m}
    OBVIOUS
  <2> QED
    BY <2>1 DEF ReadBy
<1>2. m - 1 \in Nat /\ Ats(cs)[m] = cs[m].at
  BY DEF Ats
<1>3. InsideOf(cs, m - 1) \in Nat
  BY <1>2, CountFact DEF InsideOf
<1>4. InsideOf(cs, m) = InsideOf(cs, m - 1) + (IF Ats(cs)[m] \in Inside THEN 1 ELSE 0)
  BY CountFact DEF InsideOf
<1> QED
  BY <1>1, <1>2, <1>3, <1>4

\* Nothing is inside of no calls; and where none is inside, none of the calls is.
LEMMA InsideFact ==
    ASSUME NEW cs, NEW m \in Nat, m <= Len(cs), Len(cs) \in Nat
    PROVE  /\ ReadBy(cs, 0) = {} /\ InsideOf(cs, 0) = 0 /\ InsideOf(cs, m) \in Nat
           /\ InsideOf(cs, m) = 0 <=> \A k \in 1 .. m : cs[k].at \notin Inside
<1>1. \A k \in 1 .. m : Ats(cs)[k] = cs[k].at
  BY DEF Ats
<1>2. InsideOf(cs, m) = 0 <=> \A k \in 1 .. m : Ats(cs)[k] \notin Inside
  BY CountNone DEF InsideOf
<1>3. InsideOf(cs, 0) = 0 /\ InsideOf(cs, m) \in Nat
  BY CountFact DEF InsideOf
<1>4. ReadBy(cs, 0) = {}
  BY DEF ReadBy
<1> QED
  BY <1>1, <1>2, <1>3, <1>4

Inward(c) == IF c.at \in Inside THEN 1 ELSE 0

\* The innermost call goes on.
LEMMA ReplacedFact ==
    ASSUME NEW cs \in Seq(Calls), cs # <<>>, NEW ds \in Seq(Calls), NEW c, Replaced(cs, ds, c)
    PROVE  LET m == Len(cs) IN
           /\ m \in Nat \ {0} /\ Len(ds) = m /\ ds # <<>> /\ cs[m] \in Calls
           /\ ReadBy(cs, m) = ReadBy(cs, m - 1) \cup cs[m].reads
           /\ ReadBy(ds, m) = ReadBy(cs, m - 1) \cup c.reads
           /\ InsideOf(cs, m) \in Nat
           /\ InsideOf(ds, m) = InsideOf(cs, m) - Inward(cs[m]) + Inward(c)
           /\ (Operated(c) <=> Operated(cs[m])) => (Operated(ds[1]) <=> Operated(cs[1]))
           /\ Stacked(cs) /\ CallFits(c) /\ c.at \notin Waiting /\ c.min = cs[m].min => Stacked(ds)
<1> DEFINE m == Len(cs)
<1>1. /\ m \in Nat \ {0} /\ Len(ds) = m /\ ds # <<>> /\ cs[m] \in Calls /\ m - 1 \in Nat
      /\ ds[m] = c /\ \A k \in 1 .. m - 1 : ds[k] = cs[k]
  BY LastOfSeq DEF Replaced
<1>2. ReadBy(ds, m - 1) = ReadBy(cs, m - 1) /\ InsideOf(ds, m - 1) = InsideOf(cs, m - 1)
  BY <1>1, BelowSame
<1>3. /\ ReadBy(cs, m) = ReadBy(cs, m - 1) \cup cs[m].reads
      /\ InsideOf(cs, m - 1) \in Nat
      /\ InsideOf(cs, m) = InsideOf(cs, m - 1) + Inward(cs[m])
  BY <1>1, OneMore DEF Inward
<1>4. /\ ReadBy(ds, m) = ReadBy(ds, m - 1) \cup c.reads
      /\ InsideOf(ds, m) = InsideOf(ds, m - 1) + Inward(c)
  BY <1>1, OneMore DEF Inward
<1>5. (Operated(c) <=> Operated(cs[m])) => (Operated(ds[1]) <=> Operated(cs[1]))
  <2>1. CASE m = 1
    BY <1>1, <2>1
  <2>2. CASE m # 1
    BY <1>1, <2>2
  <2> QED
    BY <2>1, <2>2
<1>6. ASSUME Stacked(cs), CallFits(c), c.at \notin Waiting, c.min = cs[m].min PROVE Stacked(ds)
  <2>1. \A k \in 1 .. m : CallFits(ds[k]) /\ (k < m <=> ds[k].at \in Waiting)
    <3>1. ASSUME NEW k \in 1 .. m - 1 PROVE CallFits(ds[k]) /\ ds[k].at \in Waiting /\ k < m
      BY <1>1, <1>6 DEF Stacked
    <3> QED
      BY <1>1, <1>6, <3>1
  <2>2. \A k \in 1 .. m : ds[k].min = cs[k].min
    BY <1>1, <1>6
  <2>3. ASSUME NEW k \in 2 .. m, ds[k].min = 0
        PROVE  ds[k - 1].at \in {"group", "argument", "index"}
    <3>1. k \in 1 .. m /\ k - 1 \in 1 .. m - 1
      BY <1>1
    <3> QED
      BY <1>1, <1>6, <2>2, <2>3, <3>1 DEF Stacked
  <2>4. ds[1].min = 4
    BY <1>1, <1>6, <2>2 DEF Stacked
  <2> QED
    BY <1>1, <2>1, <2>3, <2>4 DEF Stacked
<1>7. Inward(c) \in Int /\ Inward(cs[m]) \in Int
  BY DEF Inward
<1>8. InsideOf(cs, m) \in Nat /\ InsideOf(ds, m) = InsideOf(cs, m) - Inward(cs[m]) + Inward(c)
  BY <1>2, <1>3, <1>4, <1>7 DEF Inward
<1> HIDE DEF m
<1> QED
  BY <1>1, <1>2, <1>3, <1>4, <1>5, <1>6, <1>8 DEF m

\* The innermost call waits for one more.
LEMMA PushedFact ==
    ASSUME NEW cs \in Seq(Calls), cs # <<>>, NEW ds \in Seq(Calls), NEW c, NEW minimum,
           Pushed(cs, ds, c, Call(minimum))
    PROVE  LET m == Len(cs) IN
           /\ m \in Nat \ {0} /\ Len(ds) = m + 1 /\ ds # <<>> /\ cs[m] \in Calls
           /\ ReadBy(cs, m) = ReadBy(cs, m - 1) \cup cs[m].reads
           /\ ReadBy(ds, m + 1) = ReadBy(cs, m - 1) \cup c.reads
           /\ InsideOf(cs, m) \in Nat
           /\ InsideOf(ds, m + 1) = InsideOf(cs, m) - Inward(cs[m]) + Inward(c)
           /\ (Operated(c) <=> Operated(cs[m])) => (Operated(ds[1]) <=> Operated(cs[1]))
           /\ /\ Stacked(cs) /\ CallFits(c) /\ c.at \in Waiting /\ c.min = cs[m].min
              /\ minimum \in Nat
              /\ minimum # 0 => minimum >= 4
              /\ minimum = 0 => c.at \in {"group", "argument", "index"}
              => Stacked(ds)
<1> DEFINE m == Len(cs)
           d == Call(minimum)
<1>1. /\ m \in Nat \ {0} /\ Len(ds) = m + 1 /\ ds # <<>> /\ cs[m] \in Calls /\ m - 1 \in Nat
      /\ ds[m] = c /\ ds[m + 1] = d /\ \A k \in 1 .. m - 1 : ds[k] = cs[k]
  BY LastOfSeq DEF Pushed
<1>0. d.at = "operand" /\ d.min = minimum /\ d.node = "none" /\ d.reads = {}
  BY DEF Call
<1> HIDE DEF d
<1>2. ReadBy(ds, m - 1) = ReadBy(cs, m - 1) /\ InsideOf(ds, m - 1) = InsideOf(cs, m - 1)
  BY <1>1, BelowSame
<1>3. /\ ReadBy(cs, m) = ReadBy(cs, m - 1) \cup cs[m].reads
      /\ InsideOf(cs, m - 1) \in Nat
      /\ InsideOf(cs, m) = InsideOf(cs, m - 1) + Inward(cs[m])
  BY <1>1, OneMore DEF Inward
<1>4. /\ ReadBy(ds, m) = ReadBy(ds, m - 1) \cup c.reads
      /\ InsideOf(ds, m) = InsideOf(ds, m - 1) + Inward(c)
  BY <1>1, OneMore DEF Inward
<1>5. /\ ReadBy(ds, m + 1) = ReadBy(ds, m)
      /\ InsideOf(ds, m + 1) = InsideOf(ds, m)
  <2>1. m + 1 \in Nat \ {0} /\ (m + 1) - 1 = m /\ Len(ds) \in Nat /\ m + 1 <= Len(ds)
    BY <1>1
  <2>2. /\ ReadBy(ds, m + 1) = ReadBy(ds, m) \cup ds[m + 1].reads
        /\ InsideOf(ds, m) \in Nat
        /\ InsideOf(ds, m + 1) = InsideOf(ds, m) + (IF ds[m + 1].at \in Inside THEN 1 ELSE 0)
    BY <2>1, OneMore
  <2>3. ds[m + 1].reads = {} /\ ds[m + 1].at \notin Inside
    BY <1>0, <1>1 DEF Inside
  <2>4. ReadBy(ds, m + 1) = ReadBy(ds, m)
    BY <2>2, <2>3
  <2>5. InsideOf(ds, m + 1) = InsideOf(ds, m) + 0
    BY <2>2, <2>3, Zenon
  <2> QED
    BY <2>2, <2>4, <2>5
<1>6. (Operated(c) <=> Operated(cs[m])) => (Operated(ds[1]) <=> Operated(cs[1]))
  <2>1. CASE m = 1
    BY <1>1, <2>1
  <2>2. CASE m # 1
    BY <1>1, <2>2
  <2> QED
    BY <2>1, <2>2
<1>7. ASSUME Stacked(cs), CallFits(c), c.at \in Waiting, c.min = cs[m].min,
             minimum \in Nat, minimum # 0 => minimum >= 4,
             minimum = 0 => c.at \in {"group", "argument", "index"}
      PROVE  Stacked(ds)
  <2>0. CallFits(d) /\ d.at \notin Waiting
    BY <1>0, <1>7 DEF CallFits, Waiting, Listing, Operators
  <2>1. \A k \in 1 .. m + 1 : CallFits(ds[k]) /\ (k < m + 1 <=> ds[k].at \in Waiting)
    <3>1. ASSUME NEW k \in 1 .. m - 1 PROVE CallFits(ds[k]) /\ ds[k].at \in Waiting /\ k < m
      BY <1>1, <1>7 DEF Stacked
    <3> QED
      BY <1>1, <1>7, <2>0, <3>1
  <2>2. \A k \in 1 .. m : ds[k].min = cs[k].min
    BY <1>1, <1>7
  <2>3. ASSUME NEW k \in 2 .. m + 1, ds[k].min = 0
        PROVE  ds[k - 1].at \in {"group", "argument", "index"}
    <3>1. CASE k = m + 1
      BY <1>0, <1>1, <1>7, <2>3, <3>1
    <3>2. CASE k # m + 1
      <4>1. k \in 1 .. m /\ k - 1 \in 1 .. m - 1 /\ k \in 2 .. m
        BY <1>1, <3>2
      <4> QED
        BY <1>1, <1>7, <2>2, <2>3, <4>1 DEF Stacked
    <3> QED
      BY <3>1, <3>2
  <2>4. ds[1].min = 4
    BY <1>1, <1>7, <2>2 DEF Stacked
  <2>5. /\ \A k \in 1 .. Len(ds) : CallFits(ds[k]) /\ (k < Len(ds) <=> ds[k].at \in Waiting)
        /\ \A k \in 2 .. Len(ds) : ds[k].min = 0 => ds[k - 1].at \in {"group", "argument", "index"}
    <3>1. Len(ds) = m + 1
      BY <1>1
    <3> QED
      BY <2>1, <2>3, <3>1, Zenon
  <2> QED
    BY <2>4, <2>5 DEF Stacked
<1>8. InsideOf(cs, m) \in Nat /\ InsideOf(ds, m + 1) = InsideOf(cs, m) - Inward(cs[m]) + Inward(c)
  BY <1>2, <1>3, <1>4, <1>5 DEF Inward
<1> HIDE DEF m
<1> QED
  BY <1>1, <1>2, <1>3, <1>4, <1>5, <1>6, <1>7, <1>8 DEF m

\* The innermost call returns to the one that waits for it.
LEMMA PoppedFact ==
    ASSUME NEW cs \in Seq(Calls), cs # <<>>, NEW ds \in Seq(Calls), NEW c, Popped(cs, ds, c)
    PROVE  LET m == Len(cs) IN
           /\ m - 1 \in Nat \ {0} /\ Len(ds) = m - 1 /\ ds # <<>> /\ cs[m] \in Calls /\ cs[m - 1] \in Calls
           /\ ReadBy(cs, m) = (ReadBy(cs, m - 2) \cup cs[m - 1].reads) \cup cs[m].reads
           /\ ReadBy(ds, m - 1) = ReadBy(cs, m - 2) \cup c.reads
           /\ InsideOf(cs, m) \in Nat
           /\ InsideOf(ds, m - 1) = InsideOf(cs, m) - Inward(cs[m]) - Inward(cs[m - 1]) + Inward(c)
           /\ (Operated(c) <=> Operated(cs[m - 1])) => (Operated(ds[1]) <=> Operated(cs[1]))
           /\ Stacked(cs) /\ CallFits(c) /\ c.at \notin Waiting /\ c.min = cs[m - 1].min => Stacked(ds)
<1> DEFINE m == Len(cs)
           w == m - 1
<1>1. /\ m \in Nat \ {0} /\ w \in Nat \ {0} /\ w - 1 \in Nat /\ m - 1 = w /\ m - 2 = w - 1
      /\ Len(ds) = w /\ ds # <<>> /\ cs[m] \in Calls /\ cs[w] \in Calls
      /\ ds[w] = c /\ \A k \in 1 .. w - 1 : ds[k] = cs[k]
  <2>1. m \in Nat \ {0} /\ cs[m] \in Calls /\ m > 1
    BY LastOfSeq DEF Popped
  <2>2. w \in 1 .. m
    BY <2>1
  <2> QED
    BY <2>1, <2>2 DEF Popped
<1>2. ReadBy(ds, w - 1) = ReadBy(cs, w - 1) /\ InsideOf(ds, w - 1) = InsideOf(cs, w - 1)
  BY <1>1, BelowSame
<1>3. /\ ReadBy(cs, w) = ReadBy(cs, w - 1) \cup cs[w].reads
      /\ InsideOf(cs, w - 1) \in Nat
      /\ InsideOf(cs, w) = InsideOf(cs, w - 1) + Inward(cs[w])
  <2>1. w <= Len(cs) /\ Len(cs) \in Nat
    BY <1>1
  <2> HIDE DEF w
  <2> QED
    BY <1>1, <2>1, OneMore DEF Inward
<1>4. /\ ReadBy(ds, w) = ReadBy(ds, w - 1) \cup c.reads
      /\ InsideOf(ds, w) = InsideOf(ds, w - 1) + Inward(c)
  <2> HIDE DEF w
  <2> QED
    BY <1>1, OneMore DEF Inward
<1>5. /\ ReadBy(cs, m) = ReadBy(cs, w) \cup cs[m].reads
      /\ InsideOf(cs, m) = InsideOf(cs, w) + Inward(cs[m])
  BY <1>1, OneMore DEF Inward
<1>6. (Operated(c) <=> Operated(cs[w])) => (Operated(ds[1]) <=> Operated(cs[1]))
  <2>1. CASE w = 1
    BY <1>1, <2>1
  <2>2. CASE w # 1
    BY <1>1, <2>2
  <2> QED
    BY <2>1, <2>2
<1>7. ASSUME Stacked(cs), CallFits(c), c.at \notin Waiting, c.min = cs[w].min PROVE Stacked(ds)
  <2>1. \A k \in 1 .. w : CallFits(ds[k]) /\ (k < w <=> ds[k].at \in Waiting)
    <3>1. ASSUME NEW k \in 1 .. w - 1 PROVE CallFits(ds[k]) /\ ds[k].at \in Waiting /\ k < w
      BY <1>1, <1>7 DEF Stacked
    <3> QED
      BY <1>1, <1>7, <3>1
  <2>2. \A k \in 1 .. w : ds[k].min = cs[k].min
    BY <1>1, <1>7
  <2>3. ASSUME NEW k \in 2 .. w, ds[k].min = 0
        PROVE  ds[k - 1].at \in {"group", "argument", "index"}
    <3>1. k \in 1 .. w /\ k - 1 \in 1 .. w - 1 /\ k \in 2 .. m
      BY <1>1
    <3> QED
      BY <1>1, <1>7, <2>2, <2>3, <3>1 DEF Stacked
  <2>4. ds[1].min = 4
    BY <1>1, <1>7, <2>2 DEF Stacked
  <2>5. /\ \A k \in 1 .. Len(ds) : CallFits(ds[k]) /\ (k < Len(ds) <=> ds[k].at \in Waiting)
        /\ \A k \in 2 .. Len(ds) : ds[k].min = 0 => ds[k - 1].at \in {"group", "argument", "index"}
    <3>1. Len(ds) = w
      BY <1>1
    <3> HIDE DEF w
    <3> QED
      BY <2>1, <2>3, <3>1, Zenon
  <2> QED
    BY <2>4, <2>5 DEF Stacked
<1>8. /\ InsideOf(cs, m) \in Nat
      /\ InsideOf(ds, w) = InsideOf(cs, m) - Inward(cs[m]) - Inward(cs[w]) + Inward(c)
  <2>1. Inward(c) \in Nat /\ Inward(cs[w]) \in Nat /\ Inward(cs[m]) \in Nat
    BY DEF Inward
  <2> QED
    BY <1>2, <1>3, <1>4, <1>5, <2>1
<1>9. ReadBy(cs, m) = (ReadBy(cs, w - 1) \cup cs[w].reads) \cup cs[m].reads
  BY <1>3, <1>5
<1> HIDE DEF m, w
<1>10. m = Len(cs)
  BY DEF m
<1> QED
  BY <1>1, <1>2, <1>4, <1>6, <1>7, <1>8, <1>9, <1>10

--------------------------------------------------------------------------------
(* What a step has to show of the tokens and the calls *)

\* What a token adds to what is read, and to the depth.
NewReads(s, peek) ==
    IF peek = "identifier" /\ (Len(s) = 0 \/ s[Len(s)] \notin {".", "new"})
    THEN {Len(s) + 1} ELSE {}
Delta(peek) == IF peek \in {"(", "["} THEN 1 ELSE IF peek \in {")", "]"} THEN -1 ELSE 0

\* An operator outside of brackets that is taken next.
OperatorNext(s, peek, cs) ==
    /\ InsideOf(cs, Len(cs)) = 0 /\ peek \in {"+", "*", "not"}
    /\ Len(s) = 0 \/ s[Len(s)] # "."

\* The token is taken, and the calls account for it.
LEMMA TakenFits ==
    ASSUME NEW s \in Seq(Lexeme), NEW peek \in Lexeme, NEW t, GoesOn(s, peek, t),
           NEW cs \in Seq(Calls), cs # <<>>, NEW ds \in Seq(Calls), ds # <<>>,
           ReadsFit(s, cs), DepthFits(s, cs), OperatorsFit(s, cs),
           peek = "(" => cs[Len(cs)].at = "arguments" \/ Len(s) = 0 \/ s[Len(s)] # "identifier",
           peek # "(" => cs[Len(cs)].at # "arguments",
           ReadBy(ds, Len(ds)) = ReadBy(cs, Len(cs)) \cup NewReads(s, peek),
           NewReads(s, peek) # {} => ds[Len(ds)].at # "arguments",
           InsideOf(ds, Len(ds)) = InsideOf(cs, Len(cs)) + Delta(peek),
           peek = "=" => InsideOf(cs, Len(cs)) # 0,
           Operated(ds[1]) <=> Operated(cs[1]) \/ OperatorNext(s, peek, cs)
    PROVE  ReadsFit(t, ds) /\ DepthFits(t, ds) /\ OperatorsFit(t, ds)
<1> DEFINE n == Len(s)
           place == ds[Len(ds)].at
<1>1. /\ n \in Nat /\ Len(t) = n + 1 /\ t[n + 1] = peek /\ \A i \in 1 .. n : t[i] = s[i]
  BY DEF GoesOn
<1>2. /\ Names(t, n + 1) <=> peek = "identifier" /\ (n = 0 \/ s[n] \notin {".", "new"})
      /\ NewReads(s, peek) = IF Names(t, n + 1) THEN {n + 1} ELSE {}
  BY <1>1 DEF Names, NewReads
<1>3. ReadsFit(t, ds)
  <2>1. /\ peek = "(" => Readable(t, place) = Readable(s, "arguments")
        /\ peek # "(" /\ ~ Names(t, n + 1) => Readable(t, place) = Readable(s, "tail")
        /\ peek # "(" /\ Names(t, n + 1) /\ place # "arguments"
              => Readable(t, place) = Readable(s, "tail") \cup {n + 1}
    BY <1>1, ReadableFact
  <2>2. /\ cs[Len(cs)].at # "arguments" => ReadBy(cs, Len(cs)) = Readable(s, "tail")
        /\ cs[Len(cs)].at = "arguments" => ReadBy(cs, Len(cs)) = Readable(s, "arguments")
    BY <1>1, ReadablePlaces DEF ReadsFit
  <2>3. n = 0 \/ s[n] # "identifier" => Readable(s, "arguments") = Readable(s, "tail")
    BY <1>1 DEF Readable, Names
  <2>4. CASE peek = "("
    BY <1>2, <2>1, <2>2, <2>3, <2>4 DEF ReadsFit
  <2>5. CASE peek # "("
    BY <1>2, <2>1, <2>2, <2>5 DEF ReadsFit
  <2> QED
    BY <2>4, <2>5
<1>4. /\ \A i \in 0 .. n : Bracket(t, i) = Bracket(s, i)
      /\ Bracket(s, n) \in Int
      /\ Bracket(t, n + 1) = Bracket(s, n) + Delta(peek)
      /\ \A i \in 1 .. n : Operates(t, i) <=> Operates(s, i)
  <2>1. Bracket(t, n + 1) = Bracket(s, n) + Delta(peek)
    BY <1>1, BracketFact DEF Delta
  <2> QED
    BY <1>1, <2>1, BracketFact
<1>5. Bracket(s, n) = InsideOf(cs, Len(cs))
  BY DEF DepthFits, InsideOf
<1>6. DepthFits(t, ds)
  BY <1>1, <1>4, <1>5 DEF DepthFits, InsideOf
<1>7. peek \in {"=", "+", "*", "not"} => Bracket(t, n + 1) = Bracket(s, n)
  BY <1>4 DEF Delta
<1>8. \A i \in 1 .. n + 1 : t[i] = "=" => Bracket(t, i) # 0
  <2>1. ASSUME NEW i \in 1 .. n, t[i] = "=" PROVE Bracket(t, i) # 0
    BY <1>1, <1>4, <2>1 DEF OperatorsFit
  <2>2. t[n + 1] = "=" => Bracket(t, n + 1) # 0
    BY <1>1, <1>5, <1>7
  <2> QED
    BY <1>1, <2>1, <2>2
<1>9. Operates(t, n + 1) <=> OperatorNext(s, peek, cs)
  <2>1. (n + 1 = 1 \/ t[(n + 1) - 1] # ".") <=> (n = 0 \/ s[n] # ".")
    BY <1>1
  <2> QED
    BY <1>1, <1>5, <1>7, <2>1 DEF Operates, OperatorNext
<1>10. (\E i \in 1 .. n + 1 : Operates(t, i)) <=> Operated(ds[1])
  <2>1. (\E i \in 1 .. n + 1 : Operates(t, i))
        <=> (\E i \in 1 .. n : Operates(t, i)) \/ Operates(t, n + 1)
    BY <1>1
  <2>2. (\E i \in 1 .. n : Operates(t, i)) <=> Operated(cs[1])
    BY <1>4 DEF OperatorsFit
  <2> QED
    BY <1>9, <2>1, <2>2
<1>11. OperatorsFit(t, ds)
  BY <1>1, <1>8, <1>10 DEF OperatorsFit
<1> QED
  BY <1>3, <1>6, <1>11

--------------------------------------------------------------------------------
(* The steps of the parser, by what they do to the calls *)

\* Whoever is not inside of brackets is in an operator.
LEMMA OutermostOperates ==
    ASSUME NEW cs \in Seq(Calls), Stacked(cs), Len(cs) > 1, InsideOf(cs, Len(cs)) = 0
    PROVE  Operated(cs[1])
<1>1. Len(cs) \in Nat /\ 1 \in 1 .. Len(cs) /\ 1 < Len(cs)
  OBVIOUS
<1>2. cs[1].at \notin Inside
  BY <1>1, InsideFact
<1>3. cs[1].at \in Waiting
  BY <1>1 DEF Stacked
<1> QED
  BY <1>2, <1>3 DEF Inside, Waiting, Operated, Operators

\* An operator is taken: if it is outside of brackets, it is the outermost call's.
LEMMA OperatorTaken ==
    ASSUME NEW cs \in Seq(Calls), cs # <<>>, Stacked(cs), cs[Len(cs)].at \notin Inside,
           NEW ds \in Seq(Calls), NEW c, NEW d, Pushed(cs, ds, c, d), Operated(c),
           NEW s \in Seq(Lexeme), Len(s) = 0 \/ s[Len(s)] # ".", NEW peek \in {"=", "+", "*", "not"},
           peek = "=" => InsideOf(cs, Len(cs)) # 0
    PROVE  Operated(ds[1]) <=> Operated(cs[1]) \/ OperatorNext(s, peek, cs)
<1>1. PICK m \in Nat \ {0} : m = Len(cs)
  BY LastOfSeq
<1>2. CASE m = 1
  <2>1. Operated(ds[1])
    BY <1>1, <1>2 DEF Pushed
  <2>2. \A k \in 1 .. m : cs[k].at \notin Inside
    <3>1. cs[1].at \notin Inside
      BY <1>1, <1>2
    <3> QED
      BY <1>2, <3>1
  <2>3. InsideOf(cs, Len(cs)) = 0
    BY <1>1, <2>2, InsideFact
  <2> QED
    BY <2>1, <2>3 DEF OperatorNext
<1>3. CASE m # 1
  <2>1. 1 \in 1 .. m - 1 /\ m > 1
    BY <1>3
  <2>2. ds[1] = cs[1]
    BY <1>1, <2>1 DEF Pushed
  <2>3. OperatorNext(s, peek, cs) => Operated(cs[1])
    BY <1>1, <2>1, OutermostOperates DEF OperatorNext
  <2> QED
    BY <2>2, <2>3
<1> QED
  BY <1>2, <1>3

\* Behind some tokens an operand may begin.
LEMMA OperandFits ==
    ASSUME NEW s \in Seq(Lexeme), NEW peek \in Before, NEW t \in Seq(Lexeme), GoesOn(s, peek, t), NEW next,
           NEW cs \in Seq(Calls), cs # <<>>, NEW ds \in Seq(Calls), NEW c, NEW minimum, Pushed(cs, ds, c, Call(minimum))
    PROVE  TopFits(t, next, ds)
<1>1. /\ Len(t) > 0 /\ t[Len(t)] \in Before /\ t[Len(t)] # "."
      /\ Len(ds) > 1 /\ ds[Len(ds)].at = "operand"
  <2>1. PICK n \in Nat, m \in Nat \ {0} : n = Len(s) /\ m = Len(cs)
    BY LastOfSeq
  <2>2. Len(t) = n + 1 /\ t[n + 1] = peek /\ peek # "."
    BY <2>1 DEF GoesOn, Before
  <2>3. Len(ds) = m + 1 /\ ds[m + 1] = Call(minimum) /\ Call(minimum).at = "operand"
    BY <2>1 DEF Pushed, Call
  <2> QED
    BY <2>2, <2>3
<1>2. Len(ds) # 1
  BY <1>1
<1>3. ASSUME NEW place, place = "operand"
      PROVE  /\ place \notin {"type", "typed", "member", "arguments", "tail"}
             /\ place \notin {"close group", "close index", "after argument"}
  BY <1>3
<1>4. /\ ds[Len(ds)].at \notin {"type", "typed", "member", "arguments", "tail"}
      /\ ds[Len(ds)].at \notin {"close group", "close index", "after argument"}
  BY <1>1, <1>3
<1> QED
  BY <1>1, <1>2, <1>4, Zenon DEF TopFits

\* A token is taken, and the innermost call goes on.
LEMMA TakeAndGo ==
    ASSUME NEW s, NEW peek, NEW cs, ParsingInv(s, peek, cs), peek # "eof",
           NEW t \in Seq(Lexeme), NEW next \in Lexeme, GoesOn(s, peek, t),
           Len(t) < MaxLength \/ next = "eof",
           NEW ds \in Seq(Calls), NEW c, Replaced(cs, ds, c), CallFits(c),
           c.at \notin Waiting, c.at # "operand", c.min = cs[Len(cs)].min,
           Len(cs) <= DepthLimit,
           peek = "(" <=> cs[Len(cs)].at = "arguments",
           c.reads = cs[Len(cs)].reads \cup NewReads(s, peek),
           NewReads(s, peek) # {} => c.at # "arguments",
           Inward(c) = Inward(cs[Len(cs)]) + Delta(peek),
           peek # "=", peek \in {"+", "*", "not"} => Len(s) > 0 /\ s[Len(s)] = ".",
           Operated(c) <=> Operated(cs[Len(cs)]),
           TopFits(t, next, ds)
    PROVE  ParsingInv(t, next, ds)
<1> DEFINE m == Len(cs)
<1>1. /\ s \in Seq(Lexeme) /\ peek \in Lexeme /\ cs \in Seq(Calls) /\ cs # <<>>
      /\ Stacked(cs) /\ Bounded(s, peek, cs) /\ TopFits(s, peek, cs)
      /\ ReadsFit(s, cs) /\ DepthFits(s, cs) /\ OperatorsFit(s, cs)
  BY DEF ParsingInv
<1>2. /\ m \in Nat \ {0} /\ Len(ds) = m /\ ds # <<>> /\ cs[m] \in Calls
      /\ ReadBy(cs, m) = ReadBy(cs, m - 1) \cup cs[m].reads
      /\ ReadBy(ds, m) = ReadBy(cs, m - 1) \cup c.reads
      /\ InsideOf(cs, m) \in Nat
      /\ InsideOf(ds, m) = InsideOf(cs, m) - Inward(cs[m]) + Inward(c)
      /\ Operated(ds[1]) <=> Operated(cs[1])
      /\ Stacked(ds)
  BY <1>1, ReplacedFact
<1>3. ds[m] = c
  BY DEF Replaced
<1>4. ReadBy(ds, Len(ds)) = ReadBy(cs, Len(cs)) \cup NewReads(s, peek)
  BY <1>2
<1>5. InsideOf(ds, Len(ds)) = InsideOf(cs, Len(cs)) + Delta(peek)
  <2>1. Inward(cs[m]) \in Int /\ Delta(peek) \in Int
    BY DEF Inward, Delta
  <2> QED
    BY <1>2, <2>1
<1>6. ~ OperatorNext(s, peek, cs)
  BY <1>1 DEF OperatorNext
<1>7. ReadsFit(t, ds) /\ DepthFits(t, ds) /\ OperatorsFit(t, ds)
  BY <1>1, <1>2, <1>3, <1>4, <1>5, <1>6, TakenFits
<1>8. Bounded(t, next, ds)
  <2>1. Len(s) \in Nat /\ Len(t) = Len(s) + 1 /\ Len(s) < MaxLength
    BY <1>1 DEF Bounded, GoesOn
  <2> QED
    BY <1>1, <1>2, <1>3, <2>1, ExpressionAssumption DEF Bounded
<1> QED
  BY <1>2, <1>7, <1>8 DEF ParsingInv

\* A token is taken, and the innermost call waits for another.
LEMMA TakeAndWait ==
    ASSUME NEW s, NEW peek, NEW cs, ParsingInv(s, peek, cs), peek # "eof",
           NEW t \in Seq(Lexeme), NEW next \in Lexeme, GoesOn(s, peek, t),
           Len(t) < MaxLength \/ next = "eof",
           NEW ds \in Seq(Calls), NEW c, NEW minimum, Pushed(cs, ds, c, Call(minimum)), CallFits(c),
           c.at \in Waiting, c.min = cs[Len(cs)].min, Len(cs) <= DepthLimit,
           minimum \in Nat, minimum # 0 => minimum >= 4,
           minimum = 0 => c.at \in {"group", "argument", "index"},
           cs[Len(cs)].at \in {"operand", "tail"},
           peek \in {"(", "[", "=", "+", "*", "not"},
           peek = "(" => Len(s) = 0 \/ s[Len(s)] # "identifier",
           c.reads = cs[Len(cs)].reads, Inward(c) = Delta(peek),
           peek = "=" => InsideOf(cs, Len(cs)) # 0,
           peek \in {"(", "["} => (Operated(c) <=> Operated(cs[Len(cs)])),
           peek \notin {"(", "["} => c.at \in Operators
    PROVE  ParsingInv(t, next, ds)
<1> DEFINE m == Len(cs)
<1>1. /\ s \in Seq(Lexeme) /\ peek \in Lexeme /\ cs \in Seq(Calls) /\ cs # <<>>
      /\ Stacked(cs) /\ Bounded(s, peek, cs) /\ TopFits(s, peek, cs)
      /\ ReadsFit(s, cs) /\ DepthFits(s, cs) /\ OperatorsFit(s, cs)
  BY DEF ParsingInv
<1>2. /\ m \in Nat \ {0} /\ Len(ds) = m + 1 /\ ds # <<>> /\ cs[m] \in Calls
      /\ ReadBy(cs, m) = ReadBy(cs, m - 1) \cup cs[m].reads
      /\ ReadBy(ds, m + 1) = ReadBy(cs, m - 1) \cup c.reads
      /\ InsideOf(cs, m) \in Nat
      /\ InsideOf(ds, m + 1) = InsideOf(cs, m) - Inward(cs[m]) + Inward(c)
      /\ (Operated(c) <=> Operated(cs[m])) => (Operated(ds[1]) <=> Operated(cs[1]))
      /\ Stacked(ds)
  BY <1>1, PushedFact
<1>3. ds[m] = c /\ ds[m + 1] = Call(minimum) /\ ds[m + 1].at = "operand"
  BY DEF Pushed, Call
<1>4. ReadBy(ds, Len(ds)) = ReadBy(cs, Len(cs)) \cup NewReads(s, peek)
  BY <1>2 DEF NewReads
<1>5. Inward(cs[m]) = 0
  BY DEF Inward, Inside
<1>6. InsideOf(ds, Len(ds)) = InsideOf(cs, Len(cs)) + Delta(peek)
  <2>1. Delta(peek) \in Int
    BY DEF Delta
  <2> QED
    BY <1>2, <1>5, <2>1
<1>7. Operated(ds[1]) <=> Operated(cs[1]) \/ OperatorNext(s, peek, cs)
  <2>1. CASE peek \in {"(", "["}
    BY <1>2, <2>1 DEF OperatorNext
  <2>2. CASE peek \notin {"(", "["}
    <3>1. /\ peek \in {"=", "+", "*", "not"} /\ cs[m].at \notin Inside /\ Operated(c)
          /\ Len(s) = 0 \/ s[Len(s)] # "."
      BY <1>1, <2>2 DEF Inside, Operated, TopFits
    <3> QED
      BY <1>1, <1>2, <3>1, OperatorTaken
  <2> QED
    BY <2>1, <2>2
<1>8. ReadsFit(t, ds) /\ DepthFits(t, ds) /\ OperatorsFit(t, ds)
  <2>1. NewReads(s, peek) = {}
    BY DEF NewReads
  <2> QED
    BY <1>1, <1>2, <1>4, <1>6, <1>7, <2>1, TakenFits
<1>9. Bounded(t, next, ds)
  <2>1. Len(s) \in Nat /\ Len(t) = Len(s) + 1 /\ Len(s) < MaxLength
    BY <1>1 DEF Bounded, GoesOn
  <2> QED
    BY <1>1, <1>2, <1>3, <2>1, ExpressionAssumption DEF Bounded
<1>10. TopFits(t, next, ds)
  <2>1. peek \in Before
    BY DEF Before
  <2> QED
    BY <1>1, <2>1, OperandFits
<1> QED
  BY <1>1, <1>2, <1>8, <1>9, <1>10 DEF ParsingInv

\* The last tokens and the innermost call, after a token is taken.
LEMMA AfterToken ==
    ASSUME NEW s \in Seq(Lexeme), NEW peek, NEW t, GoesOn(s, peek, t),
           NEW cs \in Seq(Calls), cs # <<>>, NEW ds, NEW c, Replaced(cs, ds, c)
    PROVE  /\ Len(t) \in Nat \ {0} /\ t[Len(t)] = peek /\ Len(t) = Len(s) + 1
           /\ Len(t) = 1 <=> Len(s) = 0
           /\ Len(s) # 0 => Len(t) > 1 /\ t[Len(t) - 1] = s[Len(s)]
           /\ ds[Len(ds)] = c
<1>1. PICK n \in Nat, m \in Nat \ {0} : n = Len(s) /\ m = Len(cs)
  BY LastOfSeq
<1>2. Len(t) = n + 1 /\ t[n + 1] = peek /\ \A i \in 1 .. n : t[i] = s[i]
  BY <1>1 DEF GoesOn
<1>3. n # 0 => t[Len(t) - 1] = s[n]
  <2>1. n # 0 => n \in 1 .. n /\ (n + 1) - 1 = n
    OBVIOUS
  <2> QED
    BY <1>2, <2>1
<1>4. ds[Len(ds)] = c
  BY DEF Replaced
<1> QED
  BY <1>1, <1>2, <1>3, <1>4

\* Where an operand ends.
LEMMA TailFits ==
    ASSUME NEW s \in Seq(Lexeme), NEW peek, peek # ".", NEW t, GoesOn(s, peek, t), NEW next,
           NEW cs \in Seq(Calls), cs # <<>>, NEW ds, NEW c, Replaced(cs, ds, c),
           c.at = "tail", c.node \notin {"identifier", "none"} \cup Operators,
           c.node = "member" => Len(s) # 0 /\ s[Len(s)] = ".",
           c.node = "index" => Len(s) # 0 /\ peek = "]",
           c.node \in {"literal", "true", "string"} => peek = c.node,
           c.node \in Listed \cup {"group"} => peek = ")",
           c.node # "member" => Len(s) = 0 \/ s[Len(s)] # "."
    PROVE  TopFits(t, next, ds)
<1>1. /\ Len(t) \in Nat \ {0} /\ t[Len(t)] = peek /\ (Len(t) = 1 <=> Len(s) = 0)
      /\ Len(s) # 0 => Len(t) > 1 /\ t[Len(t) - 1] = s[Len(s)]
      /\ ds[Len(ds)] = c
  BY AfterToken
<1>2. Len(t) = 1 \/ t[Len(t) - 1] # "." \/ c.node = "member"
  BY <1>1
<1>3. NodeFits(t, next, ds)
  BY <1>1, <1>2 DEF NodeFits, Listed, Operators
<1>5. /\ c.at \notin {"operand", "next argument", "type", "typed", "member", "arguments"}
      /\ c.at \notin {"close group", "close index", "after argument"}
      /\ Len(t) > 0 /\ t[Len(t)] # "."
  BY <1>1
<1> QED
  BY <1>1, <1>3, <1>5, Zenon DEF TopFits

\* The tokens and the innermost call after one that is a name, if it is read.
LEMMA NameFits ==
    ASSUME NEW s \in Seq(Lexeme), NEW t, GoesOn(s, "identifier", t), NEW next,
           NEW cs \in Seq(Calls), cs # <<>>, ReadsFit(s, cs), Len(cs) = 1 => Len(s) = 0,
           NEW ds, NEW c, Replaced(cs, ds, c),
           c.at = "tail", c.node = "identifier", c.reads = {Len(s) + 1}
    PROVE  TopFits(t, next, ds)
<1>1. /\ Len(t) \in Nat \ {0} /\ t[Len(t)] = "identifier" /\ (Len(t) = 1 <=> Len(s) = 0)
      /\ ds[Len(ds)] = c /\ c.reads = {Len(t)} /\ Len(t) = Len(s) + 1 /\ Len(s) \in Nat
  BY AfterToken
<1>2. Len(ds) = Len(cs) /\ \A k \in 1 .. Len(cs) - 1 : ds[k] = cs[k]
  BY DEF Replaced
<1>3. ASSUME NEW k \in 1 .. Len(ds) - 1 PROVE Len(t) \notin ds[k].reads
  <2>1. k \in 1 .. Len(cs) /\ ds[k] = cs[k]
    <3>1. PICK m \in Nat \ {0} : m = Len(cs)
      BY LastOfSeq
    <3> QED
      BY <1>2, <3>1
  <2>2. cs[k].reads \subseteq ReadBy(cs, Len(cs))
    BY <2>1 DEF ReadBy
  <2>3. ReadBy(cs, Len(cs)) \subseteq 1 .. Len(s)
    BY <1>1, ReadablePlaces DEF ReadsFit
  <2> QED
    BY <1>1, <2>1, <2>2, <2>3
<1>4. NodeFits(t, next, ds)
  BY <1>1, <1>2, <1>3 DEF NodeFits, Listed, Operators
<1>5. /\ c.at \notin {"operand", "next argument", "type", "typed", "member", "arguments"}
      /\ c.at \notin {"close group", "close index", "after argument"}
      /\ Len(t) > 0 /\ t[Len(t)] # "."
  BY <1>1
<1> QED
  BY <1>1, <1>4, <1>5, Zenon DEF TopFits

\* The other places a token leads to.
LEMMA PlaceFits ==
    ASSUME NEW s \in Seq(Lexeme), NEW peek, NEW t, GoesOn(s, peek, t), NEW next,
           NEW cs \in Seq(Calls), cs # <<>>, NEW ds, NEW c, Replaced(cs, ds, c)
    PROVE  \/ c.at = "type" /\ peek = "new"
           \/ c.at = "typed" /\ peek = "identifier" /\ Len(s) # 0 /\ s[Len(s)] = "new"
           \/ c.at = "arguments" /\ c.node = "conditional" /\ peek = "?"
           \/ c.at = "next argument" /\ peek \in {"(", ","}
           \/ c.at = "member" /\ peek = "."
           => TopFits(t, next, ds)
<1>1. /\ Len(t) \in Nat \ {0} /\ t[Len(t)] = peek
      /\ Len(s) # 0 => Len(t) > 1 /\ t[Len(t) - 1] = s[Len(s)]
      /\ ds[Len(ds)] = c
  BY AfterToken
<1>2. CASE c.at = "type" /\ peek = "new"
  BY <1>1, <1>2 DEF TopFits
<1>3. CASE c.at = "typed" /\ peek = "identifier" /\ Len(s) # 0 /\ s[Len(s)] = "new"
  BY <1>1, <1>3 DEF TopFits, Typed
<1>4. CASE c.at = "arguments" /\ c.node = "conditional" /\ peek = "?"
  BY <1>1, <1>4 DEF TopFits
<1>5. CASE c.at = "next argument" /\ peek \in {"(", ","}
  <2>1. /\ c.at \notin {"operand", "type", "typed", "member", "arguments", "tail"}
        /\ c.at \notin {"close group", "close index", "after argument"}
    BY <1>5
  <2>2. Len(t) > 0
    BY <1>1
  <2>3. peek # "." /\ peek \in Before
    BY <1>5 DEF Before
  <2> QED
    BY <1>1, <1>5, <2>1, <2>2, <2>3, Zenon DEF TopFits
<1>6. CASE c.at = "member" /\ peek = "."
  BY <1>1, <1>6 DEF TopFits
<1> QED
  BY <1>2, <1>3, <1>4, <1>5, <1>6

--------------------------------------------------------------------------------
(* The steps of the model *)

\* What of a call may go on after a token.
Continues(s, peek, cs, c) ==
    LET top == cs[Len(cs)]
    IN /\ c \in Calls /\ CallFits(c) /\ c.at \notin Waiting /\ c.at # "operand"
       /\ c.min = top.min /\ Len(cs) <= DepthLimit /\ peek \notin {"eof", "="}
       /\ peek = "(" <=> top.at = "arguments"
       /\ c.reads = top.reads \cup NewReads(s, peek)
       /\ NewReads(s, peek) # {} => c.at # "arguments"
       /\ Inward(c) = Inward(top) + Delta(peek)
       /\ peek \in {"+", "*", "not"} => Len(s) > 0 /\ s[Len(s)] = "."
       /\ Operated(c) <=> Operated(top)

Parsing == result.node = "parsing" /\ result.reads = {} /\ ParsingInv(text, seen, calls)

\* take()
LEMMA AdvanceFact ==
    ASSUME text \in Seq(Lexeme), seen \in Lexeme, Advance
    PROVE  /\ text' \in Seq(Lexeme) /\ seen' \in Lexeme /\ GoesOn(text, seen, text')
           /\ Len(text') < MaxLength \/ seen' = "eof"
<1>1. /\ text' \in Seq(Lexeme) /\ Len(text') = Len(text) + 1 /\ text'[Len(text) + 1] = seen
      /\ \A i \in 1 .. Len(text) : text'[i] = text[i]
  BY DEF Advance
<1>2. seen' \in Lexeme /\ (Len(text) + 1 < MaxLength \/ seen' = "eof")
  BY DEF Advance, Lexeme
<1> QED
  BY <1>1, <1>2 DEF GoesOn

\* The innermost call goes on.
LEMMA GoesFact ==
    ASSUME calls \in Seq(Calls), calls # <<>>, NEW c \in Calls, Goes(c)
    PROVE  calls' \in Seq(Calls) /\ Replaced(calls, calls', c) /\ result' = result
<1>1. PICK m \in Nat \ {0} : m = Len(calls)
  BY LastOfSeq
<1>2. calls' = [calls EXCEPT ![m] = c]
  BY <1>1 DEF Goes
<1>3. calls' \in Seq(Calls) /\ Len(calls') = m /\ calls'[m] = c /\ \A k \in 1 .. m - 1 : calls'[k] = calls[k]
  BY <1>1, <1>2
<1> QED
  BY <1>1, <1>3 DEF Goes, Replaced

\* It waits for another.
LEMMA WaitsFact ==
    ASSUME calls \in Seq(Calls), calls # <<>>, NEW c \in Calls, NEW minimum \in Nat, Waits(c, minimum)
    PROVE  calls' \in Seq(Calls) /\ Pushed(calls, calls', c, Call(minimum)) /\ result' = result
<1>1. PICK m \in Nat \ {0} : m = Len(calls)
  BY LastOfSeq
<1>2. Call(minimum) \in Calls
  BY DEF Call, Calls, Places, Nodes
<1>3. PICK cs \in Seq(Calls) : cs = [calls EXCEPT ![m] = c]
  <2>1. [calls EXCEPT ![m] = c] \in Seq(Calls)
    BY <1>1
  <2> QED
    BY <2>1, Zenon
<1>4. Len(cs) = m /\ cs[m] = c /\ \A k \in 1 .. m - 1 : cs[k] = calls[k]
  BY <1>1, <1>3
<1>5. calls' = Append(cs, Call(minimum))
  BY <1>1, <1>3 DEF Waits
<1>6. /\ calls' \in Seq(Calls) /\ Len(calls') = m + 1 /\ calls'[m + 1] = Call(minimum)
      /\ \A k \in 1 .. m : calls'[k] = cs[k]
  BY <1>2, <1>4, <1>5
<1> QED
  <2>1. 1 .. m = (1 .. m - 1) \cup {m}
    OBVIOUS
  <2>2. /\ Len(calls') = Len(calls) + 1 /\ calls'[Len(calls)] = c
        /\ calls'[Len(calls) + 1] = Call(minimum)
    BY <1>1, <1>4, <1>6, <2>1
  <2>3. \A k \in 1 .. Len(calls) - 1 : calls'[k] = calls[k]
    BY <1>1, <1>4, <1>6, <2>1
  <2> QED
    BY <1>6, <2>2, <2>3 DEF Waits, Pushed

\* A step that takes a token and goes on.
LEMMA TakeStep ==
    ASSUME Parsing, Advance, NEW c, Continues(text, seen, calls, c), Goes(c),
           TopFits(text', seen', calls')
    PROVE  Parsing'
<1>1. text \in Seq(Lexeme) /\ seen \in Lexeme /\ calls \in Seq(Calls) /\ calls # <<>>
  BY DEF Parsing, ParsingInv
<1>2. c \in Calls
  BY DEF Continues
<1>3. /\ text' \in Seq(Lexeme) /\ seen' \in Lexeme /\ GoesOn(text, seen, text')
      /\ Len(text') < MaxLength \/ seen' = "eof"
  BY <1>1, AdvanceFact
<1>4. calls' \in Seq(Calls) /\ Replaced(calls, calls', c) /\ result' = result
  BY <1>1, <1>2, GoesFact
<1>5. ParsingInv(text, seen, calls)
  BY DEF Parsing
<1>6. ParsingInv(text', seen', calls')
  BY <1>3, <1>4, <1>5, TakeAndGo DEF Continues
<1> QED
  BY <1>4, <1>6 DEF Parsing

\* What is known of the innermost call.
LEMMA TopFact ==
    ASSUME Parsing
    PROVE  /\ text \in Seq(Lexeme) /\ seen \in Lexeme /\ calls \in Seq(Calls) /\ calls # <<>>
           /\ Len(text) \in Nat /\ Len(calls) \in Nat \ {0}
           /\ calls[Len(calls)] = Top /\ Top \in Calls /\ CallFits(Top) /\ Top.at \notin Waiting
           /\ Top.at # "operand" => Len(calls) <= DepthLimit
           /\ Top.at # "member" => Len(text) = 0 \/ text[Len(text)] # "."
           /\ TopFits(text, seen, calls) /\ ReadsFit(text, calls)
<1>1. /\ text \in Seq(Lexeme) /\ seen \in Lexeme /\ calls \in Seq(Calls) /\ calls # <<>>
      /\ Stacked(calls) /\ Bounded(text, seen, calls) /\ TopFits(text, seen, calls)
      /\ ReadsFit(text, calls)
  BY DEF Parsing, ParsingInv
<1>2. /\ Len(text) \in Nat /\ Len(calls) \in Nat \ {0}
      /\ calls[Len(calls)] = Top /\ Top \in Calls
  BY <1>1, LastOfSeq DEF Top
<1>3. CallFits(Top) /\ Top.at \notin Waiting
  <2>1. PICK m \in Nat \ {0} : m = Len(calls)
    BY <1>2
  <2>2. m \in 1 .. m /\ ~ (m < m)
    BY <2>1
  <2> QED
    BY <1>1, <1>2, <2>1, <2>2 DEF Stacked
<1>4. Top.at # "operand" => Len(calls) <= DepthLimit
  BY <1>1, <1>2 DEF Bounded
<1>5. Top.at # "member" => Len(text) = 0 \/ text[Len(text)] # "."
  BY <1>1, <1>2 DEF TopFits
<1> QED
  BY <1>1, <1>2, <1>3, <1>4, <1>5

\* Nothing is kept of a text that fails.
LEMMA RejectStep == Reject => ExpressionInv'
<1> SUFFICES ASSUME Reject PROVE ExpressionInv'
  OBVIOUS
<1>1. result'.node = "failed" /\ result'.reads = {} /\ calls' = <<>> /\ text' = <<>>
  BY DEF Reject
<1>2. Len(text') = 0 /\ Len(calls') = 0
  BY <1>1
<1>3. ExpressionTypeOK'
  BY <1>1, <1>2, ExpressionAssumption DEF ExpressionTypeOK
<1>4. ExpressionIsExact'
  BY <1>1 DEF ExpressionIsExact, ReadsAreExact, TargetIsPlace, ExpressionParsed
<1> QED
  BY <1>1, <1>3, <1>4 DEF ExpressionInv

\* Where an operand begins, it may be a name, a literal, a type or a condition.
LEMMA SimpleStep == Parsing /\ Simple => Parsing' \/ Reject
<1> SUFFICES ASSUME Parsing, Simple PROVE Parsing' \/ Reject
  OBVIOUS
<1>1. /\ text \in Seq(Lexeme) /\ seen \in Lexeme /\ calls \in Seq(Calls) /\ calls # <<>>
      /\ Len(text) \in Nat /\ calls[Len(calls)] = Top /\ Top \in Calls /\ CallFits(Top)
      /\ Top.at # "member" => Len(text) = 0 \/ text[Len(text)] # "."
      /\ TopFits(text, seen, calls) /\ ReadsFit(text, calls)
  BY TopFact
<1>2. /\ Top.at = "operand" /\ Len(calls) <= DepthLimit /\ seen \notin {"not", "+", "("}
      /\ Top.reads = {} /\ Top.node \notin Operators
  BY <1>1 DEF Simple, At, Fits, CallFits
<1>3. /\ Len(text) = 0 \/ text[Len(text)] \in Before
      /\ Len(calls) = 1 => Len(text) = 0
  BY <1>1, <1>2 DEF TopFits
<1>4. CASE seen = "identifier"
  <2> DEFINE c == Tail1("identifier", {Len(text) + 1})
  <2>1. Advance /\ Goes(c)
    BY <1>4 DEF Simple
  <2>2. /\ c \in Calls /\ c.at = "tail" /\ c.node = "identifier" /\ c.min = Top.min
        /\ c.reads = {Len(text) + 1}
    <3>1. PICK n \in Nat : n = Len(text) + 1
      BY <1>1
    <3>2. {n} \in SUBSET Nat
      OBVIOUS
    <3> QED
      BY <1>1, <3>1, <3>2 DEF Tail1, Calls, Places, Nodes
  <2> HIDE DEF c
  <2>3. NewReads(text, seen) = {Len(text) + 1}
    BY <1>3, <1>4 DEF NewReads, Before
  <2>4. Continues(text, seen, calls, c)
    BY <1>1, <1>2, <1>4, <2>2, <2>3
       DEF Continues, CallFits, Waiting, Listing, Listed, Operators, Inward, Inside, Delta, Operated
  <2>5. TopFits(text', seen', calls')
    <3>1. GoesOn(text, "identifier", text') /\ Replaced(calls, calls', c)
      BY <1>1, <1>4, <2>1, <2>2, AdvanceFact, GoesFact
    <3> QED
      BY <1>1, <1>3, <2>2, <3>1, NameFits
  <2> QED
    BY <2>1, <2>4, <2>5, TakeStep
<1>5. CASE seen \in {"literal", "true", "string"}
  <2> DEFINE c == Tail1(seen, {})
  <2>1. Advance /\ Goes(c)
    BY <1>5 DEF Simple
  <2>2. c \in Calls /\ c.at = "tail" /\ c.node = seen /\ c.min = Top.min /\ c.reads = {}
    BY <1>1, <1>5 DEF Tail1, Calls, Places, Nodes
  <2> HIDE DEF c
  <2>3. NewReads(text, seen) = {}
    BY <1>5 DEF NewReads
  <2>4. Continues(text, seen, calls, c)
    BY <1>1, <1>2, <1>5, <2>2, <2>3
       DEF Continues, CallFits, Waiting, Listing, Listed, Operators, Inward, Inside, Delta, Operated
  <2>5. TopFits(text', seen', calls')
    <3>1. GoesOn(text, seen, text') /\ Replaced(calls, calls', c)
      BY <1>1, <2>1, <2>2, AdvanceFact, GoesFact
    <3>2. c.node \notin {"identifier", "none", "member", "index", "group"} \cup Operators \cup Listed
      BY <1>5, <2>2 DEF Operators, Listed
    <3> QED
      BY <1>1, <1>2, <1>5, <2>2, <3>1, <3>2, TailFits
  <2> QED
    BY <2>1, <2>4, <2>5, TakeStep
<1>6. CASE seen = "new"
  <2> DEFINE c == [Top EXCEPT !.at = "type"]
  <2>1. Advance /\ Goes(c)
    BY <1>6 DEF Simple
  <2>2. c \in Calls /\ c.at = "type" /\ c.node = Top.node /\ c.min = Top.min /\ c.reads = {}
    BY <1>1, <1>2 DEF Calls, Places, Nodes
  <2> HIDE DEF c
  <2>3. NewReads(text, seen) = {}
    BY <1>6 DEF NewReads
  <2>4. Continues(text, seen, calls, c)
    BY <1>1, <1>2, <1>6, <2>2, <2>3
       DEF Continues, CallFits, Waiting, Listing, Listed, Operators, Inward, Inside, Delta, Operated
  <2>5. TopFits(text', seen', calls')
    <3>1. GoesOn(text, seen, text') /\ Replaced(calls, calls', c)
      BY <1>1, <2>1, <2>2, AdvanceFact, GoesFact
    <3> QED
      BY <1>1, <1>6, <2>2, <3>1, PlaceFits
  <2> QED
    BY <2>1, <2>4, <2>5, TakeStep
<1>7. CASE seen = "?"
  <2> DEFINE c == [Top EXCEPT !.at = "arguments", !.node = "conditional"]
  <2>1. Advance /\ Goes(c)
    BY <1>7 DEF Simple
  <2>2. c \in Calls /\ c.at = "arguments" /\ c.node = "conditional" /\ c.min = Top.min /\ c.reads = {}
    BY <1>1, <1>2 DEF Calls, Places, Listing, Nodes, Listed
  <2> HIDE DEF c
  <2>3. NewReads(text, seen) = {}
    BY <1>7 DEF NewReads
  <2>4. Continues(text, seen, calls, c)
    BY <1>1, <1>2, <1>7, <2>2, <2>3
       DEF Continues, CallFits, Waiting, Listing, Listed, Operators, Inward, Inside, Delta, Operated
  <2>5. TopFits(text', seen', calls')
    <3>1. GoesOn(text, seen, text') /\ Replaced(calls, calls', c)
      BY <1>1, <2>1, <2>2, AdvanceFact, GoesFact
    <3> QED
      BY <1>1, <1>7, <2>2, <3>1, PlaceFits
  <2> QED
    BY <2>1, <2>4, <2>5, TakeStep
<1>8. CASE seen \notin {"identifier", "literal", "true", "string", "new", "?"}
  BY <1>8 DEF Simple
<1> QED
  BY <1>4, <1>5, <1>6, <1>7, <1>8

\* A bracket leads into the arguments, or out of them.
LEMMA InwardFact ==
    ASSUME NEW c, NEW d, NEW peek,
           peek \in {"(", "["} => c.at \notin Inside /\ d.at \in Inside,
           peek \in {")", "]"} => c.at \in Inside /\ d.at \notin Inside,
           peek \notin {"(", "[", ")", "]"} => (c.at \in Inside <=> d.at \in Inside)
    PROVE  Inward(d) = Inward(c) + Delta(peek)
<1>1. CASE peek \in {"(", "["}
  BY <1>1 DEF Inward, Delta
<1>2. CASE peek \in {")", "]"}
  BY <1>2 DEF Inward, Delta
<1>3. CASE peek \notin {"(", "[", ")", "]"}
  BY <1>3 DEF Inward, Delta
<1> QED
  BY <1>1, <1>2, <1>3

\* A step that takes no token, and changes the innermost call alone, keeps what
\* is said of the others.
LEMMA StayStep ==
    ASSUME Parsing, UNCHANGED <<text, seen>>, NEW c \in Calls, Goes(c), CallFits(c),
           c.at \notin Waiting, c.at # "operand", c.min = Top.min, Len(calls) <= DepthLimit,
           Inward(c) = Inward(Top), Operated(c) <=> Operated(Top),
           c.reads = Top.reads \/ (Top.reads = {Len(text)} /\ c.reads = {}),
           Top.at # "arguments",
           c.reads = Top.reads /\ c.at = "arguments" => ~ Names(text, Len(text)),
           c.reads # Top.reads =>
               c.at = "arguments" /\ \A k \in 1 .. Len(calls) - 1 : Len(text) \notin calls[k].reads,
           TopFits(text, seen, calls')
    PROVE  Parsing'
<1> DEFINE m == Len(calls)
<1>1. /\ text \in Seq(Lexeme) /\ seen \in Lexeme /\ calls \in Seq(Calls) /\ calls # <<>>
      /\ Len(text) \in Nat /\ calls[m] = Top /\ Top \in Calls /\ ReadsFit(text, calls)
  BY TopFact
<1>2. /\ Stacked(calls) /\ Bounded(text, seen, calls)
      /\ DepthFits(text, calls) /\ OperatorsFit(text, calls)
  BY DEF Parsing, ParsingInv
<1>3. calls' \in Seq(Calls) /\ Replaced(calls, calls', c) /\ result' = result
  BY <1>1, GoesFact
<1>4. /\ m \in Nat \ {0} /\ Len(calls') = m /\ calls' # <<>>
      /\ ReadBy(calls, m) = ReadBy(calls, m - 1) \cup Top.reads
      /\ ReadBy(calls', m) = ReadBy(calls, m - 1) \cup c.reads
      /\ InsideOf(calls, m) \in Nat
      /\ InsideOf(calls', m) = InsideOf(calls, m) - Inward(Top) + Inward(c)
      /\ Operated(calls'[1]) <=> Operated(calls[1])
      /\ Stacked(calls')
  BY <1>1, <1>2, <1>3, ReplacedFact
<1>5. calls'[m] = c
  BY <1>3 DEF Replaced
<1>6. ReadsFit(text, calls')
  <2>1. /\ ReadBy(calls, m) = Readable(text, "tail")
        /\ Readable(text, c.at) = IF c.at = "arguments" THEN Readable(text, "tail") \ {Len(text)}
                                  ELSE Readable(text, "tail")
        /\ ~ Names(text, Len(text)) => Readable(text, c.at) = Readable(text, "tail")
    BY <1>1, ReadablePlaces DEF ReadsFit
  <2>2. CASE c.reads = Top.reads
    BY <1>4, <1>5, <2>1, <2>2 DEF ReadsFit
  <2>3. CASE c.reads # Top.reads
    <3>1. Len(text) \notin ReadBy(calls, m - 1)
      BY <2>3 DEF ReadBy
    <3> QED
      BY <1>4, <1>5, <2>1, <2>3, <3>1 DEF ReadsFit
  <2> QED
    BY <2>2, <2>3
<1>7. InsideOf(calls', m) = InsideOf(calls, m)
  BY <1>4 DEF Inward
<1>8. DepthFits(text, calls') /\ OperatorsFit(text, calls')
  BY <1>2, <1>4, <1>7 DEF DepthFits, OperatorsFit, InsideOf
<1>9. Bounded(text, seen, calls')
  BY <1>2, <1>4 DEF Bounded
<1> QED
  BY <1>1, <1>3, <1>4, <1>6, <1>8, <1>9 DEF Parsing, ParsingInv

\* The arguments begin with a bracket.
LEMMA OpenArgumentsStep == Parsing /\ OpenArguments => Parsing' \/ Reject
<1> SUFFICES ASSUME Parsing, OpenArguments PROVE Parsing' \/ Reject
  OBVIOUS
<1>1. /\ text \in Seq(Lexeme) /\ seen \in Lexeme /\ calls \in Seq(Calls) /\ calls # <<>>
      /\ Len(text) \in Nat /\ calls[Len(calls)] = Top /\ Top \in Calls /\ CallFits(Top)
      /\ Top.at # "operand" => Len(calls) <= DepthLimit
      /\ Top.at # "member" => Len(text) = 0 \/ text[Len(text)] # "."
      /\ TopFits(text, seen, calls) /\ ReadsFit(text, calls)
  BY TopFact
<1>2. Top.at = "arguments" /\ Top.node \in Listed
  BY <1>1 DEF OpenArguments, At, CallFits, Listing
<1>3. CASE seen = "("
  <2> DEFINE c == [Top EXCEPT !.at = "next argument"]
  <2>1. Advance /\ Goes(c)
    BY <1>3 DEF OpenArguments
  <2>2. c \in Calls /\ c.min = Top.min /\ c.at = "next argument" /\ c.node = Top.node /\ c.reads = Top.reads
    BY <1>1, <1>2 DEF Tail1, Calls, Places, Listing, Nodes
  <2> HIDE DEF c
  <2>3. NewReads(text, seen) = {}
    BY <1>2, <1>3 DEF NewReads
  <2>4. CallFits(c) /\ c.at \notin Waiting /\ (Operated(c) <=> Operated(Top))
    BY <1>1, <1>2, <1>3, <2>2 DEF CallFits, Waiting, Listing, Listed, Operators, Operated
  <2>5. Inward(c) = Inward(Top) + Delta(seen)
    <3>1. /\ seen \in {"(", "["} => Top.at \notin Inside /\ c.at \in Inside
          /\ seen \in {")", "]"} => Top.at \in Inside /\ c.at \notin Inside
          /\ seen \notin {"(", "[", ")", "]"} => (Top.at \in Inside <=> c.at \in Inside)
      BY <1>2, <1>3, <2>2 DEF Inside
    <3> QED
      BY <3>1, InwardFact
  <2>6. Continues(text, seen, calls, c)
    BY <1>1, <1>2, <1>3, <2>2, <2>3, <2>4, <2>5 DEF Continues
  <2>7. TopFits(text', seen', calls')
    <3>1. GoesOn(text, seen, text') /\ Replaced(calls, calls', c)
      BY <1>1, <2>1, <2>2, AdvanceFact, GoesFact
    <3> QED
      BY <1>1, <1>2, <1>3, <2>2, <3>1, PlaceFits
  <2> QED
    BY <2>1, <2>6, <2>7, TakeStep
<1>4. CASE seen # "("
  BY <1>4 DEF OpenArguments
<1> QED
  BY <1>3, <1>4

\* After an argument come the end or a comma.
LEMMA AfterArgumentStep == Parsing /\ AfterArgument => Parsing' \/ Reject
<1> SUFFICES ASSUME Parsing, AfterArgument PROVE Parsing' \/ Reject
  OBVIOUS
<1>1. /\ text \in Seq(Lexeme) /\ seen \in Lexeme /\ calls \in Seq(Calls) /\ calls # <<>>
      /\ Len(text) \in Nat /\ calls[Len(calls)] = Top /\ Top \in Calls /\ CallFits(Top)
      /\ Top.at # "operand" => Len(calls) <= DepthLimit
      /\ Top.at # "member" => Len(text) = 0 \/ text[Len(text)] # "."
      /\ TopFits(text, seen, calls) /\ ReadsFit(text, calls)
  BY TopFact
<1>2. Top.at = "after argument" /\ Top.node \in Listed
  BY <1>1 DEF AfterArgument, At, CallFits, Listing
<1>3. CASE seen = ")"
  <2> DEFINE c == [Top EXCEPT !.at = "tail"]
  <2>1. Advance /\ Goes(c)
    BY <1>3 DEF AfterArgument
  <2>2. c \in Calls /\ c.min = Top.min /\ c.at = "tail" /\ c.node = Top.node /\ c.reads = Top.reads
    BY <1>1, <1>2 DEF Tail1, Calls, Places, Listing, Nodes
  <2> HIDE DEF c
  <2>3. NewReads(text, seen) = {}
    BY <1>2, <1>3 DEF NewReads
  <2>4. CallFits(c) /\ c.at \notin Waiting /\ (Operated(c) <=> Operated(Top))
    BY <1>1, <1>2, <1>3, <2>2 DEF CallFits, Waiting, Listing, Listed, Operators, Operated
  <2>5. Inward(c) = Inward(Top) + Delta(seen)
    <3>1. /\ seen \in {"(", "["} => Top.at \notin Inside /\ c.at \in Inside
          /\ seen \in {")", "]"} => Top.at \in Inside /\ c.at \notin Inside
          /\ seen \notin {"(", "[", ")", "]"} => (Top.at \in Inside <=> c.at \in Inside)
      BY <1>2, <1>3, <2>2 DEF Inside
    <3> QED
      BY <3>1, InwardFact
  <2>6. Continues(text, seen, calls, c)
    BY <1>1, <1>2, <1>3, <2>2, <2>3, <2>4, <2>5 DEF Continues
  <2>7. TopFits(text', seen', calls')
    <3>1. GoesOn(text, seen, text') /\ Replaced(calls, calls', c)
      BY <1>1, <2>1, <2>2, AdvanceFact, GoesFact
    <3>2. c.node \notin {"identifier", "none", "member", "index", "group", "literal", "true", "string"} \cup Operators
      BY <1>1, <1>2, <1>3, <2>2 DEF Operators, Listed
    <3> QED
      BY <1>1, <1>2, <1>3, <2>2, <3>1, <3>2, TailFits
  <2> QED
    BY <2>1, <2>6, <2>7, TakeStep
<1>4. CASE seen = ","
  <2> DEFINE c == [Top EXCEPT !.at = "next argument"]
  <2>1. Advance /\ Goes(c)
    BY <1>4 DEF AfterArgument
  <2>2. c \in Calls /\ c.min = Top.min /\ c.at = "next argument" /\ c.node = Top.node /\ c.reads = Top.reads
    BY <1>1, <1>2 DEF Tail1, Calls, Places, Listing, Nodes
  <2> HIDE DEF c
  <2>3. NewReads(text, seen) = {}
    BY <1>2, <1>4 DEF NewReads
  <2>4. CallFits(c) /\ c.at \notin Waiting /\ (Operated(c) <=> Operated(Top))
    BY <1>1, <1>2, <1>4, <2>2 DEF CallFits, Waiting, Listing, Listed, Operators, Operated
  <2>5. Inward(c) = Inward(Top) + Delta(seen)
    <3>1. /\ seen \in {"(", "["} => Top.at \notin Inside /\ c.at \in Inside
          /\ seen \in {")", "]"} => Top.at \in Inside /\ c.at \notin Inside
          /\ seen \notin {"(", "[", ")", "]"} => (Top.at \in Inside <=> c.at \in Inside)
      BY <1>2, <1>4, <2>2 DEF Inside
    <3> QED
      BY <3>1, InwardFact
  <2>6. Continues(text, seen, calls, c)
    BY <1>1, <1>2, <1>4, <2>2, <2>3, <2>4, <2>5 DEF Continues
  <2>7. TopFits(text', seen', calls')
    <3>1. GoesOn(text, seen, text') /\ Replaced(calls, calls', c)
      BY <1>1, <2>1, <2>2, AdvanceFact, GoesFact
    <3> QED
      BY <1>1, <1>2, <1>4, <2>2, <3>1, PlaceFits
  <2> QED
    BY <2>1, <2>6, <2>7, TakeStep
<1>5. CASE seen \notin {")", ","}
  BY <1>5 DEF AfterArgument
<1> QED
  BY <1>3, <1>4, <1>5

\* Strings side by side are one.
LEMMA StringsStep == Parsing /\ Strings => Parsing' \/ Reject
<1> SUFFICES ASSUME Parsing, Strings PROVE Parsing' \/ Reject
  OBVIOUS
<1>1. /\ text \in Seq(Lexeme) /\ seen \in Lexeme /\ calls \in Seq(Calls) /\ calls # <<>>
      /\ Len(text) \in Nat /\ calls[Len(calls)] = Top /\ Top \in Calls /\ CallFits(Top)
      /\ Top.at # "operand" => Len(calls) <= DepthLimit
      /\ Top.at # "member" => Len(text) = 0 \/ text[Len(text)] # "."
      /\ TopFits(text, seen, calls) /\ ReadsFit(text, calls)
  BY TopFact
<1>2. Top.at = "tail" /\ Top.node = "string" /\ seen = "string"
  BY DEF Strings, At
<1>3. Parsing'
  <2> DEFINE c == Top
  <2>1. Advance /\ Goes(c)
    BY <1>2 DEF Strings
  <2>2. c \in Calls /\ c.min = Top.min /\ c.at = "tail" /\ c.node = "string" /\ c.reads = Top.reads
    BY <1>1, <1>2 DEF Tail1, Calls, Places, Listing, Nodes
  <2> HIDE DEF c
  <2>3. NewReads(text, seen) = {}
    BY <1>2 DEF NewReads
  <2>4. CallFits(c) /\ c.at \notin Waiting /\ (Operated(c) <=> Operated(Top))
    BY <1>1, <1>2, <2>2 DEF CallFits, Waiting, Listing, Listed, Operators, Operated
  <2>5. Inward(c) = Inward(Top) + Delta(seen)
    <3>1. /\ seen \in {"(", "["} => Top.at \notin Inside /\ c.at \in Inside
          /\ seen \in {")", "]"} => Top.at \in Inside /\ c.at \notin Inside
          /\ seen \notin {"(", "[", ")", "]"} => (Top.at \in Inside <=> c.at \in Inside)
      BY <1>2, <2>2 DEF Inside
    <3> QED
      BY <3>1, InwardFact
  <2>6. Continues(text, seen, calls, c)
    BY <1>1, <1>2, <2>2, <2>3, <2>4, <2>5 DEF Continues
  <2>7. TopFits(text', seen', calls')
    <3>1. GoesOn(text, seen, text') /\ Replaced(calls, calls', c)
      BY <1>1, <2>1, <2>2, AdvanceFact, GoesFact
    <3>2. c.node \notin {"identifier", "none", "member", "index", "group"} \cup Operators \cup Listed
      BY <1>1, <1>2, <2>2 DEF Operators, Listed
    <3> QED
      BY <1>1, <1>2, <2>2, <3>1, <3>2, TailFits
  <2> QED
    BY <2>1, <2>6, <2>7, TakeStep
<1> QED
  BY <1>3

\* A dot is followed by the name of a member.
LEMMA MemberStep == Parsing /\ Member => Parsing' \/ Reject
<1> SUFFICES ASSUME Parsing, Member PROVE Parsing' \/ Reject
  OBVIOUS
<1>1. /\ text \in Seq(Lexeme) /\ seen \in Lexeme /\ calls \in Seq(Calls) /\ calls # <<>>
      /\ Len(text) \in Nat /\ calls[Len(calls)] = Top /\ Top \in Calls /\ CallFits(Top)
      /\ Top.at # "operand" => Len(calls) <= DepthLimit
      /\ Top.at # "member" => Len(text) = 0 \/ text[Len(text)] # "."
      /\ TopFits(text, seen, calls) /\ ReadsFit(text, calls)
  BY TopFact
<1>2. Top.at = "tail" /\ seen = "." /\ Top.node \notin Operators
  BY <1>1 DEF Member, At, TopFits, NodeFits, Postfix
<1>3. Parsing'
  <2> DEFINE c == [Top EXCEPT !.at = "member"]
  <2>1. Advance /\ Goes(c)
    BY <1>2 DEF Member
  <2>2. c \in Calls /\ c.min = Top.min /\ c.at = "member" /\ c.node = Top.node /\ c.reads = Top.reads
    BY <1>1, <1>2 DEF Tail1, Calls, Places, Listing, Nodes
  <2> HIDE DEF c
  <2>3. NewReads(text, seen) = {}
    BY <1>2 DEF NewReads
  <2>4. CallFits(c) /\ c.at \notin Waiting /\ (Operated(c) <=> Operated(Top))
    BY <1>1, <1>2, <2>2 DEF CallFits, Waiting, Listing, Listed, Operators, Operated
  <2>5. Inward(c) = Inward(Top) + Delta(seen)
    <3>1. /\ seen \in {"(", "["} => Top.at \notin Inside /\ c.at \in Inside
          /\ seen \in {")", "]"} => Top.at \in Inside /\ c.at \notin Inside
          /\ seen \notin {"(", "[", ")", "]"} => (Top.at \in Inside <=> c.at \in Inside)
      BY <1>2, <2>2 DEF Inside
    <3> QED
      BY <3>1, InwardFact
  <2>6. Continues(text, seen, calls, c)
    BY <1>1, <1>2, <2>2, <2>3, <2>4, <2>5 DEF Continues
  <2>7. TopFits(text', seen', calls')
    <3>1. GoesOn(text, seen, text') /\ Replaced(calls, calls', c)
      BY <1>1, <2>1, <2>2, AdvanceFact, GoesFact
    <3> QED
      BY <1>1, <1>2, <2>2, <3>1, PlaceFits
  <2> QED
    BY <2>1, <2>6, <2>7, TakeStep
<1> QED
  BY <1>3

\* Any word may be the name of a member.
LEMMA MemberNameStep == Parsing /\ MemberName => Parsing' \/ Reject
<1> SUFFICES ASSUME Parsing, MemberName PROVE Parsing' \/ Reject
  OBVIOUS
<1>1. /\ text \in Seq(Lexeme) /\ seen \in Lexeme /\ calls \in Seq(Calls) /\ calls # <<>>
      /\ Len(text) \in Nat /\ calls[Len(calls)] = Top /\ Top \in Calls /\ CallFits(Top)
      /\ Top.at # "operand" => Len(calls) <= DepthLimit
      /\ Top.at # "member" => Len(text) = 0 \/ text[Len(text)] # "."
      /\ TopFits(text, seen, calls) /\ ReadsFit(text, calls)
  BY TopFact
<1>2. /\ Top.at = "member" /\ Len(text) # 0 /\ text[Len(text)] = "."
      /\ Top.node \notin Operators
  <2>1. Top.at = "member"
    BY DEF MemberName, At
  <2>2. Len(text) # 0 /\ text[Len(text)] = "."
    BY <1>1, <2>1 DEF TopFits
  <2>3. Top.node \notin Operators
    BY <1>1, <2>1 DEF CallFits
  <2> QED
    BY <2>1, <2>2, <2>3
<1>3. CASE seen \in NameLike
  <2> DEFINE c == Tail1("member", Top.reads)
  <2>1. Advance /\ Goes(c)
    BY <1>3 DEF MemberName
  <2>2. c \in Calls /\ c.min = Top.min /\ c.at = "tail" /\ c.node = "member" /\ c.reads = Top.reads
    BY <1>1, <1>2 DEF Tail1, Calls, Places, Listing, Nodes
  <2> HIDE DEF c
  <2>3. NewReads(text, seen) = {}
    BY <1>2, <1>3 DEF NewReads
  <2>4. CallFits(c) /\ c.at \notin Waiting /\ (Operated(c) <=> Operated(Top))
    BY <1>1, <1>2, <1>3, <2>2 DEF CallFits, Waiting, Listing, Listed, Operators, Operated
  <2>5. Inward(c) = Inward(Top) + Delta(seen)
    <3>1. /\ seen \in {"(", "["} => Top.at \notin Inside /\ c.at \in Inside
          /\ seen \in {")", "]"} => Top.at \in Inside /\ c.at \notin Inside
          /\ seen \notin {"(", "[", ")", "]"} => (Top.at \in Inside <=> c.at \in Inside)
      BY <1>2, <1>3, <2>2 DEF Inside, NameLike
    <3> QED
      BY <3>1, InwardFact
  <2>6. Continues(text, seen, calls, c)
    BY <1>1, <1>2, <1>3, <2>2, <2>3, <2>4, <2>5 DEF Continues, NameLike
  <2>7. TopFits(text', seen', calls')
    <3>1. GoesOn(text, seen, text') /\ Replaced(calls, calls', c)
      BY <1>1, <2>1, <2>2, AdvanceFact, GoesFact
    <3>2. c.node \notin {"identifier", "none", "index", "group", "literal", "true", "string"} \cup Operators \cup Listed
      BY <1>1, <1>2, <1>3, <2>2 DEF Operators, Listed
    <3>3. seen \notin {".", ")", "]"}
      BY <1>3 DEF NameLike
    <3> QED
      BY <1>1, <1>2, <1>3, <2>2, <3>1, <3>2, <3>3, TailFits
  <2> QED
    BY <2>1, <2>6, <2>7, TakeStep
<1>4. CASE seen \notin NameLike
  BY <1>4 DEF MemberName
<1> QED
  BY <1>3, <1>4

\* What is open is closed by its bracket.
LEMMA CloseStep == Parsing /\ Close => Parsing' \/ Reject
<1> SUFFICES ASSUME Parsing, Close PROVE Parsing' \/ Reject
  OBVIOUS
<1>1. /\ text \in Seq(Lexeme) /\ seen \in Lexeme /\ calls \in Seq(Calls) /\ calls # <<>>
      /\ Len(text) \in Nat /\ calls[Len(calls)] = Top /\ Top \in Calls /\ CallFits(Top)
      /\ Top.at # "operand" => Len(calls) <= DepthLimit
      /\ Top.at # "member" => Len(text) = 0 \/ text[Len(text)] # "."
      /\ TopFits(text, seen, calls) /\ ReadsFit(text, calls)
  BY TopFact
<1>2. Top.at \in {"close group", "close index"} /\ Top.node \notin Operators /\ Len(text) # 0
  <2>1. Top.at \in {"close group", "close index"}
    BY DEF Close, At
  <2>2. Len(text) # 0
    <3>1. Top.at # "operand"
      BY <2>1
    <3>2. Len(text) > 0
      BY <1>1, <3>1, Zenon DEF TopFits
    <3> QED
      BY <1>1, <3>2
  <2>3. Top.node \notin Operators
    BY <1>1, <2>1 DEF CallFits
  <2> QED
    BY <2>1, <2>2, <2>3
<1>3. CASE Top.at = "close group" /\ seen = ")"
  <2> DEFINE c == Tail1("group", Top.reads)
  <2>1. Advance /\ Goes(c)
    BY <1>3 DEF Close
  <2>2. c \in Calls /\ c.min = Top.min /\ c.at = "tail" /\ c.node = "group" /\ c.reads = Top.reads
    BY <1>1, <1>2 DEF Tail1, Calls, Places, Listing, Nodes
  <2> HIDE DEF c
  <2>3. NewReads(text, seen) = {}
    BY <1>2, <1>3 DEF NewReads
  <2>4. CallFits(c) /\ c.at \notin Waiting /\ (Operated(c) <=> Operated(Top))
    BY <1>1, <1>2, <1>3, <2>2 DEF CallFits, Waiting, Listing, Listed, Operators, Operated
  <2>5. Inward(c) = Inward(Top) + Delta(seen)
    <3>1. /\ seen \in {"(", "["} => Top.at \notin Inside /\ c.at \in Inside
          /\ seen \in {")", "]"} => Top.at \in Inside /\ c.at \notin Inside
          /\ seen \notin {"(", "[", ")", "]"} => (Top.at \in Inside <=> c.at \in Inside)
      BY <1>2, <1>3, <2>2 DEF Inside
    <3> QED
      BY <3>1, InwardFact
  <2>6. Continues(text, seen, calls, c)
    BY <1>1, <1>2, <1>3, <2>2, <2>3, <2>4, <2>5 DEF Continues
  <2>7. TopFits(text', seen', calls')
    <3>1. GoesOn(text, seen, text') /\ Replaced(calls, calls', c)
      BY <1>1, <2>1, <2>2, AdvanceFact, GoesFact
    <3>2. c.node \notin {"identifier", "none", "member", "index", "literal", "true", "string"} \cup Operators \cup Listed
      BY <1>1, <1>2, <1>3, <2>2 DEF Operators, Listed
    <3> QED
      BY <1>1, <1>2, <1>3, <2>2, <3>1, <3>2, TailFits
  <2> QED
    BY <2>1, <2>6, <2>7, TakeStep
<1>4. CASE Top.at = "close index" /\ seen = "]"
  <2> DEFINE c == Tail1("index", Top.reads)
  <2>1. Advance /\ Goes(c)
    BY <1>4 DEF Close
  <2>2. c \in Calls /\ c.min = Top.min /\ c.at = "tail" /\ c.node = "index" /\ c.reads = Top.reads
    BY <1>1, <1>2 DEF Tail1, Calls, Places, Listing, Nodes
  <2> HIDE DEF c
  <2>3. NewReads(text, seen) = {}
    BY <1>2, <1>4 DEF NewReads
  <2>4. CallFits(c) /\ c.at \notin Waiting /\ (Operated(c) <=> Operated(Top))
    BY <1>1, <1>2, <1>4, <2>2 DEF CallFits, Waiting, Listing, Listed, Operators, Operated
  <2>5. Inward(c) = Inward(Top) + Delta(seen)
    <3>1. /\ seen \in {"(", "["} => Top.at \notin Inside /\ c.at \in Inside
          /\ seen \in {")", "]"} => Top.at \in Inside /\ c.at \notin Inside
          /\ seen \notin {"(", "[", ")", "]"} => (Top.at \in Inside <=> c.at \in Inside)
      BY <1>2, <1>4, <2>2 DEF Inside
    <3> QED
      BY <3>1, InwardFact
  <2>6. Continues(text, seen, calls, c)
    BY <1>1, <1>2, <1>4, <2>2, <2>3, <2>4, <2>5 DEF Continues
  <2>7. TopFits(text', seen', calls')
    <3>1. GoesOn(text, seen, text') /\ Replaced(calls, calls', c)
      BY <1>1, <2>1, <2>2, AdvanceFact, GoesFact
    <3>2. c.node \notin {"identifier", "none", "member", "group", "literal", "true", "string"} \cup Operators \cup Listed
      BY <1>1, <1>2, <1>4, <2>2 DEF Operators, Listed
    <3> QED
      BY <1>1, <1>2, <1>4, <2>2, <3>1, <3>2, TailFits
  <2> QED
    BY <2>1, <2>6, <2>7, TakeStep
<1>5. CASE seen # IF Top.at = "close group" THEN ")" ELSE "]"
  BY <1>5 DEF Close
<1> QED
  BY <1>2, <1>3, <1>4, <1>5

\* After new come the name of a type or the arguments.
LEMMA NewTypeStep == Parsing /\ NewType => Parsing' \/ Reject
<1> SUFFICES ASSUME Parsing, NewType PROVE Parsing' \/ Reject
  OBVIOUS
<1>1. /\ text \in Seq(Lexeme) /\ seen \in Lexeme /\ calls \in Seq(Calls) /\ calls # <<>>
      /\ Len(text) \in Nat /\ calls[Len(calls)] = Top /\ Top \in Calls /\ CallFits(Top)
      /\ Top.at # "operand" => Len(calls) <= DepthLimit
      /\ Top.at # "member" => Len(text) = 0 \/ text[Len(text)] # "."
      /\ TopFits(text, seen, calls) /\ ReadsFit(text, calls)
  BY TopFact
<1>2. /\ Top.at = "type" /\ Len(text) # 0 /\ text[Len(text)] = "new"
      /\ Top.node \notin Operators /\ Top.reads = {}
  <2>1. Top.at = "type"
    BY DEF NewType, At
  <2>2. Len(text) # 0 /\ text[Len(text)] = "new"
    BY <1>1, <2>1 DEF TopFits
  <2>3. Top.node \notin Operators /\ Top.reads = {}
    BY <1>1, <2>1 DEF CallFits
  <2> QED
    BY <2>1, <2>2, <2>3
<1>3. CASE seen = "identifier"
  <2> DEFINE c == [Top EXCEPT !.at = "typed"]
  <2>1. Advance /\ Goes(c)
    BY <1>3 DEF NewType
  <2>2. c \in Calls /\ c.min = Top.min /\ c.at = "typed" /\ c.node = Top.node /\ c.reads = Top.reads
    BY <1>1, <1>2 DEF Tail1, Calls, Places, Listing, Nodes
  <2> HIDE DEF c
  <2>3. NewReads(text, seen) = {}
    BY <1>2, <1>3 DEF NewReads
  <2>4. CallFits(c) /\ c.at \notin Waiting /\ (Operated(c) <=> Operated(Top))
    BY <1>1, <1>2, <1>3, <2>2 DEF CallFits, Waiting, Listing, Listed, Operators, Operated
  <2>5. Inward(c) = Inward(Top) + Delta(seen)
    <3>1. /\ seen \in {"(", "["} => Top.at \notin Inside /\ c.at \in Inside
          /\ seen \in {")", "]"} => Top.at \in Inside /\ c.at \notin Inside
          /\ seen \notin {"(", "[", ")", "]"} => (Top.at \in Inside <=> c.at \in Inside)
      BY <1>2, <1>3, <2>2 DEF Inside
    <3> QED
      BY <3>1, InwardFact
  <2>6. Continues(text, seen, calls, c)
    BY <1>1, <1>2, <1>3, <2>2, <2>3, <2>4, <2>5 DEF Continues
  <2>7. TopFits(text', seen', calls')
    <3>1. GoesOn(text, seen, text') /\ Replaced(calls, calls', c)
      BY <1>1, <2>1, <2>2, AdvanceFact, GoesFact
    <3> QED
      BY <1>1, <1>2, <1>3, <2>2, <3>1, PlaceFits
  <2> QED
    BY <2>1, <2>6, <2>7, TakeStep
<1>4. CASE seen = "("
  <2> DEFINE c == [Top EXCEPT !.at = "arguments", !.node = "new"]
  <2>1. Goes(c) /\ UNCHANGED <<text, seen>>
    BY <1>4 DEF NewType
  <2>2. c \in Calls /\ c.min = Top.min /\ c.at = "arguments" /\ c.node = "new" /\ c.reads = Top.reads
    BY <1>1, <1>2 DEF Calls, Places, Listing, Nodes, Listed
  <2> HIDE DEF c
  <2>3. CallFits(c) /\ c.at \notin Waiting /\ (Operated(c) <=> Operated(Top))
    BY <1>1, <1>2, <1>4, <2>2 DEF CallFits, Waiting, Listing, Listed, Operators, Operated
  <2>4. Inward(c) = Inward(Top)
    <3>1. c.at \notin Inside /\ Top.at \notin Inside
      BY <1>2, <1>4, <2>2 DEF Inside
    <3> QED
      BY <3>1 DEF Inward
  <2>5. calls'[Len(calls')] = c
    BY <1>1, <2>1, <2>2, GoesFact DEF Replaced
  <2>6. TopFits(text, seen, calls')
    BY <1>1, <1>2, <2>2, <2>5 DEF TopFits
  <2>7. ~ Names(text, Len(text))
    BY <1>2 DEF Names
  <2> QED
    BY <1>1, <1>2, <2>1, <2>2, <2>3, <2>4, <2>6, <2>7, StayStep
<1>5. CASE seen \notin {"identifier", "("}
  BY <1>5 DEF NewType
<1> QED
  BY <1>3, <1>4, <1>5

\* The name of a type may have arguments.
LEMMA NewArgumentsStep == Parsing /\ NewArguments => Parsing' \/ Reject
<1> SUFFICES ASSUME Parsing, NewArguments PROVE Parsing' \/ Reject
  OBVIOUS
<1>1. /\ text \in Seq(Lexeme) /\ seen \in Lexeme /\ calls \in Seq(Calls) /\ calls # <<>>
      /\ Len(text) \in Nat /\ calls[Len(calls)] = Top /\ Top \in Calls /\ CallFits(Top)
      /\ Top.at # "operand" => Len(calls) <= DepthLimit
      /\ Top.at # "member" => Len(text) = 0 \/ text[Len(text)] # "."
      /\ TopFits(text, seen, calls) /\ ReadsFit(text, calls)
  BY TopFact
<1>2. /\ Top.at = "typed" /\ Len(text) # 0 /\ Typed(text)
      /\ Top.node \notin Operators
  <2>1. Top.at = "typed"
    BY DEF NewArguments, At
  <2>2. Len(text) # 0 /\ Typed(text)
    BY <1>1, <2>1 DEF TopFits
  <2>3. Top.node \notin Operators
    BY <1>1, <2>1 DEF CallFits
  <2> QED
    BY <2>1, <2>2, <2>3
<1>3. Parsing'
  <2> DEFINE c == [Top EXCEPT !.at = IF seen = "(" THEN "arguments" ELSE "tail", !.node = "new"]
  <2>1. Goes(c) /\ UNCHANGED <<text, seen>>
    BY <1>2 DEF NewArguments
  <2>2. c \in Calls /\ c.min = Top.min /\ c.at \in {"arguments", "tail"} /\ c.node = "new" /\ c.reads = Top.reads
    BY <1>1, <1>2 DEF Calls, Places, Listing, Nodes, Listed
  <2> HIDE DEF c
  <2>3. CallFits(c) /\ c.at \notin Waiting /\ (Operated(c) <=> Operated(Top))
    BY <1>1, <1>2, <2>2 DEF CallFits, Waiting, Listing, Listed, Operators, Operated
  <2>4. Inward(c) = Inward(Top)
    <3>1. c.at \notin Inside /\ Top.at \notin Inside
      BY <1>2, <2>2 DEF Inside
    <3> QED
      BY <3>1 DEF Inward
  <2>5. calls'[Len(calls')] = c
    BY <1>1, <2>1, <2>2, GoesFact DEF Replaced
  <2>6. TopFits(text, seen, calls')
    <3>1. CASE c.at = "arguments"
      BY <1>1, <1>2, <2>2, <2>5, <3>1 DEF TopFits
    <3>2. CASE c.at = "tail"
      <4>1. NodeFits(text, seen, calls')
        BY <1>1, <1>2, <2>2, <2>5, <3>2 DEF NodeFits, Operators, Listed
      <4>2. /\ c.at \notin {"operand", "next argument", "type", "typed", "member", "arguments"}
            /\ c.at \notin {"close group", "close index", "after argument"}
            /\ Len(text) > 0 /\ text[Len(text)] # "."
        BY <1>1, <1>2, <3>2 DEF Typed
      <4> QED
        BY <2>5, <4>1, <4>2, Zenon DEF TopFits
    <3> QED
      BY <2>2, <3>1, <3>2
  <2>7. ~ Names(text, Len(text))
    BY <1>1, <1>2 DEF Names, Typed
  <2> QED
    BY <1>1, <1>2, <2>1, <2>2, <2>3, <2>4, <2>6, <2>7, StayStep
<1> QED
  BY <1>3

\* What is called may have been read as a name: then it is not.
LEMMA CallMethodStep == Parsing /\ CallMethod => Parsing'
<1> SUFFICES ASSUME Parsing, CallMethod PROVE Parsing'
  OBVIOUS
<1>1. /\ text \in Seq(Lexeme) /\ seen \in Lexeme /\ calls \in Seq(Calls) /\ calls # <<>>
      /\ Len(text) \in Nat /\ calls[Len(calls)] = Top /\ Top \in Calls /\ CallFits(Top)
      /\ Top.at # "operand" => Len(calls) <= DepthLimit
      /\ Top.at # "member" => Len(text) = 0 \/ text[Len(text)] # "."
      /\ TopFits(text, seen, calls) /\ ReadsFit(text, calls)
  BY TopFact
<1>2. Top.at = "tail" /\ seen = "("
  BY DEF CallMethod, At
<1>3. NodeFits(text, seen, calls) /\ Len(text) # 0
  <2>1. NodeFits(text, seen, calls)
    BY <1>1, <1>2, Zenon DEF TopFits
  <2>2. Top.at # "operand"
    BY <1>2
  <2>3. Len(text) > 0
    BY <1>1, <2>2, Zenon DEF TopFits
  <2> QED
    BY <1>1, <2>1, <2>3
<1>4. /\ Top.node \notin Operators \cup {"none"}
      /\ Top.node = "identifier" => /\ Top.reads = {Len(text)}
                                    /\ \A k \in 1 .. Len(calls) - 1 : Len(text) \notin calls[k].reads
      /\ Top.node # "identifier" => ~ Names(text, Len(text))
  <2>1. Top.node \notin Operators \cup {"none"}
    BY <1>1, <1>2, <1>3 DEF NodeFits, Postfix
  <2>2. CASE Top.node = "identifier"
    BY <1>1, <1>3, <2>1, <2>2 DEF NodeFits
  <2>3. CASE Top.node \in {"literal", "true", "string", "group", "index"}
    <3>1. text[Len(text)] # "identifier"
      BY <1>1, <1>3, <2>3 DEF NodeFits
    <3> QED
      BY <2>1, <2>3, <3>1 DEF Names
  <2>4. CASE Top.node = "member"
    BY <1>1, <1>3, <2>1, <2>4 DEF NodeFits, Names
  <2>5. CASE Top.node \in Listed
    <3>1. text[Len(text)] = ")" \/ Typed(text)
      BY <1>1, <1>3, <2>5 DEF NodeFits
    <3>2. ~ Names(text, Len(text))
      BY <1>1, <3>1 DEF Typed, Names
    <3> QED
      BY <2>1, <2>5, <3>2 DEF Listed
  <2>6. Top.node \in {"identifier", "literal", "true", "string", "group", "index", "member"} \cup Listed
    BY <1>1, <2>1 DEF Calls, Nodes
  <2> QED
    BY <2>2, <2>3, <2>4, <2>5, <2>6
<1> DEFINE c == [Top EXCEPT !.at = "arguments", !.node = "call", !.reads = CallReads(Top)]
<1>5. Goes(c) /\ UNCHANGED <<text, seen>>
  BY DEF CallMethod
<1>6. /\ c \in Calls /\ c.min = Top.min /\ c.at = "arguments" /\ c.node = "call"
      /\ c.reads = IF Top.node = "identifier" THEN {} ELSE Top.reads
  BY <1>1 DEF CallReads, Calls, Places, Listing, Nodes, Listed
<1> HIDE DEF c
<1>7. CallFits(c) /\ c.at \notin Waiting /\ (Operated(c) <=> Operated(Top))
  BY <1>1, <1>2, <1>4, <1>6 DEF CallFits, Waiting, Listing, Listed, Operators, Operated
<1>8. Inward(c) = Inward(Top)
  <2>1. c.at \notin Inside /\ Top.at \notin Inside
    BY <1>2, <1>6 DEF Inside
  <2> QED
    BY <2>1 DEF Inward
<1>9. calls'[Len(calls')] = c
  BY <1>1, <1>5, <1>6, GoesFact DEF Replaced
<1>10. TopFits(text, seen, calls')
  BY <1>1, <1>2, <1>3, <1>6, <1>9 DEF TopFits
<1>11. c.reads = Top.reads => ~ Names(text, Len(text))
  BY <1>4, <1>6
<1>12. c.reads = Top.reads \/ (Top.reads = {Len(text)} /\ c.reads = {})
  BY <1>4, <1>6
<1>13. c.reads # Top.reads => c.at = "arguments" /\ \A k \in 1 .. Len(calls) - 1 : Len(text) \notin calls[k].reads
  BY <1>4, <1>6
<1> QED
  BY <1>1, <1>2, <1>5, <1>6, <1>7, <1>8, <1>10, <1>11, <1>12, <1>13, StayStep

\* A step that takes a token and waits for an operand.
LEMMA WaitStep ==
    ASSUME Parsing, Advance, NEW c \in Calls, NEW minimum \in Nat, Waits(c, minimum), CallFits(c),
           c.at \in Waiting, c.min = Top.min, Len(calls) <= DepthLimit,
           minimum # 0 => minimum >= 4,
           minimum = 0 => c.at \in {"group", "argument", "index"},
           Top.at \in {"operand", "tail"}, seen \in {"(", "[", "=", "+", "*", "not"},
           seen = "(" => Len(text) = 0 \/ text[Len(text)] # "identifier",
           c.reads = Top.reads, Inward(c) = Delta(seen),
           seen = "=" => InsideOf(calls, Len(calls)) # 0,
           seen \in {"(", "["} => (Operated(c) <=> Operated(Top)),
           seen \notin {"(", "["} => c.at \in Operators
    PROVE  Parsing'
<1>1. /\ text \in Seq(Lexeme) /\ seen \in Lexeme /\ calls \in Seq(Calls) /\ calls # <<>>
      /\ calls[Len(calls)] = Top
  BY TopFact
<1>2. /\ text' \in Seq(Lexeme) /\ seen' \in Lexeme /\ GoesOn(text, seen, text')
      /\ Len(text') < MaxLength \/ seen' = "eof"
  BY <1>1, AdvanceFact
<1>3. calls' \in Seq(Calls) /\ Pushed(calls, calls', c, Call(minimum)) /\ result' = result
  BY <1>1, WaitsFact
<1>4. ParsingInv(text, seen, calls) /\ seen # "eof"
  BY DEF Parsing
<1>5. ParsingInv(text', seen', calls')
  BY <1>1, <1>2, <1>3, <1>4, TakeAndWait
<1> QED
  BY <1>3, <1>5 DEF Parsing

\* An operator, or a bracket, before an operand.
LEMMA PrefixStep == Parsing /\ (Unary \/ Group) => Parsing'
<1> SUFFICES ASSUME Parsing, Unary \/ Group PROVE Parsing'
  OBVIOUS
<1>1. /\ Len(text) \in Nat /\ Top \in Calls /\ CallFits(Top) /\ TopFits(text, seen, calls)
      /\ calls[Len(calls)] = Top
  BY TopFact
<1>2. Top.at = "operand" /\ Len(calls) <= DepthLimit /\ Top.reads = {} /\ Top.node \notin Operators
  <2>1. Top.at = "operand" /\ Len(calls) <= DepthLimit
    BY DEF Unary, Group, At, Fits
  <2> QED
    BY <1>1, <2>1 DEF CallFits
<1>3. CASE Unary
  <2> DEFINE c == [Top EXCEPT !.at = "unary"]
  <2>1. Advance /\ Waits(c, 6) /\ seen \in {"not", "+"}
    BY <1>3 DEF Unary
  <2>2. c \in Calls /\ c.min = Top.min /\ c.at = "unary" /\ c.node = Top.node /\ c.reads = {}
    BY <1>1, <1>2 DEF Calls, Places, Waiting
  <2> HIDE DEF c
  <2>3. CallFits(c) /\ c.at \in Waiting /\ c.at \in Operators
    BY <1>1, <1>2, <2>2 DEF CallFits, Waiting, Listing, Operators
  <2>4. Inward(c) = Delta(seen)
    BY <2>1, <2>2 DEF Inward, Inside, Delta
  <2>5. seen \notin {"(", "["} /\ seen \in {"(", "[", "=", "+", "*", "not"} /\ seen # "="
    BY <2>1
  <2> QED
    BY <1>1, <1>2, <2>1, <2>2, <2>3, <2>4, <2>5, WaitStep
<1>4. CASE Group
  <2> DEFINE c == [Top EXCEPT !.at = "group"]
  <2>1. Advance /\ Waits(c, 0) /\ seen = "("
    BY <1>4 DEF Group
  <2>2. c \in Calls /\ c.min = Top.min /\ c.at = "group" /\ c.node = Top.node /\ c.reads = {}
    BY <1>1, <1>2 DEF Calls, Places, Waiting
  <2> HIDE DEF c
  <2>3. CallFits(c) /\ c.at \in Waiting /\ (Operated(c) <=> Operated(Top))
    BY <1>1, <1>2, <2>2 DEF CallFits, Waiting, Listing, Operators, Operated
  <2>4. Inward(c) = Delta(seen)
    BY <2>1, <2>2 DEF Inward, Inside, Delta
  <2>5. Len(text) = 0 \/ text[Len(text)] # "identifier"
    BY <1>1, <1>2 DEF TopFits, Before
  <2> QED
    BY <1>1, <1>2, <2>1, <2>2, <2>3, <2>4, <2>5, WaitStep
<1> QED
  BY <1>3, <1>4

\* An index is an expression within brackets.
LEMMA IndexStep == Parsing /\ Index => Parsing'
<1> SUFFICES ASSUME Parsing, Index PROVE Parsing'
  OBVIOUS
<1>1. /\ Len(text) \in Nat /\ Top \in Calls /\ CallFits(Top) /\ TopFits(text, seen, calls)
      /\ calls[Len(calls)] = Top
      /\ Top.at # "operand" => Len(calls) <= DepthLimit
  BY TopFact
<1>2. Top.at = "tail" /\ seen = "["
  BY DEF Index, At
<1>3. Top.node \notin Operators
  <2>1. NodeFits(text, seen, calls)
    BY <1>1, <1>2, Zenon DEF TopFits
  <2> QED
    BY <1>1, <1>2, <2>1 DEF NodeFits, Postfix
<1> DEFINE c == [Top EXCEPT !.at = "index"]
<1>4. Advance /\ Waits(c, 0)
  BY DEF Index
<1>5. c \in Calls /\ c.min = Top.min /\ c.at = "index" /\ c.node = Top.node /\ c.reads = Top.reads
  BY <1>1 DEF Calls, Places, Waiting
<1> HIDE DEF c
<1>6. CallFits(c) /\ c.at \in Waiting /\ (Operated(c) <=> Operated(Top))
  BY <1>1, <1>2, <1>3, <1>5 DEF CallFits, Waiting, Listing, Operators, Operated
<1>7. Inward(c) = Delta(seen)
  BY <1>2, <1>5 DEF Inward, Inside, Delta
<1> QED
  BY <1>1, <1>2, <1>4, <1>5, <1>6, <1>7, WaitStep

\* An operator binds what it may; a comparison only within brackets.
LEMMA BinaryStep == Parsing /\ Binary => Parsing'
<1> SUFFICES ASSUME Parsing, Binary PROVE Parsing'
  OBVIOUS
<1>1. /\ Len(text) \in Nat /\ Top \in Calls /\ CallFits(Top) /\ calls \in Seq(Calls) /\ calls # <<>>
      /\ calls[Len(calls)] = Top
      /\ Top.at # "operand" => Len(calls) <= DepthLimit
  BY TopFact
<1>2. Top.at = "tail"
  BY DEF Binary, At
<1>3. PICK minimum \in {4, 5, 6} :
          /\ Waits([Top EXCEPT !.at = "binary"], minimum)
          /\ seen \in {"=", "+", "*"}
          /\ seen = "=" => 3 >= Top.min
  <2>1. seen \in {"=", "+", "*"} /\ Precedence[seen] >= Top.min
    BY DEF Binary, Binds, Precedence
  <2>2. Waits([Top EXCEPT !.at = "binary"], Precedence[seen] + 1)
    BY DEF Binary
  <2>3. CASE seen = "="
    <3>1. Precedence[seen] = 3
      BY <2>3 DEF Precedence
    <3>2. Waits([Top EXCEPT !.at = "binary"], 4) /\ 3 >= Top.min
      BY <2>1, <2>2, <3>1
    <3> QED
      BY <2>1, <3>2
  <2>4. CASE seen = "+"
    <3>1. Precedence[seen] = 4
      BY <2>4 DEF Precedence
    <3>2. Waits([Top EXCEPT !.at = "binary"], 5)
      BY <2>2, <3>1
    <3> QED
      BY <2>1, <2>4, <3>2
  <2>5. CASE seen = "*"
    <3>1. Precedence[seen] = 5
      BY <2>5 DEF Precedence
    <3>2. Waits([Top EXCEPT !.at = "binary"], 6)
      BY <2>2, <3>1
    <3> QED
      BY <2>1, <2>5, <3>2
  <2> QED
    BY <2>1, <2>3, <2>4, <2>5
<1> DEFINE c == [Top EXCEPT !.at = "binary"]
<1>4. Advance /\ Waits(c, minimum)
  BY <1>3 DEF Binary
<1>5. c \in Calls /\ c.min = Top.min /\ c.at = "binary" /\ c.node = Top.node /\ c.reads = Top.reads
  BY <1>1 DEF Calls, Places, Waiting
<1> HIDE DEF c
<1>6. CallFits(c) /\ c.at \in Waiting /\ c.at \in Operators
  BY <1>1, <1>2, <1>5 DEF CallFits, Waiting, Listing, Operators
<1>7. Inward(c) = Delta(seen)
  BY <1>3, <1>5 DEF Inward, Inside, Delta
<1>8. seen = "=" => InsideOf(calls, Len(calls)) # 0
  <2> SUFFICES ASSUME seen = "=" PROVE InsideOf(calls, Len(calls)) # 0
    OBVIOUS
  <2>1. Top.min = 0
    BY <1>1, <1>3 DEF CallFits, Calls
  <2>2. PICK m \in Nat \ {0} : m = Len(calls)
    BY <1>1, LastOfSeq
  <2>3. Stacked(calls)
    BY DEF Parsing, ParsingInv
  <2>4. m # 1
    BY <1>1, <2>1, <2>2, <2>3 DEF Stacked
  <2>5. m - 1 \in 1 .. m /\ m \in 2 .. m
    BY <2>4
  <2>6. calls[m - 1].at \in Inside
    BY <1>1, <2>1, <2>2, <2>3, <2>5 DEF Stacked, Inside
  <2> QED
    BY <2>2, <2>5, <2>6, InsideFact
<1>9. /\ minimum \in Nat /\ minimum # 0 /\ minimum >= 4
      /\ seen \notin {"(", "["} /\ seen \in {"(", "[", "=", "+", "*", "not"}
  BY <1>3
<1> QED
  BY <1>1, <1>2, <1>4, <1>5, <1>6, <1>7, <1>8, <1>9, WaitStep

\* The call that waited goes on with what was read.
LEMMA ResumedFact ==
    ASSUME NEW w \in Calls, CallFits(w), w.at \in Waiting, NEW r \in SUBSET Nat
    PROVE  /\ Resumed(w, r) \in Calls /\ CallFits(Resumed(w, r)) /\ Resumed(w, r).min = w.min
           /\ Resumed(w, r).reads = w.reads \cup r
           /\ Inward(Resumed(w, r)) = Inward(w)
           /\ Operated(Resumed(w, r)) <=> Operated(w)
           /\ \/ Resumed(w, r).at \in {"close group", "close index", "after argument"}
              \/ Resumed(w, r).at = "tail" /\ Resumed(w, r).node \in Operators
<1> DEFINE c == Resumed(w, r)
<1>1. CASE w.at = "unary"
  <2>1. c = [w EXCEPT !.at = "tail", !.node = "unary", !.reads = r]
    BY <1>1 DEF Resumed
  <2>2. c.at = "tail" /\ c.node = "unary" /\ c.reads = r /\ c.min = w.min /\ c \in Calls
    BY <2>1 DEF Calls, Places, Nodes, Operators
  <2> HIDE DEF c
  <2>3. w.reads = {}
    BY <1>1 DEF CallFits
  <2>4. CallFits(c) /\ Inward(c) = Inward(w) /\ (Operated(c) <=> Operated(w)) /\ c.node \in Operators
    BY <1>1, <2>2 DEF CallFits, Listing, Operators, Inward, Inside, Operated
  <2> QED
    BY <2>2, <2>3, <2>4 DEF c
<1>2. CASE w.at = "group"
  <2>1. c = [w EXCEPT !.at = "close group", !.reads = r]
    BY <1>2 DEF Resumed
  <2>2. c.at = "close group" /\ c.node = w.node /\ c.reads = r /\ c.min = w.min /\ c \in Calls
    BY <2>1 DEF Calls, Places, Inside
  <2> HIDE DEF c
  <2>3. w.reads = {}
    BY <1>2 DEF CallFits
  <2>4. CallFits(c) /\ Inward(c) = Inward(w) /\ (Operated(c) <=> Operated(w))
    BY <1>2, <2>2 DEF CallFits, Listing, Operators, Inward, Inside, Operated
  <2> QED
    BY <2>2, <2>3, <2>4 DEF c
<1>3. CASE w.at = "argument"
  <2>1. c = [w EXCEPT !.at = "after argument", !.reads = @ \cup r]
    BY <1>3 DEF Resumed
  <2>2. c.at = "after argument" /\ c.node = w.node /\ c.reads = w.reads \cup r /\ c.min = w.min /\ c \in Calls
    BY <2>1 DEF Calls, Places, Inside
  <2> HIDE DEF c
  <2>4. CallFits(c) /\ Inward(c) = Inward(w) /\ (Operated(c) <=> Operated(w))
    BY <1>3, <2>2 DEF CallFits, Listing, Operators, Inward, Inside, Operated
  <2> QED
    BY <2>2, <2>4 DEF c
<1>4. CASE w.at = "index"
  <2>1. c = [w EXCEPT !.at = "close index", !.reads = @ \cup r]
    BY <1>4 DEF Resumed
  <2>2. c.at = "close index" /\ c.node = w.node /\ c.reads = w.reads \cup r /\ c.min = w.min /\ c \in Calls
    BY <2>1 DEF Calls, Places, Inside
  <2> HIDE DEF c
  <2>4. CallFits(c) /\ Inward(c) = Inward(w) /\ (Operated(c) <=> Operated(w))
    BY <1>4, <2>2 DEF CallFits, Listing, Operators, Inward, Inside, Operated
  <2> QED
    BY <2>2, <2>4 DEF c
<1>5. CASE w.at = "binary"
  <2>1. c = [w EXCEPT !.at = "tail", !.node = "binary", !.reads = @ \cup r]
    BY <1>5 DEF Resumed
  <2>2. c.at = "tail" /\ c.node = "binary" /\ c.reads = w.reads \cup r /\ c.min = w.min /\ c \in Calls
    BY <2>1 DEF Calls, Places, Nodes, Operators
  <2> HIDE DEF c
  <2>4. CallFits(c) /\ Inward(c) = Inward(w) /\ (Operated(c) <=> Operated(w)) /\ c.node \in Operators
    BY <1>5, <2>2 DEF CallFits, Listing, Operators, Inward, Inside, Operated
  <2> QED
    BY <2>2, <2>4 DEF c
<1> QED
  BY <1>1, <1>2, <1>3, <1>4, <1>5 DEF Waiting

\* An argument, a comma or the end.
LEMMA NextArgumentStep == Parsing /\ NextArgument => Parsing' \/ Reject
<1> SUFFICES ASSUME Parsing, NextArgument PROVE Parsing' \/ Reject
  OBVIOUS
<1>1. /\ text \in Seq(Lexeme) /\ seen \in Lexeme /\ calls \in Seq(Calls) /\ calls # <<>>
      /\ Len(text) \in Nat /\ calls[Len(calls)] = Top /\ Top \in Calls /\ CallFits(Top)
      /\ Top.at # "operand" => Len(calls) <= DepthLimit
      /\ Top.at # "member" => Len(text) = 0 \/ text[Len(text)] # "."
      /\ TopFits(text, seen, calls) /\ ReadsFit(text, calls)
  BY TopFact
<1>2. /\ Top.at = "next argument" /\ Top.node \in Listed
      /\ Len(text) = 0 \/ text[Len(text)] \in Before
  <2>1. Top.at = "next argument"
    BY DEF NextArgument, At
  <2>2. Len(text) = 0 \/ text[Len(text)] \in Before
    BY <1>1, <2>1 DEF TopFits
  <2> QED
    BY <1>1, <2>1, <2>2 DEF CallFits, Listing
<1>3. CASE seen = ")"
  <2> DEFINE c == [Top EXCEPT !.at = "tail"]
  <2>1. Advance /\ Goes(c)
    BY <1>3 DEF NextArgument
  <2>2. c \in Calls /\ c.min = Top.min /\ c.at = "tail" /\ c.node = Top.node /\ c.reads = Top.reads
    BY <1>1, <1>2 DEF Tail1, Calls, Places, Listing, Nodes
  <2> HIDE DEF c
  <2>3. NewReads(text, seen) = {}
    BY <1>2, <1>3 DEF NewReads
  <2>4. CallFits(c) /\ c.at \notin Waiting /\ (Operated(c) <=> Operated(Top))
    BY <1>1, <1>2, <1>3, <2>2 DEF CallFits, Waiting, Listing, Listed, Operators, Operated
  <2>5. Inward(c) = Inward(Top) + Delta(seen)
    <3>1. /\ seen \in {"(", "["} => Top.at \notin Inside /\ c.at \in Inside
          /\ seen \in {")", "]"} => Top.at \in Inside /\ c.at \notin Inside
          /\ seen \notin {"(", "[", ")", "]"} => (Top.at \in Inside <=> c.at \in Inside)
      BY <1>2, <1>3, <2>2 DEF Inside
    <3> QED
      BY <3>1, InwardFact
  <2>6. Continues(text, seen, calls, c)
    BY <1>1, <1>2, <1>3, <2>2, <2>3, <2>4, <2>5 DEF Continues
  <2>7. TopFits(text', seen', calls')
    <3>1. GoesOn(text, seen, text') /\ Replaced(calls, calls', c)
      BY <1>1, <2>1, <2>2, AdvanceFact, GoesFact
    <3>2. c.node \notin {"identifier", "none", "member", "index", "group", "literal", "true", "string"} \cup Operators
      BY <1>1, <1>2, <1>3, <2>2 DEF Operators, Listed
    <3> QED
      BY <1>1, <1>2, <1>3, <2>2, <3>1, <3>2, TailFits
  <2> QED
    BY <2>1, <2>6, <2>7, TakeStep
<1>4. CASE seen = ","
  <2> DEFINE c == Top
  <2>1. Advance /\ Goes(c)
    BY <1>4 DEF NextArgument
  <2>2. c \in Calls /\ c.min = Top.min /\ c.at = "next argument" /\ c.node = Top.node /\ c.reads = Top.reads
    BY <1>1, <1>2 DEF Tail1, Calls, Places, Listing, Nodes
  <2> HIDE DEF c
  <2>3. NewReads(text, seen) = {}
    BY <1>2, <1>4 DEF NewReads
  <2>4. CallFits(c) /\ c.at \notin Waiting /\ (Operated(c) <=> Operated(Top))
    BY <1>1, <1>2, <1>4, <2>2 DEF CallFits, Waiting, Listing, Listed, Operators, Operated
  <2>5. Inward(c) = Inward(Top) + Delta(seen)
    <3>1. /\ seen \in {"(", "["} => Top.at \notin Inside /\ c.at \in Inside
          /\ seen \in {")", "]"} => Top.at \in Inside /\ c.at \notin Inside
          /\ seen \notin {"(", "[", ")", "]"} => (Top.at \in Inside <=> c.at \in Inside)
      BY <1>2, <1>4, <2>2 DEF Inside
    <3> QED
      BY <3>1, InwardFact
  <2>6. Continues(text, seen, calls, c)
    BY <1>1, <1>2, <1>4, <2>2, <2>3, <2>4, <2>5 DEF Continues
  <2>7. TopFits(text', seen', calls')
    <3>1. GoesOn(text, seen, text') /\ Replaced(calls, calls', c)
      BY <1>1, <2>1, <2>2, AdvanceFact, GoesFact
    <3> QED
      BY <1>1, <1>2, <1>4, <2>2, <3>1, PlaceFits
  <2> QED
    BY <2>1, <2>6, <2>7, TakeStep
<1>5. CASE seen = "eof"
  BY <1>5 DEF NextArgument
<1>6. CASE seen \notin {")", ",", "eof"}
  <2> DEFINE c == [Top EXCEPT !.at = "argument"]
             m == Len(calls)
  <2>1. Waits(c, 0) /\ UNCHANGED <<text, seen>>
    BY <1>6 DEF NextArgument
  <2>2. c \in Calls /\ c.min = Top.min /\ c.at = "argument" /\ c.node = Top.node /\ c.reads = Top.reads
    BY <1>1 DEF Calls, Places, Waiting
  <2> HIDE DEF c
  <2>3. /\ Stacked(calls) /\ Bounded(text, seen, calls)
        /\ DepthFits(text, calls) /\ OperatorsFit(text, calls)
    BY DEF Parsing, ParsingInv
  <2>4. calls' \in Seq(Calls) /\ Pushed(calls, calls', c, Call(0)) /\ result' = result
    BY <1>1, <2>1, <2>2, WaitsFact
  <2>5. CallFits(c) /\ c.at \in Waiting /\ (Operated(c) <=> Operated(Top))
    BY <1>1, <1>2, <2>2 DEF CallFits, Waiting, Listing, Listed, Operators, Operated
  <2>6. Inward(c) = Inward(Top)
    <3>1. c.at \in Inside /\ Top.at \in Inside
      BY <1>2, <2>2 DEF Inside
    <3> QED
      BY <3>1 DEF Inward
  <2>7. /\ m \in Nat \ {0} /\ Len(calls') = m + 1 /\ calls' # <<>>
        /\ ReadBy(calls, m) = ReadBy(calls, m - 1) \cup Top.reads
        /\ ReadBy(calls', m + 1) = ReadBy(calls, m - 1) \cup c.reads
        /\ InsideOf(calls, m) \in Nat
        /\ InsideOf(calls', m + 1) = InsideOf(calls, m) - Inward(Top) + Inward(c)
        /\ Operated(calls'[1]) <=> Operated(calls[1])
        /\ Stacked(calls')
    BY <1>1, <2>2, <2>3, <2>4, <2>5, PushedFact
  <2>8. calls'[m + 1].at = "operand"
    BY <2>4 DEF Pushed, Call
  <2>9. ReadsFit(text, calls')
    <3>1. Readable(text, "operand") = Readable(text, "next argument")
      BY <1>1, ReadablePlaces
    <3> QED
      BY <1>1, <1>2, <2>2, <2>7, <2>8, <3>1 DEF ReadsFit
  <2>10. InsideOf(calls', m + 1) = InsideOf(calls, m)
    <3>1. Inward(Top) \in Nat
      BY DEF Inward
    <3> QED
      BY <2>6, <2>7, <3>1
  <2>11. DepthFits(text, calls') /\ OperatorsFit(text, calls')
    BY <2>3, <2>7, <2>10 DEF DepthFits, OperatorsFit, InsideOf
  <2>12. Bounded(text, seen, calls')
    <3>1. m <= DepthLimit
      BY <1>1, <1>2
    <3> QED
      BY <2>3, <2>7, <2>8, <3>1, ExpressionAssumption DEF Bounded
  <2>13. TopFits(text, seen, calls')
    <3>1. calls'[Len(calls')].at = "operand" /\ Len(calls') # 1
      BY <2>7, <2>8
    <3>2. /\ "operand" \notin {"type", "typed", "member", "arguments", "tail"}
          /\ "operand" \notin {"close group", "close index", "after argument"}
      OBVIOUS
    <3>3. Len(text) = 0 \/ text[Len(text)] # "."
      BY <1>1, <1>2
    <3> QED
      BY <1>2, <3>1, <3>2, <3>3, Zenon DEF TopFits
  <2>14. /\ text' = text /\ seen' = seen /\ text \in Seq(Lexeme) /\ seen \in Lexeme
    BY <1>1, <2>1
  <2> QED
    BY <2>4, <2>7, <2>9, <2>11, <2>12, <2>13, <2>14 DEF Parsing, ParsingInv
<1> QED
  BY <1>3, <1>4, <1>5, <1>6

\* With another last element, a sequence stays one.
LEMMA ReplaceLast ==
    ASSUME NEW S, NEW f \in Seq(S), f # <<>>, NEW c \in S
    PROVE  /\ [f EXCEPT ![Len(f)] = c] \in Seq(S)
           /\ Len([f EXCEPT ![Len(f)] = c]) = Len(f)
           /\ [f EXCEPT ![Len(f)] = c][Len(f)] = c
           /\ \A k \in 1 .. Len(f) - 1 : [f EXCEPT ![Len(f)] = c][k] = f[k]
<1>1. PICK m \in Nat \ {0} : m = Len(f)
  BY LastOfSeq
<1>2. PICK g : g = [f EXCEPT ![m] = c]
  OBVIOUS
<1>3. g \in Seq(S) /\ Len(g) = m /\ g[m] = c /\ \A k \in 1 .. m - 1 : g[k] = f[k]
  BY <1>1, <1>2
<1> QED
  BY <1>1, <1>2, <1>3

\* A call returns to the one that waits for it.
LEMMA ResumeStep == Parsing /\ Return /\ Len(calls) # 1 => Parsing'
<1> SUFFICES ASSUME Parsing, Return, Len(calls) # 1 PROVE Parsing'
  OBVIOUS
<1>1. /\ text \in Seq(Lexeme) /\ seen \in Lexeme /\ calls \in Seq(Calls) /\ calls # <<>>
      /\ Len(text) \in Nat /\ calls[Len(calls)] = Top /\ Top \in Calls
      /\ Top.at # "operand" => Len(calls) <= DepthLimit
      /\ Top.at # "member" => Len(text) = 0 \/ text[Len(text)] # "."
      /\ TopFits(text, seen, calls) /\ ReadsFit(text, calls)
  BY TopFact
<1>2. Top.at = "tail" /\ seen \notin Postfix
  BY DEF Return, At, Postfix
<1>3. /\ Stacked(calls) /\ Bounded(text, seen, calls)
      /\ DepthFits(text, calls) /\ OperatorsFit(text, calls)
  BY DEF Parsing, ParsingInv
<1>4. PICK m \in Nat \ {0} : m = Len(calls)
  BY <1>1, LastOfSeq
<1>5. m > 1 /\ m - 1 \in 1 .. m /\ m - 1 \in Nat \ {0} /\ m - 1 < m
  BY <1>4
<1>6. PICK w \in Calls : w = calls[m - 1]
  BY <1>1, <1>4, <1>5
<1>7. CallFits(w) /\ w.at \in Waiting
  BY <1>3, <1>4, <1>5, <1>6 DEF Stacked
<1>8. Top.reads \in SUBSET Nat
  BY <1>1 DEF Calls
<1> DEFINE c == Resumed(w, Top.reads)
<1>9. /\ c \in Calls /\ CallFits(c) /\ c.min = w.min
      /\ c.reads = w.reads \cup Top.reads /\ Inward(c) = Inward(w)
      /\ Operated(c) <=> Operated(w)
      /\ c.at \in {"close group", "close index", "after argument"}
         \/ (c.at = "tail" /\ c.node \in Operators)
  BY <1>7, <1>8, ResumedFact
<1>10. /\ calls' = [Front(calls) EXCEPT ![m - 1] = Resumed(@, Top.reads)]
       /\ result' = result /\ text' = text /\ seen' = seen
  BY <1>4 DEF Return
<1>11. calls' \in Seq(Calls) /\ Popped(calls, calls', c)
  <2>1. PICK f \in Seq(Calls) : f = Front(calls)
    BY <1>1, LastOfSeq
  <2>2. Len(f) = m - 1 /\ \A k \in 1 .. m - 1 : f[k] = calls[k]
    BY <1>1, <1>4, <2>1, LastOfSeq
  <2>3. f[m - 1] = w
    BY <1>5, <1>6, <2>2
  <2>4. calls' = [f EXCEPT ![m - 1] = c]
    BY <1>10, <2>1, <2>3
  <2> HIDE DEF c
  <2>5. /\ calls' \in Seq(Calls) /\ Len(calls') = m - 1 /\ calls'[m - 1] = c
        /\ \A k \in 1 .. m - 2 : calls'[k] = f[k]
    <3>1. PICK l \in Nat \ {0} : l = m - 1
      BY <1>5
    <3>2. Len(f) = l /\ calls' = [f EXCEPT ![l] = c] /\ m - 2 = l - 1
      BY <2>2, <2>4, <3>1
    <3>3. /\ calls' \in Seq(Calls) /\ Len(calls') = l /\ calls'[l] = c
          /\ \A k \in 1 .. l - 1 : calls'[k] = f[k]
      <4>1. calls' = [f EXCEPT ![Len(f)] = c] /\ f # <<>> /\ c \in Calls
        BY <1>9, <3>1, <3>2
      <4> QED
        BY <3>2, <4>1, ReplaceLast
    <3> QED
      BY <3>1, <3>2, <3>3
  <2>6. \A k \in 1 .. m - 2 : k \in 1 .. m - 1
    OBVIOUS
  <2> QED
    BY <1>4, <1>5, <2>2, <2>5, <2>6 DEF Popped
<1> HIDE DEF c
<1>12. c.at \notin Waiting /\ c.at # "operand"
  BY <1>9 DEF Waiting
<1>13. /\ Len(calls') = m - 1 /\ calls' # <<>>
       /\ ReadBy(calls, m) = (ReadBy(calls, m - 2) \cup w.reads) \cup Top.reads
       /\ ReadBy(calls', m - 1) = ReadBy(calls, m - 2) \cup c.reads
       /\ InsideOf(calls, m) \in Nat
       /\ InsideOf(calls', m - 1) = InsideOf(calls, m) - Inward(Top) - Inward(w) + Inward(c)
       /\ Operated(calls'[1]) <=> Operated(calls[1])
       /\ Stacked(calls')
  <2>1. PICK ds \in Seq(Calls) : ds = calls' /\ Popped(calls, ds, c)
    BY <1>11
  <2>2. PICK n \in Nat \ {0} : n = m - 1
    BY <1>5
  <2>3. /\ n \in Nat \ {0} /\ Len(ds) = n /\ ds # <<>>
        /\ ReadBy(calls, m) = (ReadBy(calls, m - 2) \cup calls[n].reads) \cup calls[m].reads
        /\ ReadBy(ds, n) = ReadBy(calls, m - 2) \cup c.reads
        /\ InsideOf(calls, m) \in Nat
        /\ InsideOf(ds, n) = InsideOf(calls, m) - Inward(calls[m]) - Inward(calls[n]) + Inward(c)
        /\ (Operated(c) <=> Operated(calls[n])) => (Operated(ds[1]) <=> Operated(calls[1]))
        /\ Stacked(calls) /\ CallFits(c) /\ c.at \notin Waiting /\ c.min = calls[n].min
              => Stacked(ds)
    <3>1. calls \in Seq(Calls) /\ calls # <<>>
      BY <1>1
    <3> QED
      BY ONLY <1>4, <2>1, <2>2, <3>1, PoppedFact
  <2>4. calls[m] = Top /\ calls[n] = w
    BY <1>1, <1>4, <1>6, <2>2
  <2> QED
    BY <1>3, <1>9, <1>12, <2>1, <2>2, <2>3, <2>4
<1>14. calls'[m - 1] = c
  BY <1>4, <1>11 DEF Popped
<1>15. ReadsFit(text, calls')
  <2>1. ReadBy(calls', m - 1) = ReadBy(calls, m)
    BY <1>9, <1>13
  <2>2. c.at # "arguments"
    BY <1>9
  <2>3. Readable(text, c.at) = Readable(text, "tail")
    BY <1>1, <2>2, ReadablePlaces
  <2> QED
    BY <1>1, <1>2, <1>4, <1>13, <1>14, <2>1, <2>3 DEF ReadsFit
<1>16. InsideOf(calls', m - 1) = InsideOf(calls, m)
  <2>1. Inward(Top) = 0
    BY <1>2 DEF Inward, Inside
  <2>2. PICK i \in Nat, d \in Nat : i = Inward(w) /\ d = InsideOf(calls, m)
    BY <1>13 DEF Inward
  <2>3. InsideOf(calls', m - 1) = d - 0 - i + i
    BY <1>9, <1>13, <2>1, <2>2
  <2> QED
    BY <2>2, <2>3
<1>17. DepthFits(text, calls') /\ OperatorsFit(text, calls')
  BY <1>3, <1>4, <1>13, <1>16 DEF DepthFits, OperatorsFit, InsideOf
<1>18. Bounded(text, seen, calls')
  <2>1. m <= DepthLimit
    BY <1>1, <1>2, <1>4
  <2> QED
    BY <1>3, <1>4, <1>13, <1>14, <2>1, ExpressionAssumption DEF Bounded
<1>19. TopFits(text, seen, calls')
  <2>1. calls'[Len(calls')] = c
    BY <1>13, <1>14
  <2>2. Len(text) > 0 /\ text[Len(text)] # "."
    <3>1. Top.at # "operand" /\ Top.at # "member"
      BY <1>2
    <3>2. Len(text) > 0
      BY <1>1, <3>1, Zenon DEF TopFits
    <3> QED
      BY <1>1, <3>1, <3>2
  <2>3. c.at \notin {"operand", "next argument", "type", "typed", "member", "arguments"}
    BY <1>9
  <2>4. CASE c.at \in {"close group", "close index", "after argument"}
    <3>1. c.at # "tail"
      BY <2>4
    <3> QED
      BY <1>2, <2>1, <2>2, <2>3, <3>1, Zenon DEF TopFits
  <2>5. CASE c.at = "tail" /\ c.node \in Operators
    <3>1. NodeFits(text, seen, calls')
      BY <1>2, <2>1, <2>5 DEF NodeFits, Operators, Listed
    <3>2. c.at \notin {"close group", "close index", "after argument"}
      BY <2>5
    <3> QED
      BY <2>1, <2>2, <2>3, <3>1, <3>2, Zenon DEF TopFits
  <2> QED
    BY <1>9, <2>4, <2>5
<1> QED
  BY <1>1, <1>10, <1>11, <1>13, <1>15, <1>17, <1>18, <1>19 DEF Parsing, ParsingInv

\* What the outermost call returns is what the tokens say.
LEMMA ReturnStep == Parsing /\ Return /\ Len(calls) = 1 => ExpressionInv'
<1> SUFFICES ASSUME Parsing, Return, Len(calls) = 1 PROVE ExpressionInv'
  OBVIOUS
<1> DEFINE n == Len(text)
<1>1. /\ text \in Seq(Lexeme) /\ n \in Nat /\ calls \in Seq(Calls) /\ calls # <<>>
      /\ calls[1] = Top /\ Top \in Calls
      /\ Top.at # "member" => n = 0 \/ text[n] # "."
      /\ TopFits(text, seen, calls) /\ ReadsFit(text, calls)
  BY TopFact
<1>2. Top.at = "tail"
  BY DEF Return, At
<1>3. /\ calls' = <<>> /\ result' = [node |-> Top.node, reads |-> Top.reads] /\ text' = text
  BY DEF Return
<1>4. NodeFits(text, seen, calls) /\ n > 0
  <2>1. NodeFits(text, seen, calls)
    BY <1>1, <1>2, Zenon DEF TopFits
  <2>2. Top.at # "operand"
    BY <1>2
  <2>3. n > 0
    BY <1>1, <2>2, Zenon DEF TopFits
  <2> QED
    BY <2>1, <2>3
<1>5. Top.reads = Readable(text, "tail")
  <2>1. ReadBy(calls, 1) = ReadBy(calls, 0) \cup calls[1].reads /\ ReadBy(calls, 0) = {}
    BY <1>1, OneMore, InsideFact
  <2> QED
    BY <1>1, <1>2, <2>1 DEF ReadsFit
<1>6. DOMAIN text = 1 .. n /\ Top.reads \subseteq 1 .. n
  BY <1>1, <1>5, ReadablePlaces
<1>7. ReadsAreExact'
  <2>1. Readable(text, "tail") =
           {i \in 1 .. n :
               /\ text[i] = "identifier"
               /\ i = 1 \/ text[i - 1] \notin {".", "new"}
               /\ i = n \/ text[i + 1] # "("}
    <3>1. \A i \in 1 .. n : (IF i = n THEN "tail" # "arguments" ELSE text[i + 1] # "(")
                            <=> i = n \/ text[i + 1] # "("
      OBVIOUS
    <3> QED
      BY <3>1 DEF Readable, Names
  <2>2. result'.reads = Readable(text, "tail")
    BY <1>3, <1>5
  <2> QED
    BY <1>3, <1>6, <2>1, <2>2 DEF ReadsAreExact
<1>8. ASSUME NEW i \in 1 .. n PROVE (Outside(i))' <=> Bracket(text, i) = 0
  <2>1. Count(text, i, {"(", "["}) \in Nat /\ Count(text, i, {")", "]"}) \in Nat
    BY CountFact
  <2>2. (Outside(i))' <=> Count(text, i, {"(", "["}) = Count(text, i, {")", "]"})
    BY <1>3 DEF Outside, Count
  <2> QED
    BY <2>1, <2>2 DEF Bracket
<1>9. /\ \A i \in 1 .. n : text[i] = "=" => Bracket(text, i) # 0
      /\ (\E i \in 1 .. n : Operates(text, i)) <=> Top.node \in Operators
  BY <1>1, <1>2 DEF Parsing, ParsingInv, OperatorsFit, Operated, Operators
<1>10. Top.node \notin Operators => 
          (Top.node \in {"identifier", "member", "index"} <=>
              \/ n = 1 /\ text[1] = "identifier"
              \/ n > 1 /\ (text[n - 1] = "." \/ text[n] = "]"))
  <2> SUFFICES ASSUME Top.node \notin Operators
               PROVE  Top.node \in {"identifier", "member", "index"} <=>
                          \/ n = 1 /\ text[1] = "identifier"
                          \/ n > 1 /\ (text[n - 1] = "." \/ text[n] = "]")
    OBVIOUS
  <2>1. CASE Top.node = "identifier"
    BY <1>1, <1>4, <2>1 DEF NodeFits
  <2>2. CASE Top.node = "member"
    BY <1>1, <1>4, <2>2 DEF NodeFits
  <2>3. CASE Top.node = "index"
    BY <1>1, <1>4, <2>3 DEF NodeFits
  <2>4. CASE Top.node \in {"literal", "true", "string", "group"}
    <3>1. /\ text[n] \notin {"identifier", "]"} /\ (n = 1 \/ text[n - 1] # ".")
      BY <1>1, <1>4, <2>4 DEF NodeFits
    <3> QED
      BY <1>1, <2>4, <3>1
  <2>5. CASE Top.node \in Listed
    <3>1. (text[n] = ")" /\ (n = 1 \/ text[n - 1] # ".")) \/ Typed(text)
      BY <1>1, <1>4, <2>5 DEF NodeFits
    <3>2. Top.node \notin {"identifier", "member", "index"}
      BY <2>5 DEF Listed
    <3> QED
      BY <1>1, <3>1, <3>2 DEF Typed
  <2>6. Top.node # "none"
    BY <1>1, <1>4 DEF NodeFits
  <2> QED
    BY <1>1, <2>1, <2>2, <2>3, <2>4, <2>5, <2>6 DEF Calls, Nodes
<1>11. Top.node \in Operators => Top.node \notin {"identifier", "member", "index"}
  BY DEF Operators
<1>12. TargetIsPlace'
  <2>1. (\E i \in 1 .. n : /\ (Outside(i))' /\ text[i] \in {"+", "*", "not"}
                           /\ i = 1 \/ text[i - 1] # ".")
        <=> Top.node \in Operators
    <3>1. \A i \in 1 .. n : Operates(text, i) <=>
             /\ (Outside(i))' /\ text[i] \in {"+", "*", "not"}
             /\ i = 1 \/ text[i - 1] # "."
      BY <1>8 DEF Operates
    <3> QED
      BY <1>9, <3>1
  <2>2. \A i \in 1 .. n : text[i] = "=" => ~ (Outside(i))'
    BY <1>8, <1>9
  <2> QED
    BY <1>3, <1>6, <1>10, <1>11, <2>1, <2>2 DEF TargetIsPlace
<1>13. result'.node \notin {"parsing", "failed"}
  <2>1. Top.node \in Nodes /\ result'.node = Top.node
    BY <1>1, <1>3 DEF Calls
  <2> QED
    BY <2>1 DEF Nodes, Listed, Operators
<1>14. ExpressionTypeOK'
  <2>1. Len(text) <= MaxLength
    BY DEF Parsing, ParsingInv, Bounded
  <2>2. Len(calls') = 0
    BY <1>3
  <2> QED
    BY <1>3, <1>6, <1>13, <2>1, <2>2, ExpressionAssumption DEF ExpressionTypeOK
<1> QED
  BY <1>3, <1>7, <1>12, <1>13, <1>14 DEF ExpressionInv, ExpressionIsExact

\* Every step keeps the invariant.
LEMMA ExpressionStep == ExpressionInv /\ [ExpressionNext]_expressionVars => ExpressionInv'
<1> SUFFICES ASSUME ExpressionInv, [ExpressionNext]_expressionVars PROVE ExpressionInv'
  OBVIOUS
<1>1. Parsing' \/ Reject => ExpressionInv'
  BY RejectStep DEF Parsing, ExpressionInv
<1>2. CASE UNCHANGED expressionVars
  <2>1. text' = text /\ seen' = seen /\ calls' = calls /\ result' = result
    BY <1>2 DEF expressionVars
  <2>2. CASE result.node = "parsing"
    BY <2>1, <2>2 DEF ExpressionInv
  <2>3. CASE result.node # "parsing"
    <3>1. calls = <<>> /\ ExpressionTypeOK /\ ReadsAreExact /\ TargetIsPlace
      BY <2>3 DEF ExpressionInv, ExpressionIsExact
    <3>2. ExpressionTypeOK' /\ ReadsAreExact'
      BY <2>1, <3>1 DEF ExpressionTypeOK, ReadsAreExact, ExpressionParsed
    <3>3. \A i : (Outside(i))' <=> Outside(i)
      BY <2>1 DEF Outside
    <3>4. TargetIsPlace'
      BY <2>1, <3>1, <3>3 DEF TargetIsPlace, ExpressionParsed
    <3> QED
      BY <2>1, <2>3, <3>1, <3>2, <3>4 DEF ExpressionInv, ExpressionIsExact
  <2> QED
    BY <2>2, <2>3
<1>3. CASE ExpressionNext
  <2>1. result.node = "parsing"
    BY <1>3 DEF ExpressionNext, TooNested, Unary, Group, Simple, NewType, NewArguments, OpenArguments,
                NextArgument, AfterArgument, Strings, Member, MemberName, CallMethod, Index, Binary,
                Return, Close, At
  <2>2. Parsing
    BY <2>1 DEF ExpressionInv, Parsing
  <2>3. CASE TooNested
    BY <1>1, <2>3 DEF TooNested
  <2>4. CASE Unary \/ Group
    BY <1>1, <2>2, <2>4, PrefixStep
  <2>5. CASE Simple
    BY <1>1, <2>2, <2>5, SimpleStep
  <2>6. CASE NewType \/ NewArguments
    BY <1>1, <2>2, <2>6, NewTypeStep, NewArgumentsStep
  <2>7. CASE OpenArguments \/ NextArgument \/ AfterArgument
    BY <1>1, <2>2, <2>7, OpenArgumentsStep, NextArgumentStep, AfterArgumentStep
  <2>8. CASE Strings \/ Member \/ MemberName
    BY <1>1, <2>2, <2>8, StringsStep, MemberStep, MemberNameStep
  <2>9. CASE CallMethod
    BY <1>1, <2>2, <2>9, CallMethodStep
  <2>10. CASE Index \/ Binary
    BY <1>1, <2>2, <2>10, IndexStep, BinaryStep
  <2>11. CASE Return
    BY <1>1, <2>2, <2>11, ResumeStep, ReturnStep
  <2>12. CASE Close
    BY <1>1, <2>2, <2>12, CloseStep
  <2> QED
    BY <1>3, <2>3, <2>4, <2>5, <2>6, <2>7, <2>8, <2>9, <2>10, <2>11, <2>12 DEF ExpressionNext
<1> QED
  BY <1>2, <1>3

\* The parser begins with no tokens taken and one call.
LEMMA ExpressionBegins == ExpressionInit => ExpressionInv
<1> SUFFICES ASSUME ExpressionInit PROVE ExpressionInv
  OBVIOUS
<1> DEFINE cs == calls
<1>1. /\ text = <<>> /\ seen \in Lexeme /\ calls = <<Call(4)>>
      /\ result.node = "parsing" /\ result.reads = {}
  BY DEF ExpressionInit, Lexeme
<1>2. Call(4) \in Calls /\ Call(4).at = "operand" /\ Call(4).min = 4 /\ Call(4).reads = {}
      /\ Call(4).node = "none"
  BY DEF Call, Calls, Places, Nodes
<1>3. /\ text \in Seq(Lexeme) /\ Len(text) = 0
      /\ calls \in Seq(Calls) /\ Len(calls) = 1 /\ calls # <<>> /\ calls[1] = Call(4)
  BY <1>1, <1>2
<1>4. /\ CallFits(Call(4))
      /\ "operand" \notin Waiting \cup Inside \cup Operators /\ "none" \notin Operators
  <2>1. "operand" \notin Waiting \cup Inside \cup Operators \cup Listing /\ "none" \notin Operators
    BY DEF Waiting, Inside, Operators, Listing
  <2>2. 4 >= 4
    OBVIOUS
  <2> QED
    BY <1>2, <2>1, <2>2 DEF CallFits
<1>5. Stacked(calls)
  BY <1>2, <1>3, <1>4 DEF Stacked
<1>6. Bounded(text, seen, calls)
  BY <1>2, <1>3, ExpressionAssumption DEF Bounded
<1>7. TopFits(text, seen, calls)
  BY <1>2, <1>3 DEF TopFits
<1>8. ReadsFit(text, calls) /\ InsideOf(calls, 1) = 0
  <2>1. ReadBy(calls, 1) = ReadBy(calls, 0) \cup calls[1].reads /\ ReadBy(calls, 0) = {}
    BY <1>3, OneMore, InsideFact
  <2>2. Readable(text, "operand") = {}
    BY <1>3 DEF Readable
  <2>3. InsideOf(calls, 1) = 0
    <3>1. \A k \in 1 .. 1 : calls[k].at \notin Inside
      BY <1>2, <1>3, <1>4
    <3> QED
      BY <1>3, <3>1, InsideFact
  <2> QED
    BY <1>2, <1>3, <2>1, <2>2, <2>3 DEF ReadsFit
<1>9. DepthFits(text, calls)
  <2>1. Bracket(text, 0) = 0
    BY CountFact DEF Bracket
  <2> QED
    BY <1>3, <1>8, <2>1 DEF DepthFits, InsideOf
<1>10. OperatorsFit(text, calls)
  BY <1>2, <1>3, <1>4 DEF OperatorsFit, Operated
<1> QED
  BY <1>1, <1>3, <1>5, <1>6, <1>7, <1>8, <1>9, <1>10 DEF ExpressionInv, ParsingInv

\* expression(): an expression being parsed keeps within the depth that is allowed,
\* and what it has read are tokens it has taken.
THEOREM ExpressionTypeCorrect == ExpressionSpec => []ExpressionTypeOK
<1>1. ExpressionInv => ExpressionTypeOK
  BY DEF ExpressionInv, ParsingInv, Bounded, ExpressionTypeOK
<1> QED
  BY <1>1, ExpressionBegins, ExpressionStep, PTL DEF ExpressionSpec

\* expression(): however an expression nests, and however long it is, its node and
\* its reads are what its tokens say.
THEOREM ExpressionsAreExact == ExpressionSpec => []ExpressionIsExact
<1>1. ExpressionInv => ExpressionIsExact
  BY DEF ExpressionInv, ExpressionIsExact, ReadsAreExact, TargetIsPlace, ExpressionParsed
<1> QED
  BY <1>1, ExpressionBegins, ExpressionStep, PTL DEF ExpressionSpec

--------------------------------------------------------------------------------
(* The parser: BslParser                                                        *)

\* What the code looks at a token for.
Decisions == {"branch", "range", "first parameter", "parameter", "default", "local",
              "return", "raise"}

\* No end of the text is accepted, and every question has an answer.
Sound(d) ==
    /\ d.do = "accept" => d.kind # "eof"
    /\ d.do = "choose" => d.what \in Decisions

\* A list of things to do has the whole text at its bottom; the rest of a statement
\* lies on its block.
ListFits(s) ==
    /\ s \in Seq(ToSet(s)) /\ s # <<>>
    /\ s[Len(s)].do \in {"enter", "body"} /\ s[Len(s)].stop = {"eof"}
    /\ \A n \in DOMAIN s :
          /\ Sound(s[n])
          /\ s[n].do = "after" => n + 1 \in DOMAIN s /\ s[n + 1].do = "body"
          /\ s[n].do = "body" => {"do", "stop", "at", "terminated"} \subseteq DOMAIN s[n]

\* The text is no longer than its bounds, and no deeper than the limit.
TextFits ==
    /\ words \in Vocabularies /\ look.line \in 1 .. words.lines
    /\ Len(tokens) <= words.tokens /\ tokens \in Seq(ToSet(tokens))
    /\ look.kind # "eof" => Len(tokens) < words.tokens
    /\ statementLines \subseteq 1 .. words.lines

ParserInv ==
    /\ verdict \in {"parsing", "parsed", "failed"}
    /\ verdict = "parsing" => ListFits(agenda) /\ TextFits
    /\ words \in Vocabularies /\ statementLines \subseteq 1 .. words.lines
    /\ Len(tokens) <= words.tokens
    /\ IsFiniteSet(Blocks) /\ Cardinality(Blocks) <= MaxDepth

\* Things that are no blocks, and nothing that lies on one.
Plain(p) ==
    /\ p \in Seq(ToSet(p))
    /\ \A n \in DOMAIN p : p[n].do \notin {"body", "after"} /\ Sound(p[n])

BodiesOf(s) == {n \in DOMAIN s : s[n].do = "body"}

\* A sequence is one of the values it has.
LEMMA OwnValues ==
    ASSUME NEW S, NEW q \in Seq(S)
    PROVE  q \in Seq(ToSet(q))
<1>1. q = [n \in DOMAIN q |-> q[n]] /\ DOMAIN q = 1 .. Len(q) /\ Len(q) \in Nat
  BY LenProperties
<1>2. q \in [1 .. Len(q) -> ToSet(q)]
  BY <1>1 DEF ToSet
<1> QED
  BY <1>1, <1>2, SeqDef

\* Two lists, one before the other.
LEMMA JoinFact ==
    ASSUME NEW p, p \in Seq(ToSet(p)), NEW t, t \in Seq(ToSet(t))
    PROVE  /\ p \o t \in Seq(ToSet(p \o t))
           /\ Len(p) \in Nat /\ Len(t) \in Nat /\ Len(p \o t) = Len(p) + Len(t)
           /\ DOMAIN p = 1 .. Len(p) /\ DOMAIN t = 1 .. Len(t)
           /\ DOMAIN (p \o t) = 1 .. Len(p) + Len(t)
           /\ \A n \in DOMAIN p : (p \o t)[n] = p[n]
           /\ \A n \in DOMAIN t : (p \o t)[Len(p) + n] = t[n]
<1> DEFINE S == ToSet(p) \cup ToSet(t)
           s == p \o t
<1>1. p \in Seq(S) /\ t \in Seq(S)
  BY SeqMonotonic
<1> HIDE DEF S
<1>2. /\ s \in Seq(S) /\ Len(s) = Len(p) + Len(t) /\ Len(p) \in Nat /\ Len(t) \in Nat
      /\ \A n \in 1 .. Len(p) + Len(t) :
            s[n] = IF n <= Len(p) THEN p[n] ELSE t[n - Len(p)]
  BY <1>1, ConcatProperties, LenProperties
<1>3. /\ DOMAIN p = 1 .. Len(p) /\ DOMAIN t = 1 .. Len(t) /\ DOMAIN s = 1 .. Len(p) + Len(t)
  BY <1>1, <1>2, LenProperties
<1> HIDE DEF s
<1>4. s \in Seq(ToSet(s))
  BY <1>2, OwnValues
<1>5. \A n \in DOMAIN p : s[n] = p[n]
  BY <1>2, <1>3
<1>6. ASSUME NEW n \in DOMAIN t PROVE s[Len(p) + n] = t[n]
  <2>1. Len(p) + n \in 1 .. Len(p) + Len(t) /\ ~(Len(p) + n <= Len(p)) /\ (Len(p) + n) - Len(p) = n
    BY <1>2, <1>3
  <2> QED
    BY <1>2, <2>1
<1> QED
  BY <1>2, <1>3, <1>4, <1>5, <1>6 DEF s

\* A list has finitely many blocks.
LEMMA CountFinite ==
    ASSUME NEW s, s \in Seq(ToSet(s))
    PROVE  IsFiniteSet(BodiesOf(s)) /\ Cardinality(BodiesOf(s)) \in Nat
<1>1. BodiesOf(s) \subseteq 1 .. Len(s) /\ Len(s) \in Nat
  BY LenProperties DEF BodiesOf
<1>2. IsFiniteSet(1 .. Len(s))
  BY <1>1, FS_Interval
<1> QED
  BY <1>1, <1>2, FS_Subset, FS_CardinalityType

\* What is put before a list leaves its blocks as many as they are.
LEMMA CountPlain ==
    ASSUME NEW p, p \in Seq(ToSet(p)), \A n \in DOMAIN p : p[n].do # "body",
           NEW t, t \in Seq(ToSet(t))
    PROVE  Cardinality(BodiesOf(p \o t)) = Cardinality(BodiesOf(t))
<1> DEFINE s == p \o t
           k == Len(p)
           shift == [n \in BodiesOf(t) |-> k + n]
<1>1. /\ k \in Nat /\ Len(t) \in Nat /\ DOMAIN p = 1 .. k /\ DOMAIN t = 1 .. Len(t)
      /\ DOMAIN s = 1 .. k + Len(t)
      /\ \A n \in DOMAIN p : s[n] = p[n]
      /\ \A n \in DOMAIN t : s[k + n] = t[n]
  BY JoinFact
<1> HIDE DEF s, k
<1>2. \A n \in BodiesOf(t) : k + n \in BodiesOf(s)
  <2>1. ASSUME NEW n \in DOMAIN t PROVE k + n \in DOMAIN s
    BY <1>1
  <2> QED
    BY <1>1, <2>1 DEF BodiesOf
<1>3. ASSUME NEW m \in BodiesOf(s) PROVE \E n \in BodiesOf(t) : k + n = m
  <2>1. m \in 1 .. k + Len(t) /\ s[m].do = "body"
    BY <1>1 DEF BodiesOf
  <2>2. m \notin 1 .. k
    BY <1>1, <2>1
  <2>3. m - k \in DOMAIN t /\ k + (m - k) = m
    BY <1>1, <2>1, <2>2
  <2>4. t[m - k].do = "body"
    BY <1>1, <2>1, <2>3
  <2> QED
    BY <2>3, <2>4 DEF BodiesOf
<1>4. BodiesOf(t) \subseteq Nat
  BY <1>1 DEF BodiesOf
<1>5. shift \in Bijection(BodiesOf(t), BodiesOf(s))
  <2>1. shift \in [BodiesOf(t) -> BodiesOf(s)]
    BY <1>2
  <2>2. \A m, n \in BodiesOf(t) : shift[m] = shift[n] => m = n
    BY <1>1, <1>4
  <2>3. \A m \in BodiesOf(s) : \E n \in BodiesOf(t) : shift[n] = m
    BY <1>3
  <2> HIDE DEF shift
  <2> QED
    BY <2>1, <2>2, <2>3 DEF Bijection, Injection, Surjection, IsInjective
<1> QED
  BY <1>5, CountFinite, FS_Bijection DEF ExistsBijection, s

\* The first thing of a list, and the others.
LEMMA RestFact ==
    ASSUME NEW s, s \in Seq(ToSet(s)), s # <<>>
    PROVE  /\ Tail(s) \in Seq(ToSet(Tail(s))) /\ <<s[1]>> \in Seq(ToSet(<<s[1]>>))
           /\ s = <<s[1]>> \o Tail(s) /\ DOMAIN s = 1 .. Len(s) /\ Len(s) \in Nat \ {0}
           /\ Len(Tail(s)) = Len(s) - 1 /\ DOMAIN Tail(s) = 1 .. Len(s) - 1
           /\ \A n \in 1 .. Len(s) - 1 : Tail(s)[n] = s[n + 1]
           /\ s[1] \in ToSet(s)
<1> DEFINE t == Tail(s)
           S == ToSet(s)
<1>1. s \in Seq(S)
  OBVIOUS
<1> HIDE DEF S
<1>2. DOMAIN s = 1 .. Len(s) /\ Len(s) \in Nat \ {0}
  BY <1>1, LenProperties, EmptySeq
<1>3. /\ t \in Seq(S) /\ Len(t) = Len(s) - 1 /\ \A n \in 1 .. Len(s) - 1 : t[n] = s[n + 1]
  BY <1>1, HeadTailProperties
<1>4. DOMAIN t = 1 .. Len(s) - 1
  BY <1>3, LenProperties
<1>5. s = <<s[1]>> \o t
  BY <1>1, HeadTailProperties
<1> HIDE DEF t
<1>6. t \in Seq(ToSet(t))
  BY <1>3, OwnValues
<1>7. s[1] \in S
  BY <1>1, <1>2
<1>8. <<s[1]>> \in Seq(ToSet(<<s[1]>>))
  BY DEF ToSet
<1> QED
  BY <1>2, <1>3, <1>4, <1>5, <1>6, <1>7, <1>8 DEF t, S

\* The first thing of a list counts if it is a block.
LEMMA CountRest ==
    ASSUME NEW s, s \in Seq(ToSet(s)), s # <<>>
    PROVE  Cardinality(BodiesOf(s)) = Cardinality(BodiesOf(Tail(s)))
                                      + (IF s[1].do = "body" THEN 1 ELSE 0)
<1> DEFINE t == Tail(s)
<1>1. /\ t \in Seq(ToSet(t)) /\ <<s[1]>> \in Seq(ToSet(<<s[1]>>)) /\ s = <<s[1]>> \o t
      /\ DOMAIN s = 1 .. Len(s) /\ Len(s) \in Nat \ {0}
      /\ \A n \in 1 .. Len(s) - 1 : t[n] = s[n + 1]
  BY RestFact
<1>2. Cardinality(BodiesOf(t)) \in Nat
  BY <1>1, CountFinite
<1>3. CASE s[1].do # "body"
  <2> DEFINE x == <<s[1]>>
             r == x \o t
  <2>1. x \in Seq(ToSet(x)) /\ \A n \in DOMAIN x : x[n].do # "body"
    BY <1>1, <1>3
  <2>2. r = s
    BY <1>1
  <2>3. Cardinality(BodiesOf(r)) = Cardinality(BodiesOf(t))
    <3> HIDE DEF t, x
    <3> QED
      BY <1>1, <2>1, CountPlain
  <2> HIDE DEF r, x, t
  <2>4. Cardinality(BodiesOf(s)) = Cardinality(BodiesOf(t))
    BY <2>2, <2>3
  <2> QED
    BY <1>2, <1>3, <2>4 DEF t
<1>4. CASE s[1].do = "body"
  <2> DEFINE x == <<[do |-> "take"]>>
             r == x \o t
  <2>1. x \in Seq(ToSet(x)) /\ Len(x) = 1 /\ x[1].do = "take" /\ DOMAIN x = {1}
    BY DEF ToSet
  <2>2. Cardinality(BodiesOf(r)) = Cardinality(BodiesOf(t))
    <3>1. \A n \in DOMAIN x : x[n].do # "body"
      BY <2>1
    <3> HIDE DEF x, t
    <3> QED
      BY <1>1, <2>1, <3>1, CountPlain
  <2>3. /\ r \in Seq(ToSet(r)) /\ DOMAIN r = DOMAIN s /\ r[1].do = "take"
        /\ \A n \in DOMAIN s : n # 1 => r[n] = s[n]
    <3>1. Len(t) = Len(s) - 1 /\ DOMAIN t = 1 .. Len(s) - 1
      BY RestFact
    <3> HIDE DEF x, t
    <3>2. /\ r \in Seq(ToSet(r)) /\ DOMAIN r = 1 .. Len(x) + Len(t)
          /\ \A n \in DOMAIN x : r[n] = x[n]
          /\ \A n \in DOMAIN t : r[Len(x) + n] = t[n]
      BY <1>1, <2>1, JoinFact
    <3> HIDE DEF r
    <3>3. DOMAIN r = DOMAIN s /\ r[1] = x[1]
      BY <1>1, <2>1, <3>1, <3>2
    <3>4. ASSUME NEW n \in DOMAIN s, n # 1 PROVE r[n] = s[n]
      <4>1. n - 1 \in DOMAIN t /\ Len(x) + (n - 1) = n /\ n - 1 \in 1 .. Len(s) - 1 /\ (n - 1) + 1 = n
        BY <1>1, <2>1, <3>1, <3>4
      <4> QED
        BY <1>1, <3>2, <4>1
    <3> QED
      BY <2>1, <3>2, <3>3, <3>4
  <2> HIDE DEF r
  <2>4. BodiesOf(s) = BodiesOf(r) \cup {1} /\ 1 \notin BodiesOf(r)
    BY <1>1, <1>4, <2>3 DEF BodiesOf
  <2>5. IsFiniteSet(BodiesOf(r)) /\ Cardinality(BodiesOf(r)) \in Nat
    BY <2>3, CountFinite
  <2>6. Cardinality(BodiesOf(r) \cup {1}) = Cardinality(BodiesOf(r)) + 1
    BY <2>4, <2>5, FS_AddElement
  <2> QED
    BY <1>2, <1>4, <2>2, <2>4, <2>6
<1> QED
  BY <1>3, <1>4

\* Nothing of a list but its first thing: the others are as they were.
LEMMA RestFits ==
    ASSUME NEW s, ListFits(s), Len(s) > 1
    PROVE  ListFits(Tail(s))
<1> DEFINE t == Tail(s)
<1>1. /\ t \in Seq(ToSet(t)) /\ Len(s) \in Nat \ {0} /\ DOMAIN s = 1 .. Len(s)
      /\ Len(t) = Len(s) - 1 /\ DOMAIN t = 1 .. Len(s) - 1
      /\ \A n \in 1 .. Len(s) - 1 : t[n] = s[n + 1]
  BY RestFact DEF ListFits
<1> HIDE DEF t
<1>2. t # <<>> /\ t[Len(t)] = s[Len(s)]
  BY <1>1
<1>3. ASSUME NEW n \in DOMAIN t
      PROVE  /\ Sound(t[n])
             /\ t[n].do = "after" => n + 1 \in DOMAIN t /\ t[n + 1].do = "body"
             /\ t[n].do = "body" => {"do", "stop", "at", "terminated"} \subseteq DOMAIN t[n]
  <2>1. n + 1 \in DOMAIN s /\ t[n] = s[n + 1]
    BY <1>1
  <2>2. (n + 1) + 1 \in DOMAIN s => n + 1 \in DOMAIN t /\ t[n + 1] = s[(n + 1) + 1]
    BY <1>1
  <2> QED
    BY <2>1, <2>2 DEF ListFits
<1> QED
  BY <1>1, <1>2, <1>3 DEF ListFits, t

\* Plain things before a list, which may be the rest of one.
LEMMA PushFits ==
    ASSUME NEW p, Plain(p), NEW t, ListFits(t)
    PROVE  ListFits(p \o t) /\ Cardinality(BodiesOf(p \o t)) = Cardinality(BodiesOf(t))
<1> DEFINE s == p \o t
           k == Len(p)
<1>1. /\ s \in Seq(ToSet(s)) /\ k \in Nat /\ Len(t) \in Nat /\ Len(s) = k + Len(t)
      /\ DOMAIN p = 1 .. k /\ DOMAIN t = 1 .. Len(t) /\ DOMAIN s = 1 .. k + Len(t)
      /\ \A n \in DOMAIN p : s[n] = p[n]
      /\ \A n \in DOMAIN t : s[k + n] = t[n]
  BY JoinFact DEF Plain, ListFits
<1>2. Len(t) # 0
  BY EmptySeq, LenProperties DEF ListFits
<1>3. Cardinality(BodiesOf(s)) = Cardinality(BodiesOf(t))
  BY CountPlain DEF Plain, ListFits
<1> HIDE DEF s, k
<1>4. s # <<>> /\ s[Len(s)] = t[Len(t)]
  <2>1. Len(t) \in DOMAIN t
    BY <1>1, <1>2
  <2> QED
    BY <1>1, <1>2, <2>1
<1>5. ASSUME NEW n \in DOMAIN s
      PROVE  /\ Sound(s[n])
             /\ s[n].do = "after" => n + 1 \in DOMAIN s /\ s[n + 1].do = "body"
             /\ s[n].do = "body" => {"do", "stop", "at", "terminated"} \subseteq DOMAIN s[n]
  <2>1. CASE n \in DOMAIN p
    BY <1>1, <2>1 DEF Plain
  <2>2. CASE n \notin DOMAIN p
    <3>1. n - k \in DOMAIN t /\ k + (n - k) = n /\ k + ((n - k) + 1) = n + 1
      BY <1>1, <2>2
    <3>2. s[n] = t[n - k]
      BY <1>1, <3>1
    <3>3. (n - k) + 1 \in DOMAIN t => n + 1 \in DOMAIN s /\ s[n + 1] = t[(n - k) + 1]
      BY <1>1, <3>1
    <3> QED
      BY <3>1, <3>2, <3>3 DEF ListFits
  <2> QED
    BY <2>1, <2>2
<1> QED
  BY <1>1, <1>3, <1>4, <1>5 DEF ListFits, s

\* A thing is done, and what it consists of takes its place.
LEMMA DoneFits ==
    ASSUME NEW s, ListFits(s), s[1].do \notin {"enter", "body"}
    PROVE  /\ ListFits(Tail(s)) /\ Cardinality(BodiesOf(Tail(s))) = Cardinality(BodiesOf(s))
           /\ \A p : Plain(p) => /\ ListFits(p \o Tail(s))
                                 /\ Cardinality(BodiesOf(p \o Tail(s))) = Cardinality(BodiesOf(s))
<1>1. Len(s) \in Nat \ {0} /\ s \in Seq(ToSet(s)) /\ s # <<>>
  BY RestFact DEF ListFits
<1>2. Len(s) > 1
  BY <1>1 DEF ListFits
<1>3. ListFits(Tail(s))
  BY <1>2, RestFits
<1>4. Cardinality(BodiesOf(Tail(s))) \in Nat
  BY <1>3, CountFinite DEF ListFits
<1>5. Cardinality(BodiesOf(Tail(s))) = Cardinality(BodiesOf(s))
  BY <1>1, <1>4, CountRest
<1> QED
  BY <1>3, <1>5, PushFits

\* body() is entered: one block more.
LEMMA EnterFits ==
    ASSUME NEW s, ListFits(s), s[1].do = "enter", NEW at
    PROVE  LET r == <<Block(s[1].stop, at)>> \o Tail(s) IN
           ListFits(r) /\ Cardinality(BodiesOf(r)) = Cardinality(BodiesOf(s)) + 1
<1> DEFINE t == Tail(s)
           b == Block(s[1].stop, at)
           x == <<b>>
           r == x \o t
<1>1. /\ s \in Seq(ToSet(s)) /\ s # <<>> /\ t \in Seq(ToSet(t))
      /\ DOMAIN s = 1 .. Len(s) /\ Len(s) \in Nat \ {0}
      /\ Len(t) = Len(s) - 1 /\ DOMAIN t = 1 .. Len(s) - 1
      /\ \A n \in 1 .. Len(s) - 1 : t[n] = s[n + 1]
  BY RestFact DEF ListFits
<1>2. /\ b.do = "body" /\ b.stop = s[1].stop
      /\ {"do", "stop", "at", "terminated"} \subseteq DOMAIN b /\ Sound(b)
  BY DEF Block, Sound
<1>3. x \in Seq(ToSet(x)) /\ Len(x) = 1 /\ x[1] = b /\ DOMAIN x = {1}
  BY DEF ToSet
<1>4. Cardinality(BodiesOf(s)) = Cardinality(BodiesOf(t)) /\ Cardinality(BodiesOf(t)) \in Nat
  <2>1. Cardinality(BodiesOf(t)) \in Nat
    <3> HIDE DEF t
    <3> QED
      BY <1>1, CountFinite
  <2>2. Cardinality(BodiesOf(s)) = Cardinality(BodiesOf(t)) + 0
    BY <1>1, CountRest
  <2> HIDE DEF t
  <2> QED
    BY <2>1, <2>2
<1> HIDE DEF t, b, x
<1>5. /\ r \in Seq(ToSet(r)) /\ Len(r) = 1 + Len(t) /\ DOMAIN r = 1 .. 1 + Len(t)
      /\ r[1] = b /\ \A n \in DOMAIN t : r[1 + n] = t[n]
  <2>1. /\ r \in Seq(ToSet(r)) /\ Len(r) = Len(x) + Len(t) /\ DOMAIN r = 1 .. Len(x) + Len(t)
        /\ \A n \in DOMAIN x : r[n] = x[n]
        /\ \A n \in DOMAIN t : r[Len(x) + n] = t[n]
    <3>1. x \in Seq(ToSet(x)) /\ t \in Seq(ToSet(t))
      BY <1>1, <1>3
    <3> QED
      BY ONLY <3>1, JoinFact DEF r
  <2> HIDE DEF r
  <2> QED
    BY <1>3, <2>1
<1> HIDE DEF r
<1>6. ASSUME NEW n \in DOMAIN s, n # 1 PROVE r[n] = s[n]
  <2>1. n - 1 \in DOMAIN t /\ 1 + (n - 1) = n /\ (n - 1) + 1 = n
    BY <1>1, <1>6
  <2> QED
    BY <1>1, <1>5, <2>1
<1>7. Len(r) = Len(s) /\ DOMAIN r = DOMAIN s /\ r # <<>>
  BY <1>1, <1>5
<1>8. r[Len(r)].do \in {"enter", "body"} /\ r[Len(r)].stop = {"eof"}
  BY <1>1, <1>2, <1>5, <1>6, <1>7 DEF ListFits
<1>9. ASSUME NEW n \in DOMAIN r
      PROVE  /\ Sound(r[n])
             /\ r[n].do = "after" => n + 1 \in DOMAIN r /\ r[n + 1].do = "body"
             /\ r[n].do = "body" => {"do", "stop", "at", "terminated"} \subseteq DOMAIN r[n]
  <2>1. CASE n = 1
    BY <1>2, <1>5, <2>1
  <2>2. CASE n # 1
    <3>1. r[n] = s[n] /\ n \in DOMAIN s /\ n + 1 # 1
      BY <1>1, <1>6, <1>7, <2>2
    <3>2. n + 1 \in DOMAIN s => r[n + 1] = s[n + 1]
      BY <1>6, <3>1
    <3> QED
      BY <1>7, <3>1, <3>2 DEF ListFits
  <2> QED
    BY <2>1, <2>2
<1>10. Cardinality(BodiesOf(r)) = Cardinality(BodiesOf(t)) + 1
  <2>1. Tail(r) = t
    <3>1. /\ Tail(r) \in Seq(ToSet(Tail(r))) /\ Len(Tail(r)) = Len(r) - 1
          /\ \A n \in 1 .. Len(r) - 1 : Tail(r)[n] = r[n + 1]
      BY <1>5, <1>7, RestFact
    <3> DEFINE S == ToSet(Tail(r)) \cup ToSet(t)
    <3>2. Tail(r) \in Seq(S) /\ t \in Seq(S)
      BY <1>1, <3>1, SeqMonotonic
    <3>3. \A n \in 1 .. Len(t) : Tail(r)[n] = t[n]
      <4>1. ASSUME NEW n \in 1 .. Len(t) PROVE Tail(r)[n] = t[n]
        <5>1. n \in 1 .. Len(r) - 1 /\ n \in DOMAIN t /\ 1 + n = n + 1
          BY <1>1, <1>5
        <5> QED
          BY <1>5, <3>1, <5>1
      <4> QED
        BY <4>1
    <3>4. Len(Tail(r)) = Len(t)
      BY <1>1, <1>5, <3>1
    <3> HIDE DEF S
    <3> QED
      BY <3>2, <3>3, <3>4, SeqEqual
  <2>2. r[1].do = "body"
    BY <1>2, <1>5
  <2> QED
    BY <1>4, <1>5, <1>7, <2>1, <2>2, CountRest
<1>11. ListFits(r)
  BY <1>5, <1>7, <1>8, <1>9 DEF ListFits
<1> QED
  BY <1>4, <1>10, <1>11 DEF r, b, t, x

\* The first thing of s is gone, and the block under it is marked so.
LaidBack(s, terminated, r) ==
    /\ Len(r) = Len(s) - 1 /\ s[2].do = "body" /\ r[1].do = "body"
    /\ r[1].stop = s[2].stop /\ r[1].at = s[2].at /\ r[1].terminated = terminated
    /\ \A n \in 2 .. Len(s) - 1 : r[n] = s[n + 1]

\* A statement ends: its block is the first thing again, empty no more.
LEMMA EndFits ==
    ASSUME NEW s, ListFits(s), s[1].do = "after", NEW terminated
    PROVE  LET b == [s[2] EXCEPT !.empty = FALSE, !.terminated = terminated]
               r == <<b>> \o SubSeq(s, 3, Len(s))
           IN  /\ ListFits(r) /\ Cardinality(BodiesOf(r)) = Cardinality(BodiesOf(s))
               /\ LaidBack(s, terminated, r)
<1> DEFINE t == Tail(s)
           b == [s[2] EXCEPT !.empty = FALSE, !.terminated = terminated]
           x == <<b>>
           q == SubSeq(s, 3, Len(s))
           r == x \o q
<1>1. /\ s \in Seq(ToSet(s)) /\ s # <<>> /\ t \in Seq(ToSet(t))
      /\ DOMAIN s = 1 .. Len(s) /\ Len(s) \in Nat \ {0}
      /\ Len(t) = Len(s) - 1 /\ DOMAIN t = 1 .. Len(s) - 1
      /\ \A n \in 1 .. Len(s) - 1 : t[n] = s[n + 1]
  BY RestFact DEF ListFits
<1>2. ListFits(t) /\ Cardinality(BodiesOf(t)) = Cardinality(BodiesOf(s))
  BY DoneFits
<1>3. 1 \in DOMAIN s /\ 2 \in DOMAIN s /\ s[2].do = "body" /\ t[1] = s[2] /\ 1 \in DOMAIN t
  <2>1. 1 \in DOMAIN s /\ 1 + 1 = 2
    BY <1>1
  <2>2. 2 \in DOMAIN s /\ s[2].do = "body"
    BY <2>1 DEF ListFits
  <2> QED
    BY <1>1, <2>1, <2>2
<1>4. /\ b.do = "body" /\ b.stop = s[2].stop /\ b.at = s[2].at /\ b.terminated = terminated
      /\ {"do", "stop", "at", "terminated"} \subseteq DOMAIN b /\ Sound(b)
  <2>1. {"do", "stop", "at", "terminated"} \subseteq DOMAIN s[2]
    BY <1>3 DEF ListFits
  <2> DEFINE c == s[2]
  <2>2. c.do = "body" /\ {"do", "stop", "at", "terminated"} \subseteq DOMAIN c
    BY <1>3, <2>1
  <2> HIDE DEF c
  <2> DEFINE d == [c EXCEPT !.empty = FALSE, !.terminated = terminated]
  <2>3. /\ d.do = "body" /\ d.stop = c.stop /\ d.at = c.at /\ d.terminated = terminated
        /\ {"do", "stop", "at", "terminated"} \subseteq DOMAIN d
    BY <2>2
  <2>4. b = d /\ s[2] = c
    BY DEF c
  <2> HIDE DEF d, b
  <2> QED
    BY <2>3, <2>4 DEF Sound
<1>5. /\ q \in Seq(ToSet(s)) /\ Len(q) = Len(s) - 2
      /\ \A n \in 1 .. Len(s) - 2 : q[n] = s[n + 2]
  <2>1. \A n \in 3 .. Len(s) : s[n] \in ToSet(s)
    BY <1>1
  <2>2. 3 \in Int /\ Len(s) \in Int /\ Len(s) >= 2
    BY <1>1, <1>3
  <2>3. /\ q \in Seq(ToSet(s)) /\ Len(q) = IF 3 <= Len(s) THEN Len(s) - 3 + 1 ELSE 0
        /\ \A n \in 1 .. Len(s) - 3 + 1 : q[n] = s[3 + n - 1]
    <3> DEFINE S == ToSet(s)
    <3>1. 3 \in Int /\ Len(s) \in Int /\ \A n \in 3 .. Len(s) : s[n] \in S
      BY <2>1, <2>2
    <3> HIDE DEF S
    <3>2. /\ q \in Seq(S) /\ Len(q) = IF 3 <= Len(s) THEN Len(s) - 3 + 1 ELSE 0
          /\ \A n \in 1 .. Len(s) - 3 + 1 : q[n] = s[3 + n - 1]
      BY ONLY <3>1, SubSeqProperties DEF q
    <3> QED
      BY <3>2 DEF S
  <2> HIDE DEF q
  <2>4. Len(q) = Len(s) - 2
    <3>1. Len(q) = IF 3 <= Len(s) THEN Len(s) - 3 + 1 ELSE 0
      BY <2>3
    <3> DEFINE l == Len(s)
               k == Len(q)
    <3>2. l \in Int /\ l >= 2 /\ k = IF 3 <= l THEN l - 3 + 1 ELSE 0
      BY <2>2, <3>1
    <3>3. k = l - 2
      <4> HIDE DEF l, k
      <4> QED
        BY ONLY <3>2
    <3> QED
      BY <3>3
  <2>5. ASSUME NEW n \in 1 .. Len(s) - 2 PROVE q[n] = s[n + 2]
    <3>1. n \in 1 .. Len(s) - 3 + 1 /\ 3 + n - 1 = n + 2
      BY <2>2
    <3> QED
      BY <2>3, <3>1
  <2> QED
    BY <2>3, <2>4, <2>5
<1>6. q \in Seq(ToSet(q)) /\ DOMAIN q = 1 .. Len(s) - 2
  BY <1>5, OwnValues, LenProperties
<1>7. x \in Seq(ToSet(x)) /\ Len(x) = 1 /\ x[1] = b /\ DOMAIN x = {1}
  BY DEF ToSet
<1> HIDE DEF t, b, x, q
<1>8. /\ r \in Seq(ToSet(r)) /\ Len(r) = Len(s) - 1 /\ DOMAIN r = 1 .. Len(s) - 1
      /\ r[1] = b /\ \A n \in DOMAIN q : r[1 + n] = q[n]
  <2>1. /\ r \in Seq(ToSet(r)) /\ Len(r) = Len(x) + Len(q) /\ DOMAIN r = 1 .. Len(x) + Len(q)
        /\ \A n \in DOMAIN x : r[n] = x[n]
        /\ \A n \in DOMAIN q : r[Len(x) + n] = q[n]
    BY ONLY <1>6, <1>7, JoinFact DEF r
  <2> HIDE DEF r
  <2>2. 1 + (Len(s) - 2) = Len(s) - 1
    BY <1>1
  <2> QED
    BY <1>5, <1>7, <2>1, <2>2
<1> HIDE DEF r
<1>9. ASSUME NEW n \in DOMAIN t, n # 1 PROVE r[n] = t[n]
  <2>1. n - 1 \in DOMAIN q /\ 1 + (n - 1) = n /\ (n - 1) + 2 = n + 1 /\ n - 1 \in 1 .. Len(s) - 2
    BY <1>1, <1>6, <1>9
  <2>2. r[n] = q[n - 1] /\ q[n - 1] = s[n + 1]
    BY <1>5, <1>8, <2>1
  <2> QED
    BY <1>1, <2>2
<1>10. DOMAIN r = DOMAIN t /\ Len(r) = Len(t) /\ r # <<>>
  BY <1>1, <1>3, <1>8
<1>11. r[Len(r)].do \in {"enter", "body"} /\ r[Len(r)].stop = {"eof"}
  <2>1. Len(t) \in DOMAIN t
    BY <1>1, <1>3
  <2>2. t[Len(t)].do \in {"enter", "body"} /\ t[Len(t)].stop = {"eof"}
    BY <1>2 DEF ListFits
  <2>3. CASE Len(t) = 1
    BY <1>3, <1>4, <1>8, <1>10, <2>2, <2>3
  <2>4. CASE Len(t) # 1
    BY <1>9, <1>10, <2>1, <2>2, <2>4
  <2> QED
    BY <2>3, <2>4
<1>12. ASSUME NEW n \in DOMAIN r
       PROVE  /\ Sound(r[n])
              /\ r[n].do = "after" => n + 1 \in DOMAIN r /\ r[n + 1].do = "body"
              /\ r[n].do = "body" => {"do", "stop", "at", "terminated"} \subseteq DOMAIN r[n]
  <2>1. CASE n = 1
    BY <1>4, <1>8, <2>1
  <2>2. CASE n # 1
    <3>1. r[n] = t[n] /\ n \in DOMAIN t /\ n + 1 # 1
      BY <1>1, <1>9, <1>10, <2>2
    <3>2. n + 1 \in DOMAIN t => r[n + 1] = t[n + 1]
      BY <1>9, <3>1
    <3> QED
      BY <1>2, <1>10, <3>1, <3>2 DEF ListFits
  <2> QED
    BY <2>1, <2>2
<1>13. BodiesOf(r) = BodiesOf(t)
  <2>1. r[1].do = "body" /\ t[1].do = "body"
    BY <1>3, <1>4, <1>8
  <2>2. \A n \in DOMAIN t : r[n].do = "body" <=> t[n].do = "body"
    BY <1>9, <2>1
  <2> QED
    BY <1>10, <2>2 DEF BodiesOf
<1>14. ListFits(r) /\ Cardinality(BodiesOf(r)) = Cardinality(BodiesOf(s))
  BY <1>2, <1>8, <1>10, <1>11, <1>12, <1>13 DEF ListFits
<1>15. /\ Len(r) = Len(s) - 1 /\ s[2].do = "body" /\ r[1].do = "body"
       /\ r[1].stop = s[2].stop /\ r[1].at = s[2].at /\ r[1].terminated = terminated
  BY <1>3, <1>4, <1>8
<1>16. ASSUME NEW n \in 2 .. Len(s) - 1 PROVE r[n] = s[n + 1]
  <2>1. n \in DOMAIN t /\ n # 1 /\ n \in 1 .. Len(s) - 1
    BY <1>1
  <2> QED
    BY <1>1, <1>9, <2>1
<1>17. LaidBack(s, terminated, r)
  BY <1>15, <1>16 DEF LaidBack
<1> QED
  BY <1>14, <1>17 DEF r, q, x, b

\* A statement starts: what it consists of, and after it the rest of its block.
LEMMA StartFits ==
    ASSUME NEW s, ListFits(s), s[1].do = "body", NEW p, Plain(p),
           NEW x, x.do = "after", Sound(x)
    PROVE  /\ ListFits(p \o <<x>> \o s)
           /\ Cardinality(BodiesOf(p \o <<x>> \o s)) = Cardinality(BodiesOf(s))
<1> DEFINE o == <<x>>
           t == o \o s
<1>1. s \in Seq(ToSet(s)) /\ s # <<>> /\ DOMAIN s = 1 .. Len(s) /\ Len(s) \in Nat \ {0}
  BY RestFact DEF ListFits
<1>2. o \in Seq(ToSet(o)) /\ Len(o) = 1 /\ o[1] = x /\ DOMAIN o = {1}
  BY DEF ToSet
<1> HIDE DEF o
<1>3. /\ t \in Seq(ToSet(t)) /\ Len(t) = 1 + Len(s) /\ DOMAIN t = 1 .. 1 + Len(s)
      /\ t[1] = x /\ \A n \in DOMAIN s : t[1 + n] = s[n]
  <2>1. /\ t \in Seq(ToSet(t)) /\ Len(t) = Len(o) + Len(s) /\ DOMAIN t = 1 .. Len(o) + Len(s)
        /\ \A n \in DOMAIN o : t[n] = o[n]
        /\ \A n \in DOMAIN s : t[Len(o) + n] = s[n]
    BY ONLY <1>1, <1>2, JoinFact DEF t
  <2> HIDE DEF t
  <2> QED
    BY <1>2, <2>1
<1>4. Cardinality(BodiesOf(t)) = Cardinality(BodiesOf(s))
  <2>1. \A n \in DOMAIN o : o[n].do # "body"
    BY <1>2
  <2> QED
    BY <1>1, <1>2, <2>1, CountPlain
<1> HIDE DEF t
<1>5. t # <<>> /\ t[Len(t)].do \in {"enter", "body"} /\ t[Len(t)].stop = {"eof"}
  <2>1. t[Len(t)] = s[Len(s)]
    BY <1>1, <1>3
  <2> QED
    BY <1>1, <1>3, <2>1 DEF ListFits
<1>6. ASSUME NEW n \in DOMAIN t
      PROVE  /\ Sound(t[n])
             /\ t[n].do = "after" => n + 1 \in DOMAIN t /\ t[n + 1].do = "body"
             /\ t[n].do = "body" => {"do", "stop", "at", "terminated"} \subseteq DOMAIN t[n]
  <2>1. CASE n = 1
    <3>1. 2 \in DOMAIN t /\ t[2] = s[1] /\ 1 + 1 = 2
      BY <1>1, <1>3
    <3> QED
      BY <1>3, <2>1, <3>1
  <2>2. CASE n # 1
    <3>1. n - 1 \in DOMAIN s /\ 1 + (n - 1) = n /\ 1 + ((n - 1) + 1) = n + 1
      BY <1>1, <1>3, <2>2
    <3>2. t[n] = s[n - 1]
      BY <1>3, <3>1
    <3>3. (n - 1) + 1 \in DOMAIN s => n + 1 \in DOMAIN t /\ t[n + 1] = s[(n - 1) + 1]
      BY <1>1, <1>3, <3>1
    <3> QED
      BY <3>1, <3>2, <3>3 DEF ListFits
  <2> QED
    BY <2>1, <2>2
<1>7. ListFits(t)
  BY <1>3, <1>5, <1>6 DEF ListFits
<1>8. p \o o \o s = p \o t
  <2> DEFINE S == ToSet(p) \cup ToSet(o) \cup ToSet(s)
  <2>1. p \in Seq(S) /\ o \in Seq(S) /\ s \in Seq(S)
    BY <1>1, <1>2, SeqMonotonic DEF Plain
  <2> HIDE DEF S
  <2> QED
    BY <2>1, ConcatAssociative DEF t
<1>9. ListFits(p \o t) /\ Cardinality(BodiesOf(p \o t)) = Cardinality(BodiesOf(s))
  BY <1>4, <1>7, PushFits
<1> QED
  BY <1>8, <1>9 DEF o

\* Plain things, one list of them after another.
LEMMA PlainJoin ==
    ASSUME NEW p, Plain(p), NEW q, Plain(q)
    PROVE  Plain(p \o q)
<1> DEFINE s == p \o q
           k == Len(p)
<1>1. /\ s \in Seq(ToSet(s)) /\ k \in Nat /\ Len(q) \in Nat
      /\ DOMAIN p = 1 .. k /\ DOMAIN q = 1 .. Len(q) /\ DOMAIN s = 1 .. k + Len(q)
      /\ \A n \in DOMAIN p : s[n] = p[n]
      /\ \A n \in DOMAIN q : s[k + n] = q[n]
  BY JoinFact DEF Plain
<1> HIDE DEF s, k
<1>2. ASSUME NEW n \in DOMAIN s PROVE s[n].do \notin {"body", "after"} /\ Sound(s[n])
  <2>1. CASE n \in DOMAIN p
    BY <1>1, <2>1 DEF Plain
  <2>2. CASE n \notin DOMAIN p
    <3>1. n - k \in DOMAIN q /\ k + (n - k) = n
      BY <1>1, <2>2
    <3> QED
      BY <1>1, <3>1 DEF Plain
  <2> QED
    BY <2>1, <2>2
<1> QED
  BY <1>1, <1>2 DEF Plain, s

\* A list that is written out is plain if its things are.
LEMMA PlainFact ==
    /\ Plain(<<>>)
    /\ \A a : a.do \notin {"body", "after"} /\ Sound(a) => Plain(<<a>>)
<1>1. Plain(<<>>)
  BY DEF Plain, ToSet
<1>2. ASSUME NEW a, a.do \notin {"body", "after"}, Sound(a) PROVE Plain(<<a>>)
  <2>1. <<a>> \in Seq(ToSet(<<a>>)) /\ DOMAIN <<a>> = {1} /\ <<a>>[1] = a
    BY DEF ToSet
  <2> QED
    BY <1>2, <2>1 DEF Plain
<1> QED
  BY <1>1, <1>2

\* Two, three and more things.
LEMMA PlainTuples ==
    /\ \A a, b : Plain(<<a>>) /\ Plain(<<b>>) => Plain(<<a, b>>)
    /\ \A a, b, c : Plain(<<a>>) /\ Plain(<<b>>) /\ Plain(<<c>>) => Plain(<<a, b, c>>)
    /\ \A a, b, c, d : Plain(<<a, b>>) /\ Plain(<<c, d>>) => Plain(<<a, b, c, d>>)
    /\ \A a, b, c, d, e : Plain(<<a, b, c>>) /\ Plain(<<d, e>>) => Plain(<<a, b, c, d, e>>)
    /\ \A a, b, c, d, e, f, g :
          Plain(<<a, b, c>>) /\ Plain(<<d, e, f, g>>) => Plain(<<a, b, c, d, e, f, g>>)
<1>1. ASSUME NEW a, NEW b, Plain(<<a>>), Plain(<<b>>) PROVE Plain(<<a, b>>)
  <2>1. <<a, b>> = <<a>> \o <<b>>
    <3>1. <<a>> \in Seq({a, b}) /\ b \in {a, b}
      OBVIOUS
    <3>2. Append(<<a>>, b) = <<a>> \o <<b>>
      BY <3>1, AppendIsConcat
    <3>3. Append(<<a>>, b) = <<a, b>>
      <4> DEFINE r == Append(<<a>>, b)
                 w == <<a, b>>
      <4>1. r \in Seq({a, b}) /\ Len(r) = 2 /\ r[1] = a /\ r[2] = b
        <5>1. Len(<<a>>) = 1 /\ <<a>>[1] = a
          OBVIOUS
        <5>2. /\ r \in Seq({a, b}) /\ Len(r) = Len(<<a>>) + 1
              /\ \A n \in 1 .. Len(<<a>>) : r[n] = <<a>>[n]
              /\ r[Len(<<a>>) + 1] = b
          BY <3>1, AppendProperties
        <5> HIDE DEF r
        <5> QED
          BY <5>1, <5>2
      <4>2. w \in Seq({a, b}) /\ Len(w) = 2 /\ w[1] = a /\ w[2] = b
        OBVIOUS
      <4> HIDE DEF r, w
      <4>3. \A n \in 1 .. Len(r) : r[n] = w[n]
        BY <4>1, <4>2
      <4>4. r = w
        BY <4>1, <4>2, <4>3, SeqEqual
      <4> QED
        BY <4>4 DEF r, w
    <3> QED
      BY <3>2, <3>3
  <2> QED
    BY <1>1, <2>1, PlainJoin
<1>2. ASSUME NEW a, NEW b, NEW c, Plain(<<a>>), Plain(<<b>>), Plain(<<c>>)
      PROVE  Plain(<<a, b, c>>)
  <2>1. <<a, b, c>> = <<a, b>> \o <<c>>
    OBVIOUS
  <2> QED
    BY <1>1, <1>2, <2>1, PlainJoin
<1>3. ASSUME NEW a, NEW b, NEW c, NEW d, Plain(<<a, b>>), Plain(<<c, d>>)
      PROVE  Plain(<<a, b, c, d>>)
  <2>1. <<a, b, c, d>> = <<a, b>> \o <<c, d>>
    OBVIOUS
  <2> QED
    BY <1>3, <2>1, PlainJoin
<1>4. ASSUME NEW a, NEW b, NEW c, NEW d, NEW e, Plain(<<a, b, c>>), Plain(<<d, e>>)
      PROVE  Plain(<<a, b, c, d, e>>)
  <2>1. <<a, b, c, d, e>> = <<a, b, c>> \o <<d, e>>
    OBVIOUS
  <2> QED
    BY <1>4, <2>1, PlainJoin
<1>5. ASSUME NEW a, NEW b, NEW c, NEW d, NEW e, NEW f, NEW g,
             Plain(<<a, b, c>>), Plain(<<d, e, f, g>>)
      PROVE  Plain(<<a, b, c, d, e, f, g>>)
  <2>1. <<a, b, c, d, e, f, g>> = <<a, b, c>> \o <<d, e, f, g>>
    OBVIOUS
  <2> QED
    BY <1>5, <2>1, PlainJoin
<1> QED
  BY <1>1, <1>2, <1>3, <1>4, <1>5

\* What statements consist of.
LEMMA ThingsArePlain ==
    /\ \A k : Plain(<<Take(k)>>) /\ Plain(<<Opening(k)>>) /\ Plain(<<Closing(k)>>)
    /\ \A k : k # "eof" => Plain(<<Accept(k)>>)
    /\ \A what : Plain(<<Name(what)>>) /\ Plain(<<Enter(what)>>)
    /\ \A what \in Decisions : Plain(<<Choose(what)>>)
    /\ Plain(<<Read>>) /\ Plain(<<Ignore>>) /\ Plain(<<Target>>)
    /\ Plain(<<[do |-> "method"]>>) /\ Plain(<<[do |-> "header end"]>>)
<1>1. ASSUME NEW k PROVE Plain(<<Take(k)>>) /\ Plain(<<Opening(k)>>) /\ Plain(<<Closing(k)>>)
  <2>1. /\ Take(k).do = "take" /\ Opening(k).do = "take" /\ Closing(k).do = "take"
    BY DEF Take, Opening, Closing
  <2> QED
    BY <2>1, PlainFact DEF Sound
<1>2. ASSUME NEW k, k # "eof" PROVE Plain(<<Accept(k)>>)
  <2>1. Accept(k).do = "accept" /\ Accept(k).kind = k
    BY DEF Accept
  <2> QED
    BY <1>2, <2>1, PlainFact DEF Sound
<1>3. ASSUME NEW what PROVE Plain(<<Name(what)>>) /\ Plain(<<Enter(what)>>)
  <2>1. Name(what).do = "name" /\ Enter(what).do = "enter"
    BY DEF Name, Enter
  <2> QED
    BY <2>1, PlainFact DEF Sound
<1>4. ASSUME NEW what \in Decisions PROVE Plain(<<Choose(what)>>)
  <2>1. Choose(what).do = "choose" /\ Choose(what).what = what
    BY DEF Choose
  <2> QED
    BY <2>1, PlainFact DEF Sound
<1>5. Plain(<<Read>>) /\ Plain(<<Ignore>>) /\ Plain(<<Target>>)
  <2>1. Read.do = "read" /\ Ignore.do = "ignore" /\ Target.do = "target"
    BY DEF Read, Ignore, Target
  <2> QED
    BY <2>1, PlainFact DEF Sound
<1>6. Plain(<<[do |-> "method"]>>) /\ Plain(<<[do |-> "header end"]>>)
  <2>1. [do |-> "method"].do = "method" /\ [do |-> "header end"].do = "header end"
    OBVIOUS
  <2> QED
    BY <2>1, PlainFact DEF Sound
<1> QED
  BY <1>1, <1>2, <1>3, <1>4, <1>5, <1>6

\* A branch of an if, and a loop.
LEMMA BlocksArePlain ==
    Plain(Branch) /\ Plain(Loop)
<1>1. Plain(Branch)
  <2>1. Plain(<<Read>>) /\ Plain(<<Opening("then")>>)
        /\ Plain(<<Enter({"elsif", "else", "endif"})>>) /\ Plain(<<Choose("branch")>>)
    BY ThingsArePlain DEF Decisions
  <2> QED
    BY <2>1, PlainTuples DEF Branch
<1>2. Plain(Loop)
  <2>1. Plain(<<Opening("do")>>) /\ Plain(<<Enter({"enddo"})>>) /\ Plain(<<Closing("enddo")>>)
    BY ThingsArePlain
  <2> QED
    BY <2>1, PlainTuples DEF Loop
<1> QED
  BY <1>1, <1>2

\* What a question is answered with.
LEMMA ChosenIsPlain ==
    ASSUME NEW what \in Decisions, NEW kind
    PROVE  Plain(Chosen(what, kind))
<1>1. Plain(NextBranch(kind))
  <2>1. Plain(<<Closing("elsif")>> \o Branch)
    BY ThingsArePlain, BlocksArePlain, PlainJoin
  <2>2. Plain(<<Take("else"), Enter({"endif"})>>)
    BY ThingsArePlain, PlainTuples
  <2> QED
    BY <2>1, <2>2, PlainFact DEF NextBranch
<1>2. Plain(ForRange(kind))
  <2>1. Plain(<<Take("each"), Name("other"), Take("in"), Read>>)
    BY ThingsArePlain, PlainTuples
  <2>2. Plain(<<Name("other"), Take("="), Read, Take("to"), Read>>)
    BY ThingsArePlain, PlainTuples
  <2> QED
    BY <2>1, <2>2 DEF ForRange
<1>3. Plain(Parameter)
  <2>1. /\ Plain(<<Accept("val")>>) /\ Plain(<<Name("parameter")>>)
        /\ Plain(<<Choose("default")>>) /\ Plain(<<Choose("parameter")>>)
    BY ThingsArePlain DEF Decisions
  <2> QED
    BY <2>1, PlainTuples DEF Parameter
<1>4. Plain(<<Take(",")>> \o Parameter)
  BY <1>3, ThingsArePlain, PlainJoin
<1>5. Plain(<<Take("="), Ignore>>)
  BY ThingsArePlain, PlainTuples
<1>6. Plain(<<Take(","), Name("local"), Choose("local")>>)
  <2>1. Plain(<<Take(",")>>) /\ Plain(<<Name("local")>>) /\ Plain(<<Choose("local")>>)
    BY ThingsArePlain DEF Decisions
  <2> QED
    BY <2>1, PlainTuples
<1>7. Plain(Value(what, kind))
  BY ThingsArePlain, PlainFact DEF Value
<1> DEFINE first == IF kind = ")" THEN <<>> ELSE Parameter
           next == IF kind = "," THEN <<Take(",")>> \o Parameter ELSE <<>>
           default == IF kind = "=" THEN <<Take("="), Ignore>> ELSE <<>>
           local == IF kind = "," THEN <<Take(","), Name("local"), Choose("local")>> ELSE <<>>
<1>8. Plain(first) /\ Plain(next) /\ Plain(default) /\ Plain(local)
  BY <1>3, <1>4, <1>5, <1>6, PlainFact
<1>9. /\ what = "branch" => Chosen(what, kind) = NextBranch(kind)
      /\ what = "range" => Chosen(what, kind) = ForRange(kind)
      /\ what = "first parameter" => Chosen(what, kind) = first
      /\ what = "parameter" => Chosen(what, kind) = next
      /\ what = "default" => Chosen(what, kind) = default
      /\ what = "local" => Chosen(what, kind) = local
      /\ what \in {"return", "raise"} => Chosen(what, kind) = Value(what, kind)
  <2> HIDE DEF first, next, default, local
  <2> QED
    BY DEF Chosen, first, next, default, local
<1> HIDE DEF first, next, default, local
<1> QED
  BY <1>1, <1>2, <1>7, <1>8, <1>9 DEF Decisions

\* A method after its keyword.
LEMMA MethodIsPlain ==
    ASSUME NEW kind
    PROVE  Plain(MethodRest(kind))
<1> DEFINE end == IF kind = "procedure" THEN "endprocedure" ELSE "endfunction"
<1>1. Plain(<<Name("other"), Take("("), Choose("first parameter")>>)
  <2>1. Plain(<<Name("other")>>) /\ Plain(<<Take("(")>>) /\ Plain(<<Choose("first parameter")>>)
    BY ThingsArePlain DEF Decisions
  <2> QED
    BY <2>1, PlainTuples
<1>2. Plain(<<Take(")"), [do |-> "header end"], Enter({end}), Closing(end)>>)
  <2>1. /\ Plain(<<Take(")")>>) /\ Plain(<<[do |-> "header end"]>>)
        /\ Plain(<<Enter({end})>>) /\ Plain(<<Closing(end)>>)
    BY ThingsArePlain
  <2> QED
    BY <2>1, PlainTuples
<1> QED
  BY <1>1, <1>2, PlainTuples DEF MethodRest

\* A statement.
LEMMA StatementIsPlain ==
    ASSUME NEW kind
    PROVE  Plain(Statement(kind))
<1>1. Plain(<<Take("async"), [do |-> "method"]>>) /\ Plain(<<[do |-> "method"]>>)
  BY ThingsArePlain, PlainTuples
<1>2. Plain(<<Take("var"), Name("local"), Choose("local"), Accept("export")>>)
  <2>1. /\ Plain(<<Take("var")>>) /\ Plain(<<Name("local")>>)
        /\ Plain(<<Choose("local")>>) /\ Plain(<<Accept("export")>>)
    BY ThingsArePlain DEF Decisions
  <2> QED
    BY <2>1, PlainTuples
<1>3. Plain(<<Take("if")>> \o Branch \o <<Closing("endif")>>)
  <2>1. Plain(<<Take("if")>> \o Branch)
    BY ThingsArePlain, BlocksArePlain, PlainJoin
  <2> QED
    BY <2>1, ThingsArePlain, PlainJoin
<1>4. Plain(<<Take("while"), Read>> \o Loop)
  <2>1. Plain(<<Take("while"), Read>>)
    BY ThingsArePlain, PlainTuples
  <2> QED
    BY <2>1, BlocksArePlain, PlainJoin
<1>5. Plain(<<Take("for"), Choose("range")>> \o Loop)
  <2>1. Plain(<<Take("for")>>) /\ Plain(<<Choose("range")>>)
    BY ThingsArePlain DEF Decisions
  <2>2. Plain(<<Take("for"), Choose("range")>>)
    BY <2>1, PlainTuples
  <2> QED
    BY <2>2, BlocksArePlain, PlainJoin
<1>6. Plain(<<Opening("try"), Enter({"except"}), Take("except"), Enter({"endtry"}),
              Closing("endtry")>>)
  <2>1. Plain(<<Opening("try"), Enter({"except"}), Take("except")>>)
    BY ThingsArePlain, PlainTuples
  <2>2. Plain(<<Enter({"endtry"}), Closing("endtry")>>)
    BY ThingsArePlain, PlainTuples
  <2> QED
    BY <2>1, <2>2, PlainTuples
<1>7. kind \in {"return", "raise"} => Plain(<<Take(kind), Choose(kind)>>)
  <2>1. kind \in {"return", "raise"} => Plain(<<Take(kind)>>) /\ Plain(<<Choose(kind)>>)
    BY ThingsArePlain DEF Decisions
  <2> QED
    BY <2>1, PlainTuples
<1>8. Plain(<<Take(kind)>>) /\ Plain(<<Target>>)
  BY ThingsArePlain
<1>9. Plain(<<Take("goto"), Take("~"), Name("other")>>)
      /\ Plain(<<Take("~"), Name("other"), Take(":")>>)
  BY ThingsArePlain, PlainTuples
<1>10. Plain(<<Take("execute"), Read>>)
  BY ThingsArePlain, PlainTuples
<1>11. Plain(Handler(kind))
  <2>1. Plain(<<Take(kind), Read>>) /\ Plain(<<Take(","), Read>>)
    BY ThingsArePlain, PlainTuples
  <2> QED
    BY <2>1, PlainTuples DEF Handler
<1>12. \/ Statement(kind) \in
          {<<Take("async"), [do |-> "method"]>>, <<[do |-> "method"]>>,
           <<Take("var"), Name("local"), Choose("local"), Accept("export")>>,
           <<Take("if")>> \o Branch \o <<Closing("endif")>>,
           <<Take("while"), Read>> \o Loop, <<Take("for"), Choose("range")>> \o Loop,
           <<Opening("try"), Enter({"except"}), Take("except"), Enter({"endtry"}),
             Closing("endtry")>>,
           <<Take(kind)>>, <<Target>>, <<Take("goto"), Take("~"), Name("other")>>,
           <<Take("~"), Name("other"), Take(":")>>, <<Take("execute"), Read>>, Handler(kind)}
       \/ kind \in {"return", "raise"} /\ Statement(kind) = <<Take(kind), Choose(kind)>>
  BY DEF Statement
<1> QED
  BY <1>1, <1>2, <1>3, <1>4, <1>5, <1>6, <1>7, <1>8, <1>9, <1>10, <1>11, <1>12

\* What can be looked at on a line.
LEMMA LooksFact ==
    ASSUME NEW line, NEW kinds, NEW afters, NEW m \in Looks(line, kinds, afters)
    PROVE  m.line = line /\ (kinds = {"eof"} => m.kind = "eof")
<1> DEFINE spoken == IF "expr" \in kinds THEN words.expressions ELSE {}
<1>1. \/ m \in {[kind |-> k, line |-> line, node |-> "none", names |-> {}, after |-> a] :
                 k \in kinds \ ({"expr"} \cup Directives), a \in afters}
      \/ m \in {[kind |-> "expr", line |-> line, node |-> e.node, names |-> e.names,
                 after |-> a] : e \in spoken, a \in afters}
  <2> HIDE DEF spoken
  <2> QED
    BY DEF Looks, spoken
<1>2. CASE m \in {[kind |-> k, line |-> line, node |-> "none", names |-> {}, after |-> a] :
                   k \in kinds \ ({"expr"} \cup Directives), a \in afters}
  <2>1. m.line = line /\ m.kind \in kinds
    BY <1>2
  <2> QED
    BY <2>1
<1>3. CASE m \in {[kind |-> "expr", line |-> line, node |-> e.node, names |-> e.names,
                   after |-> a] : e \in spoken, a \in afters}
  <2>1. m.line = line /\ spoken # {}
    <3> HIDE DEF spoken
    <3> QED
      BY <1>3
  <2>2. kinds # {"eof"}
    BY <2>1
  <2> QED
    BY <2>1, <2>2
<1> QED
  BY <1>1, <1>2, <1>3

\* The token that is looked at next.
LEMMA NextFits ==
    ASSUME TextFits, look.kind # "eof", NEW l \in NextLooks
    PROVE  l.line \in 1 .. words.lines /\ (l.kind # "eof" => Len(tokens) + 1 < words.tokens)
<1>1. /\ words.lines \in Nat \ {0} /\ words.tokens \in Nat \ {0}
      /\ look.line \in 1 .. words.lines /\ Len(tokens) \in Nat
  BY BslAssumption, LenProperties DEF TextFits
<1>2. CASE Len(tokens) + 1 >= words.tokens
  <2>1. l \in Looks(look.line, {"eof"}, {"no"})
    BY <1>2 DEF NextLooks
  <2>2. l.line = look.line /\ l.kind = "eof"
    BY <2>1, LooksFact
  <2> QED
    BY <1>1, <2>2
<1>3. CASE ~ (Len(tokens) + 1 >= words.tokens)
  <2>1. Len(tokens) + 1 < words.tokens
    BY <1>1, <1>3
  <2>2. \/ l \in Looks(look.line, words.kinds \cup {"eof"}, {"no"})
        \/ /\ look.line < words.lines
           /\ l \in Looks(look.line + 1, words.kinds, {"no"} \cup (words.kinds \cap Directives))
    BY <1>3 DEF NextLooks, Begun
  <2>3. \/ l.line = look.line
        \/ look.line < words.lines /\ l.line = look.line + 1
    BY <2>2, LooksFact
  <2>4. l.line \in 1 .. words.lines
    BY <1>1, <2>3
  <2> QED
    BY <2>1, <2>4
<1> QED
  BY <1>2, <1>3

\* take(): the text still fits.
LEMMA ConsumeFits ==
    ASSUME TextFits, look.kind # "eof", NEW rest, Consume(rest),
           UNCHANGED words, statementLines' = statementLines
    PROVE  TextFits'
<1>1. /\ tokens' = Append(tokens, look) /\ look' \in NextLooks
      /\ tokens \in Seq(ToSet(tokens)) /\ Len(tokens) < words.tokens
  BY DEF Consume, TextFits
<1>2. Len(tokens) \in Nat /\ words.tokens \in Nat
  BY <1>1, LenProperties, BslAssumption DEF TextFits
<1>3. look'.line \in 1 .. words.lines /\ (look'.kind # "eof" => Len(tokens) + 1 < words.tokens)
  BY <1>1, NextFits
<1>4. Len(tokens') = Len(tokens) + 1 /\ tokens' \in Seq(ToSet(tokens'))
  <2> DEFINE S == ToSet(tokens) \cup {look}
             r == Append(tokens, look)
  <2>1. tokens \in Seq(S) /\ look \in S
    BY <1>1, SeqMonotonic
  <2> HIDE DEF S
  <2>2. r \in Seq(S) /\ Len(r) = Len(tokens) + 1
    BY <2>1, AppendProperties
  <2> HIDE DEF r
  <2>3. r \in Seq(ToSet(r))
    BY <2>2, OwnValues
  <2>4. tokens' = r
    BY <1>1 DEF r
  <2> QED
    BY <2>2, <2>3, <2>4
<1>5. Len(tokens') <= words.tokens
  BY <1>1, <1>2, <1>4
<1>6. look'.kind # "eof" => Len(tokens') < words.tokens
  BY <1>3, <1>4
<1> QED
  BY <1>3, <1>4, <1>5, <1>6 DEF TextFits

\* Nothing is taken: the text still fits.
LEMMA TextStays ==
    ASSUME TextFits, UNCHANGED <<words, tokens, look, statementLines>>
    PROVE  TextFits'
BY DEF TextFits

\* ParseFailure.
LEMMA FailFits ==
    ASSUME ParserInv, Fail
    PROVE  ParserInv'
<1>1. /\ verdict' = "failed" /\ tokens' = <<>> /\ agenda' = <<>> /\ statementLines' = {}
      /\ words' = words
  BY DEF Fail
<1>2. words.tokens \in Nat /\ MaxDepth \in Nat
  BY BslAssumption DEF ParserInv
<1>3. Blocks' = {}
  BY <1>1 DEF Blocks
<1>4. IsFiniteSet(Blocks') /\ Cardinality(Blocks') <= MaxDepth
  BY <1>2, <1>3, FS_EmptySet
<1>5. Len(tokens') <= words.tokens
  BY <1>1, <1>2
<1> QED
  BY <1>1, <1>4, <1>5 DEF ParserInv

\* The parser goes on: the list of what is left to do fits as the text does.
LEMMA ParserGoesOn ==
    ASSUME verdict = "parsing", verdict' = verdict, TextFits', ListFits(agenda'),
           Cardinality(BodiesOf(agenda')) <= MaxDepth
    PROVE  ParserInv'
<1>1. IsFiniteSet(BodiesOf(agenda'))
  BY CountFinite DEF ListFits
<1>2. Blocks' = BodiesOf(agenda')
  BY DEF Blocks, BodiesOf
<1>3. ListFits(agenda)'
  BY DEF ListFits
<1> QED
  BY <1>1, <1>2, <1>3 DEF ParserInv, TextFits

\* The same after a thing that is no block, and what takes its place.
LEMMA ReplacedFits ==
    ASSUME ParserInv, verdict = "parsing", verdict' = verdict, TextFits',
           agenda[1].do \notin {"enter", "body"},
           \/ agenda' = Tail(agenda)
           \/ \E p : Plain(p) /\ agenda' = p \o Tail(agenda)
    PROVE  ParserInv'
<1>1. ListFits(agenda) /\ Cardinality(BodiesOf(agenda)) <= MaxDepth
  BY DEF ParserInv, Blocks, BodiesOf
<1>2. /\ ListFits(agenda') /\ Cardinality(BodiesOf(agenda')) = Cardinality(BodiesOf(agenda))
  <2>1. CASE agenda' = Tail(agenda)
    BY <1>1, <2>1, DoneFits
  <2>2. CASE \E p : Plain(p) /\ agenda' = p \o Tail(agenda)
    <3>1. PICK p : Plain(p) /\ agenda' = p \o Tail(agenda)
      BY <2>2
    <3> QED
      BY <1>1, <3>1, DoneFits
  <2> QED
    BY <2>1, <2>2
<1> QED
  BY <1>1, <1>2, ParserGoesOn

\* Every step of the parser keeps its invariant.
LEMMA ParserStep ==
    ASSUME ParserInv, ParserNext
    PROVE  ParserInv'
<1>1. verdict = "parsing" /\ agenda # <<>> /\ UNCHANGED words
  BY DEF ParserNext, Doing, Fail, TakeToken, AcceptToken, Decide, Expression, TakeName, EnterBlock,
         LeaveBlock, EmptyStatement, StartStatement, EndStatement, StartMethod, EndHeader,
         StartExpression, AssignOrCall
<1>2. /\ ListFits(agenda) /\ TextFits /\ Cardinality(BodiesOf(agenda)) <= MaxDepth
      /\ 1 \in DOMAIN agenda /\ Sound(agenda[1])
  <2>1. ListFits(agenda) /\ TextFits /\ Cardinality(BodiesOf(agenda)) <= MaxDepth
    BY <1>1 DEF ParserInv, Blocks, BodiesOf
  <2>2. DOMAIN agenda = 1 .. Len(agenda) /\ Len(agenda) \in Nat \ {0}
    BY <1>1, <2>1, RestFact DEF ListFits
  <2>3. 1 \in DOMAIN agenda
    BY <2>2
  <2> QED
    BY <2>1, <2>3 DEF ListFits
<1>3. Fail => ParserInv'
  BY FailFits
<1>4. ASSUME NEW rest, Consume(rest), look.kind # "eof", statementLines' = statementLines
      PROVE  TextFits' /\ agenda' = rest
  BY <1>1, <1>2, <1>4, ConsumeFits DEF Consume
<1>5. UNCHANGED <<tokens, look, statementLines>> => TextFits'
  BY <1>1, <1>2, TextStays
<1>6. CASE TakeToken
  <2>1. CASE look.kind # Head1.kind \/ look.kind = "eof"
    BY <1>3, <1>6, <2>1 DEF TakeToken
  <2>2. CASE ~ (look.kind # Head1.kind \/ look.kind = "eof")
    <3>1. /\ Consume(Tail(agenda)) /\ statementLines' = statementLines /\ verdict' = verdict
          /\ agenda[1].do = "take"
      BY <1>6, <2>2 DEF TakeToken, Doing, Head1
    <3>2. TextFits' /\ agenda' = Tail(agenda)
      BY <1>4, <2>2, <3>1
    <3> QED
      BY <1>1, <3>1, <3>2, ReplacedFits
  <2> QED
    BY <2>1, <2>2
<1>7. CASE AcceptToken
  <2>1. agenda[1].do = "accept" /\ agenda[1].kind # "eof"
    BY <1>2, <1>7 DEF AcceptToken, Doing, Head1, Sound
  <2>2. statementLines' = statementLines /\ verdict' = verdict
    BY <1>7 DEF AcceptToken
  <2>3. TextFits' /\ agenda' = Tail(agenda)
    <3>1. CASE look.kind = Head1.kind
      <4>1. Consume(Tail(agenda)) /\ look.kind # "eof"
        BY <1>7, <2>1, <3>1 DEF AcceptToken, Head1
      <4> QED
        BY <1>4, <2>2, <4>1
    <3>2. CASE look.kind # Head1.kind
      BY <1>5, <1>7, <2>2, <3>2 DEF AcceptToken
    <3> QED
      BY <3>1, <3>2
  <2> QED
    BY <1>1, <2>1, <2>2, <2>3, ReplacedFits
<1>8. CASE Decide
  <2>1. /\ agenda[1].do = "choose" /\ agenda[1].what \in Decisions
        /\ agenda' = Chosen(agenda[1].what, look.kind) \o Tail(agenda)
        /\ UNCHANGED <<tokens, look, statementLines, verdict>>
    BY <1>2, <1>8 DEF Decide, Doing, Head1, Sound
  <2>2. Plain(Chosen(agenda[1].what, look.kind))
    BY <2>1, ChosenIsPlain
  <2> QED
    BY <1>1, <1>5, <2>1, <2>2, ReplacedFits
<1>9. CASE Expression
  <2>1. CASE TooDeep \/ look.kind # "expr"
    BY <1>3, <1>9, <2>1 DEF Expression
  <2>2. CASE ~ (TooDeep \/ look.kind # "expr")
    <3>1. /\ Consume(Tail(agenda)) /\ statementLines' = statementLines /\ verdict' = verdict
          /\ agenda[1].do \in {"read", "ignore"} /\ look.kind # "eof"
      BY <1>9, <2>2 DEF Expression, Doing, Head1
    <3>2. TextFits' /\ agenda' = Tail(agenda)
      BY <1>4, <3>1
    <3> QED
      BY <1>1, <3>1, <3>2, ReplacedFits
  <2> QED
    BY <2>1, <2>2
<1>10. CASE TakeName
  <2>1. CASE look.kind # "expr" \/ look.node # "identifier"
    BY <1>3, <1>10, <2>1 DEF TakeName
  <2>2. CASE ~ (look.kind # "expr" \/ look.node # "identifier")
    <3>1. /\ Consume(Tail(agenda)) /\ statementLines' = statementLines /\ verdict' = verdict
          /\ agenda[1].do = "name" /\ look.kind # "eof"
      BY <1>10, <2>2 DEF TakeName, Doing, Head1
    <3>2. TextFits' /\ agenda' = Tail(agenda)
      BY <1>4, <3>1
    <3> QED
      BY <1>1, <3>1, <3>2, ReplacedFits
  <2> QED
    BY <2>1, <2>2
<1>11. CASE EnterBlock
  <2>1. CASE TooDeep
    BY <1>3, <1>11, <2>1 DEF EnterBlock
  <2>2. CASE ~ TooDeep
    <3>1. /\ agenda[1].do = "enter"
          /\ agenda' = <<Block(agenda[1].stop, Len(tokens))>> \o Tail(agenda)
          /\ UNCHANGED <<tokens, look, statementLines, verdict>>
      BY <1>11, <2>2 DEF EnterBlock, Doing, Head1
    <3>2. /\ ListFits(agenda')
          /\ Cardinality(BodiesOf(agenda')) = Cardinality(BodiesOf(agenda)) + 1
      BY <1>2, <3>1, EnterFits
    <3>3. Cardinality(BodiesOf(agenda)) + 1 <= MaxDepth
      <4>1. Cardinality(BodiesOf(agenda)) \in Nat /\ MaxDepth \in Nat
        BY <1>2, CountFinite, BslAssumption DEF ListFits
      <4>2. ~ (Cardinality(BodiesOf(agenda)) + 1 > MaxDepth)
        BY <2>2 DEF TooDeep, Blocks, BodiesOf
      <4> QED
        BY <4>1, <4>2
    <3> QED
      BY <1>1, <1>5, <3>1, <3>2, <3>3, ParserGoesOn
  <2> QED
    BY <2>1, <2>2
<1>12. CASE LeaveBlock
  <2>1. /\ agenda[1].do = "body" /\ look.kind \in agenda[1].stop /\ agenda' = Tail(agenda)
        /\ verdict' = IF look.kind = "eof" THEN "parsed" ELSE verdict
        /\ UNCHANGED <<tokens, look, statementLines>>
    BY <1>12 DEF LeaveBlock, Doing, Head1
  <2>2. /\ agenda \in Seq(ToSet(agenda)) /\ Tail(agenda) \in Seq(ToSet(Tail(agenda)))
        /\ Len(agenda) \in Nat \ {0}
    BY <1>1, <1>2, RestFact DEF ListFits
  <2>3. /\ IsFiniteSet(BodiesOf(Tail(agenda)))
        /\ Cardinality(BodiesOf(Tail(agenda))) \in Nat
    BY <2>2, CountFinite
  <2>4. Cardinality(BodiesOf(agenda)) = Cardinality(BodiesOf(Tail(agenda))) + 1
    BY <1>1, <2>1, <2>2, CountRest
  <2>5. MaxDepth \in Nat
    BY BslAssumption
  <2>6. Cardinality(BodiesOf(Tail(agenda))) <= MaxDepth
    BY <1>2, <2>3, <2>4, <2>5
  <2>7. CASE look.kind = "eof"
    <3>1. Blocks' = BodiesOf(Tail(agenda))
      BY <2>1 DEF Blocks, BodiesOf
    <3> QED
      BY <1>1, <1>2, <2>1, <2>3, <2>6, <2>7, <3>1 DEF ParserInv
  <2>8. CASE look.kind # "eof"
    <3>1. Len(agenda) # 1
      <4>1. Len(agenda) = 1 => agenda[1].stop = {"eof"}
        BY <1>2 DEF ListFits
      <4> QED
        BY <2>1, <2>8, <4>1
    <3>2. Len(agenda) > 1
      <4> DEFINE k == Len(agenda)
      <4>1. k \in Nat \ {0} /\ k # 1
        BY <2>2, <3>1
      <4>2. k > 1
        <5> HIDE DEF k
        <5> QED
          BY ONLY <4>1
      <4> QED
        BY <4>2
    <3>3. ListFits(Tail(agenda))
      BY <1>2, <3>2, RestFits
    <3> QED
      BY <1>1, <1>5, <2>1, <2>6, <2>8, <3>3, ParserGoesOn
  <2> QED
    BY <2>7, <2>8
<1>13. CASE EmptyStatement
  <2>1. Consume(agenda) /\ look.kind # "eof" /\ UNCHANGED <<statementLines, verdict>>
    BY <1>13 DEF EmptyStatement
  <2>2. TextFits' /\ agenda' = agenda
    BY <1>4, <2>1
  <2> QED
    BY <1>1, <1>2, <2>1, <2>2, ParserGoesOn
<1>14. CASE StartStatement
  <2> DEFINE misplaced == \/ look.kind = "eof"
                          \/ look.kind \in MethodKinds \cup {"async"} /\ Head1.stop # {"eof"}
  <2>1. CASE misplaced
    BY <1>3, <1>14, <2>1 DEF StartStatement
  <2>2. CASE ~ misplaced
    <3>1. /\ agenda[1].do = "body" /\ UNCHANGED <<tokens, look, verdict>>
          /\ statementLines' = statementLines \cup {look.line}
          /\ agenda' = Statement(look.kind) \o <<AfterIt(look.kind)>> \o agenda
      BY <1>14, <2>2 DEF StartStatement, Doing, Head1
    <3>2. AfterIt(look.kind).do = "after" /\ Sound(AfterIt(look.kind))
      BY DEF AfterIt, After, Sound
    <3>3. /\ ListFits(agenda')
          /\ Cardinality(BodiesOf(agenda')) = Cardinality(BodiesOf(agenda))
      BY <1>2, <3>1, <3>2, StatementIsPlain, StartFits
    <3>4. TextFits'
      BY <1>1, <1>2, <3>1 DEF TextFits
    <3> QED
      BY <1>1, <1>2, <3>1, <3>3, <3>4, ParserGoesOn
  <2> QED
    BY <2>1, <2>2
<1>15. CASE EndStatement
  <2> DEFINE block == [agenda[2] EXCEPT !.empty = FALSE,
                          !.terminated = Terminated(Head1.kind, Head1.terminated)]
             rest == <<block>> \o SubSeq(agenda, 3, Len(agenda))
             unfinished == /\ look.kind \notin {";"} \cup block.stop
                           /\ Head1.kind \notin MethodKinds \cup {"async", "~"}
  <2>1. agenda[1].do = "after"
    BY <1>15 DEF EndStatement, Doing, Head1
  <2>2. ListFits(rest) /\ Cardinality(BodiesOf(rest)) = Cardinality(BodiesOf(agenda))
    BY <1>2, <2>1, EndFits
  <2>3. /\ unfinished => Fail
        /\ ~ unfinished => /\ \/ look.kind = ";" /\ Consume(rest)
                              \/ agenda' = rest /\ UNCHANGED <<tokens, look>>
                           /\ UNCHANGED <<statementLines, verdict>>
    BY <1>15 DEF EndStatement
  <2> HIDE DEF rest, unfinished
  <2>4. ~ unfinished => TextFits' /\ agenda' = rest
    BY <1>4, <1>5, <2>3
  <2> QED
    BY <1>1, <1>2, <1>3, <2>2, <2>3, <2>4, ParserGoesOn
<1>16. CASE StartMethod
  <2>1. CASE look.kind \notin MethodKinds
    BY <1>3, <1>16, <2>1 DEF StartMethod
  <2>2. CASE look.kind \in MethodKinds
    <3>1. /\ Consume(MethodRest(look.kind) \o Tail(agenda))
          /\ UNCHANGED <<statementLines, verdict>>
          /\ agenda[1].do = "method" /\ look.kind # "eof"
      BY <1>16, <2>2 DEF StartMethod, Doing, Head1, MethodKinds
    <3>2. TextFits' /\ agenda' = MethodRest(look.kind) \o Tail(agenda)
      BY <1>4, <3>1
    <3> QED
      BY <1>1, <3>1, <3>2, MethodIsPlain, ReplacedFits
  <2> QED
    BY <2>1, <2>2
<1>17. CASE EndHeader
  <2>1. agenda[1].do = "header end" /\ UNCHANGED <<statementLines, verdict>>
    BY <1>17 DEF EndHeader, Doing, Head1
  <2>2. TextFits' /\ agenda' = Tail(agenda)
    <3>1. CASE look.kind = "export"
      <4>1. Consume(Tail(agenda)) /\ look.kind # "eof"
        BY <1>17, <3>1 DEF EndHeader
      <4> QED
        BY <1>4, <2>1, <4>1
    <3>2. CASE look.kind # "export"
      BY <1>5, <1>17, <2>1, <3>2 DEF EndHeader
    <3> QED
      BY <3>1, <3>2
  <2> QED
    BY <1>1, <2>1, <2>2, ReplacedFits
<1>18. CASE StartExpression
  <2> DEFINE assign == [do |-> "assign", node |-> look.node, names |-> look.names]
  <2>1. CASE TooDeep \/ look.kind # "expr"
    BY <1>3, <1>18, <2>1 DEF StartExpression
  <2>2. CASE ~ (TooDeep \/ look.kind # "expr")
    <3>1. /\ Consume(<<assign>> \o Tail(agenda)) /\ UNCHANGED <<statementLines, verdict>>
          /\ agenda[1].do = "target" /\ look.kind # "eof"
      BY <1>18, <2>2 DEF StartExpression, Doing, Head1
    <3>2. Plain(<<assign>>)
      <4>1. assign.do = "assign"
        OBVIOUS
      <4> HIDE DEF assign
      <4> QED
        BY <4>1, PlainFact DEF Sound
    <3> HIDE DEF assign
    <3>3. TextFits' /\ agenda' = <<assign>> \o Tail(agenda)
      BY <1>4, <3>1
    <3> QED
      BY <1>1, <3>1, <3>2, <3>3, ReplacedFits
  <2> QED
    BY <2>1, <2>2
<1>19. CASE AssignOrCall
  <2>1. agenda[1].do = "assign"
    BY <1>19 DEF AssignOrCall, Doing, Head1
  <2>2. \/ Fail
        \/ /\ look.kind = "=" /\ Consume(<<Read>> \o Tail(agenda))
           /\ UNCHANGED <<statementLines, verdict>>
        \/ agenda' = Tail(agenda) /\ UNCHANGED <<tokens, look, statementLines, verdict>>
    BY <1>19 DEF AssignOrCall
  <2>3. CASE look.kind = "=" /\ Consume(<<Read>> \o Tail(agenda))
             /\ UNCHANGED <<statementLines, verdict>>
    <3>1. TextFits' /\ agenda' = <<Read>> \o Tail(agenda)
      BY <1>4, <2>3
    <3> QED
      BY <1>1, <2>1, <2>3, <3>1, ThingsArePlain, ReplacedFits
  <2>4. CASE agenda' = Tail(agenda) /\ UNCHANGED <<tokens, look, statementLines, verdict>>
    BY <1>1, <1>5, <2>1, <2>4, ReplacedFits
  <2> QED
    BY <1>3, <2>2, <2>3, <2>4
<1> QED
  BY <1>6, <1>7, <1>8, <1>9, <1>10, <1>11, <1>12, <1>13, <1>14, <1>15, <1>16, <1>17, <1>18,
     <1>19 DEF ParserNext

\* A text is begun with nothing taken and the whole of it to do.
LEMMA ParserBegins == ParserInit => ParserInv
<1> SUFFICES ASSUME ParserInit PROVE ParserInv
  OBVIOUS
<1>1. /\ words \in Vocabularies /\ look \in Looks(1, words.kinds, {"no"}) /\ tokens = <<>>
      /\ agenda = <<Enter({"eof"})>> /\ statementLines = {} /\ verdict = "parsing"
  BY DEF ParserInit, Begun
<1>2. words.tokens \in Nat \ {0} /\ words.lines \in Nat \ {0} /\ MaxDepth \in Nat
  BY <1>1, BslAssumption
<1>3. look.line = 1
  BY <1>1, LooksFact
<1>4. TextFits
  <2>1. tokens \in Seq(ToSet(tokens)) /\ Len(tokens) = 0
    BY <1>1 DEF ToSet
  <2> QED
    BY <1>1, <1>2, <1>3, <2>1 DEF TextFits
<1>5. /\ agenda \in Seq(ToSet(agenda)) /\ Len(agenda) = 1 /\ DOMAIN agenda = {1}
      /\ agenda # <<>> /\ agenda[1].do = "enter" /\ agenda[1].stop = {"eof"}
  <2> DEFINE e == Enter({"eof"})
  <2>1. e.do = "enter" /\ e.stop = {"eof"}
    BY DEF Enter
  <2> HIDE DEF e
  <2>2. /\ <<e>> \in Seq(ToSet(<<e>>)) /\ Len(<<e>>) = 1 /\ DOMAIN <<e>> = {1} /\ <<e>> # <<>>
        /\ <<e>>[1] = e
    BY DEF ToSet
  <2>3. agenda = <<e>>
    BY <1>1 DEF e
  <2> QED
    BY <2>1, <2>2, <2>3
<1>6. ListFits(agenda)
  BY <1>5 DEF ListFits, Sound
<1>7. Blocks = {}
  BY <1>5 DEF Blocks
<1>8. IsFiniteSet(Blocks) /\ Cardinality(Blocks) <= MaxDepth
  BY <1>2, <1>7, FS_EmptySet
<1> QED
  BY <1>1, <1>4, <1>6, <1>8 DEF ParserInv, TextFits

\* For all vocabularies and every limit of the depth: while a text is parsed there is
\* always something left to do and the current token is on a line of the text, no more
\* tokens are taken than there are, statement lines are lines of the text, and never
\* are more blocks open than max_depth, however deep what is being parsed would go.
THEOREM ParserTypeCorrect == ParserSpec => []ParserTypeOK
<1>1. ParserInit => ParserInv
  BY ParserBegins
<1>2. ParserInv /\ [ParserNext]_parserVars => ParserInv'
  <2> SUFFICES ASSUME ParserInv, [ParserNext]_parserVars PROVE ParserInv'
    OBVIOUS
  <2>1. CASE ParserNext
    BY <2>1, ParserStep
  <2>2. CASE UNCHANGED parserVars
    BY <2>2 DEF parserVars, ParserInv, ListFits, TextFits, Blocks
  <2> QED
    BY <2>1, <2>2
<1>3. ParserInv => ParserTypeOK
  BY DEF ParserInv, ParserTypeOK, ListFits, TextFits
<1> QED
  BY <1>1, <1>2, <1>3, PTL DEF ParserSpec

================================================================================
