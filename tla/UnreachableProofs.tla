---------------------------- MODULE UnreachableProofs ----------------------------
(***************************************************************************)
(* The parser of statements, for texts of any length and depth: it reports *)
(* as unreachable exactly the statements behind an unconditional jump of   *)
(* their block.                                                            *)
(*                                                                         *)
(* The property speaks of the text alone: of nesting counted from keywords *)
(* and of tokens that a statement may start on.  The parser knows neither; *)
(* it has a flag `terminated` in each open block.  So the proof says what  *)
(* the list of things to do tells of the text that has been read: how deep *)
(* it is nested, which block and which statement of it is under way, and   *)
(* whether a jump is open there.  The list is looked at from its end, as a *)
(* pile z of height h; of the text ts the first n tokens are taken, and    *)
(* `peek` is the token that is looked at.  A step replaces the top of the  *)
(* pile (Raised), takes a token for it or not (Taking, Skipping), enters   *)
(* or leaves a block, or begins or ends a statement (Laid).                *)
(***************************************************************************)
EXTENDS ParserProofs

--------------------------------------------------------------------------------
(* The things to do: what they take, and where they may lie on each other *)

\* What a statement may come after, and the tokens none begins with.
Breaks == {";", "then", "else", "do", "try", "except", ":", ")", "export", "endprocedure",
           "endfunction"}
NoStart == Closers \cup {";", "export"}

\* A token that ends a block with its statement, opens one, or goes on with a branch.
TakesEnd(d) == d.do = "take" /\ d.kind \in Ends
TakesOpener(d) == d.do = "take" /\ d.kind \in Openers
TakesMiddle(d) == d.do = "take" /\ d.kind \in Middles

\* The question whether another branch follows; what opens a block or may come to one;
\* what a statement may begin with.
AsksBranch(d) == d.do = "choose" /\ d.what = "branch"
Gating(d) == TakesOpener(d) \/ TakesMiddle(d)
Continuing(d) == d.do \in {"enter", "body"} \/ AsksBranch(d) \/ Gating(d)
Begins(d) == d.do \in {"method", "target", "assign"}

\* What only happens where a statement may start, and what leaves the text there.
NeedsBreak(d) ==
    \/ d.do \in {"enter", "header end"}
    \/ (d.do = "after" /\ d.kind \in MethodKinds \cup {"async", "~"})
LeavesBreak(d) == d.do \in {"method", "header end"} \/ (d.do = "take" /\ d.kind \in Breaks)

\* What only happens within a statement or takes its first token, and what leaves the text
\* within one.
NeedsInside(d) ==
    \/ (d.do = "take" /\ d.kind \notin NoStart)
    \/ (d.do = "accept" /\ d.kind # "export")
    \/ d.do \in {"read", "ignore", "name", "target", "assign", "method"}
    \/ (d.do = "choose" /\ d.what # "branch")
LeavesInside(d) ==
    \/ (d.do = "take" /\ d.kind \notin Breaks)
    \/ (d.do = "accept" /\ d.kind # "export")
    \/ d.do \in {"read", "ignore", "name", "assign"}
    \/ (d.do = "choose" /\ d.what # "branch")

\* d lies on e
Adjoins(d, e) ==
    /\ NeedsBreak(e) => LeavesBreak(d)
    /\ NeedsInside(e) => LeavesInside(d)
    /\ TakesEnd(d) \/ Begins(d) => e.do = "after"
    /\ AsksBranch(d) => TakesEnd(e)
    /\ (d.do = "after" <=> e.do = "body")

\* Options are those of values and exports, and only the text itself ends at its end.
Usual(d) ==
    /\ d.do = "accept" => d.kind \in {"val", "export"}
    /\ d.do \in {"enter", "body"} => "eof" \notin d.stop

\* Whatever pile the parser has: the body of the text at its bottom, each thing fit to lie
\* on the one below, and a block of a statement only above the end token of that statement.
StackFits(z, h) ==
    /\ z[1].do \in {"enter", "body"} /\ (z[1].do = "enter" => h = 1)
    /\ \A m \in 2 .. h : Usual(z[m]) /\ Adjoins(z[m], z[m - 1])
    /\ \A m \in 1 .. h - 1 : ~ TakesOpener(z[m])
    /\ \A l, m \in 1 .. h : l < m /\ z[l].do = "after" /\ Continuing(z[m]) => l + 1 < m /\ TakesEnd(z[l + 1])

\* The ends that are still to come, up to m; the nesting of the i-th token; whether it
\* may start a statement (Nesting and Starts of the model, of any text).
Height(z, m) == Cardinality({l \in 1 .. m : TakesEnd(z[l])})
Deep(ts, i) == Cardinality({j \in 1 .. i - 1 : ts[j].kind \in Openers})
               - Cardinality({j \in 1 .. i - 1 : ts[j].kind \in Ends})
StartsAt(ts, i) == ts[i].kind \notin NoStart /\ (i = 1 \/ ts[i - 1].kind \in Breaks)

\* g is the keyword that opened the block which a statement may begin in next: nothing
\* has started behind it.
Gates(ts, g, n) ==
    /\ \A j \in g + 1 .. n : ~ StartsAt(ts, j)
    /\ \/ (ts[g].kind \in Openers /\ Deep(ts, g) = Deep(ts, n + 1) - 1)
       \/ (ts[g].kind \in Middles /\ Deep(ts, g) = Deep(ts, n + 1))
GateAt(ts, n) == \E g \in 1 .. n : Gates(ts, g, n)

\* On the level a jump has started in this part of the text, and since then no label and
\* nothing behind a directive.
JumpOpen(ts, from, to, level) ==
    \E j \in from + 1 .. to :
        /\ StartsAt(ts, j) /\ Deep(ts, j) = level /\ ts[j].kind \in Jumps
        /\ \A k \in j + 1 .. to : StartsAt(ts, k) /\ Deep(ts, k) = level =>
                                    ts[k].kind # "~" /\ ts[k].after = "no"

\* SameBlock of the model, of any text.
Together(ts, j, i) ==
    /\ Deep(ts, i) = Deep(ts, j)
    /\ \A k \in j + 1 .. i : Deep(ts, k) >= Deep(ts, j)
    /\ \A k \in j + 1 .. i - 1 : ts[k].kind \in Middles => Deep(ts, k) > Deep(ts, j)

\* What the model asks of an unreachable statement, of any text.
BehindJump(ts, i) ==
    /\ StartsAt(ts, i)
    /\ \E j \in 1 .. i - 1 :
          /\ StartsAt(ts, j) /\ ts[j].kind \in Jumps /\ Together(ts, j, i)
          /\ \A k \in j + 1 .. i :
                StartsAt(ts, k) /\ Together(ts, k, i) => ts[k].kind # "~" /\ ts[k].after = "no"

\* The token at i, if it is the next one, too.
TokenAt(ts, n, peek, i) == IF i = n + 1 THEN peek ELSE ts[i]

\* There is a statement whose first token is the next one.
Unbegun(z, h, n) == \E m \in 1 .. h : z[m].do = "after" /\ z[m].at = n + 1

\* The block d began at its level, and nothing closed it since.
OpenFits(d, level, ts, n) ==
    /\ d.at \in 0 .. n /\ Deep(ts, d.at + 1) = level
    /\ \A k \in d.at + 1 .. n : Deep(ts, k) >= level /\ (ts[k].kind \in Middles => Deep(ts, k) > level)

\* Between statements the flag of the block says that a jump is open.
TopBlockFits(d, level, ts, n) == d.terminated <=> JumpOpen(ts, d.at, n, level)

\* e the statement on the block d
StatementFits(e, d, level, ts, n, peek) ==
    /\ e.at \in d.at + 1 .. n + 1 /\ Deep(ts, e.at) = level
    /\ e.kind = TokenAt(ts, n, peek, e.at).kind
    /\ e.terminated <=> JumpOpen(ts, d.at, e.at - 1, level) /\ TokenAt(ts, n, peek, e.at).after = "no"
    /\ e.at <= n => StartsAt(ts, e.at)
    /\ \A k \in e.at + 1 .. n : StartsAt(ts, k) => Deep(ts, k) > level

\* The statement is about to begin.
FreshFits(d, ts, n) ==
    /\ d.do \in {"take", "method", "target"} /\ NeedsInside(d)
    /\ n = 0 \/ ts[n].kind \in Breaks

\* The block to come at m has its keyword: it is to be taken first, or was the last.
GateFits(z, h, m, ts, n) ==
    \/ \E q \in m + 1 .. h : Gating(z[q]) /\ \A l \in m + 1 .. q : z[l].do \notin {"body", "enter"}
    \/ /\ \A l \in m + 1 .. h : z[l].do \notin {"body", "enter"}
       /\ GateAt(ts, n) /\ ~ Unbegun(z, h, n)

\* The blocks that are open.
BlocksFit(z, h, ts, n) ==
    \A m \in 1 .. h :
       z[m].do = "body" =>
          /\ OpenFits(z[m], Height(z, m), ts, n)
          /\ m = 1 => z[m].at = 0
          /\ m > 1 => z[m].at > 0 /\ GateAt(ts, z[m].at)
          /\ \A l \in 1 .. m - 1 : z[l].do = "after" => z[l].at <= z[m].at
          /\ m = h => TopBlockFits(z[m], Height(z, m), ts, n)

\* The statements under way.
StatementsFit(z, h, ts, n, peek) ==
    \A m \in 2 .. h :
       z[m].do = "after" =>
          /\ StatementFits(z[m], z[m - 1], Height(z, m - 1), ts, n, peek)
          /\ z[m].at = n + 1 => m < h /\ FreshFits(z[h], ts, n)

\* The blocks to come.
EntersFit(z, h, ts, n) ==
    /\ z[1].do = "enter" => n = 0
    /\ \A m \in 2 .. h : z[m].do = "enter" => GateFits(z, h, m, ts, n)

\* The last token taken suits what is on top, and the nesting is the height of the pile.
LastFits(z, h, ts, n) ==
    /\ NeedsInside(z[h]) => Unbegun(z, h, n) \/ (n > 0 /\ ts[n].kind \notin Breaks)
    /\ NeedsBreak(z[h]) => n = 0 \/ ts[n].kind \in Breaks
    /\ TakesOpener(z[h]) => Unbegun(z, h, n)
    /\ Deep(ts, n + 1) = Height(z, h) - (IF TakesOpener(z[h]) THEN 1 ELSE 0)

\* Reported are the unreachable statements, but for those that are not over.
ReportsFit(z, h, ts, n, R) ==
    \A i \in Nat :
        <<"UnreachableCode", i>> \in R <=>
            /\ i \in 1 .. n /\ BehindJump(ts, i)
            /\ \A m \in 1 .. h : z[m].do = "after" => z[m].at # i

--------------------------------------------------------------------------------
(* Texts: nesting, jumps, and what is behind one *)

\* Kinds of tokens that are different.
LEMMA KindsDiffer ==
    /\ \A k : k \in Ends \cup Middles => k \in NoStart
    /\ \A k : k \in Openers => k \notin Ends \cup Middles \cup NoStart
    /\ \A k : k \in Ends => k \notin Middles
    /\ \A k : k \in Jumps => k # "~"
  BY DEF Ends, Middles, NoStart, Closers, Openers, MethodKinds, Jumps

\* The nesting goes up behind what opens and down behind what ends.
LEMMA DeepFact ==
    ASSUME NEW ts, NEW i \in Nat
    PROVE  /\ Deep(ts, i + 1) \in Int /\ Deep(ts, 1) = 0
           /\ i > 0 => Deep(ts, i + 1) = Deep(ts, i) + (IF ts[i].kind \in Openers THEN 1 ELSE 0)
                                                     - (IF ts[i].kind \in Ends THEN 1 ELSE 0)
<1> DEFINE s == [j \in Nat |-> ts[j].kind]
<1>1. ASSUME NEW m \in Nat
      PROVE  /\ {j \in 1 .. m : ts[j].kind \in Openers} = {j \in 1 .. m : s[j] \in Openers}
             /\ {j \in 1 .. m : ts[j].kind \in Ends} = {j \in 1 .. m : s[j] \in Ends}
  OBVIOUS
<1>2. s[i] = ts[i].kind
  OBVIOUS
<1> HIDE DEF s
<1>3. ASSUME NEW m \in Nat
      PROVE  Deep(ts, m + 1) = Count(s, m, Openers) - Count(s, m, Ends)
  <2>1. 1 .. (m + 1) - 1 = 1 .. m
    OBVIOUS
  <2> QED
    BY <1>1, <2>1 DEF Deep, Count
<1>4. \A m \in Nat : Count(s, m, Openers) \in Nat /\ Count(s, m, Ends) \in Nat
  BY CountFact
<1>5. Count(s, 0, Openers) = 0 /\ Count(s, 0, Ends) = 0
  BY CountFact
<1>6. Deep(ts, 1) = 0
  <2>1. Deep(ts, 0 + 1) = 0 /\ 0 + 1 = 1
    BY <1>3, <1>5
  <2> QED
    BY <2>1
<1>7. Deep(ts, i + 1) \in Int
  <2> DEFINE a == Count(s, i, Openers)
             b == Count(s, i, Ends)
  <2>1. a \in Nat /\ b \in Nat /\ Deep(ts, i + 1) = a - b
    BY <1>3, <1>4
  <2> HIDE DEF a, b
  <2> QED
    BY <2>1
<1>8. ASSUME i > 0
      PROVE  Deep(ts, i + 1) = Deep(ts, i) + (IF ts[i].kind \in Openers THEN 1 ELSE 0)
                                           - (IF ts[i].kind \in Ends THEN 1 ELSE 0)
  <2> DEFINE m == i - 1
  <2>1. m \in Nat /\ m + 1 = i
    BY <1>8
  <2>2. /\ Count(s, i, Openers) = Count(s, m, Openers) + (IF s[i] \in Openers THEN 1 ELSE 0)
        /\ Count(s, i, Ends) = Count(s, m, Ends) + (IF s[i] \in Ends THEN 1 ELSE 0)
    BY <1>8, CountFact
  <2>3. Deep(ts, i) = Count(s, m, Openers) - Count(s, m, Ends)
    BY <1>3, <2>1
  <2> HIDE DEF m
  <2> QED
    BY <1>2, <1>3, <1>4, <2>1, <2>2, <2>3
<1> QED
  BY <1>6, <1>7, <1>8

\* The height of a list of things goes up with the ends to come.
LEMMA HeightFact ==
    ASSUME NEW z, NEW m \in Nat
    PROVE  /\ Height(z, m) \in Nat /\ Height(z, 0) = 0
           /\ m > 0 => Height(z, m) = Height(z, m - 1) + (IF TakesEnd(z[m]) THEN 1 ELSE 0)
<1> DEFINE s == [j \in Nat |-> IF TakesEnd(z[j]) THEN 1 ELSE 0]
<1>1. ASSUME NEW l \in Nat PROVE Height(z, l) = Count(s, l, {1})
  <2>1. {j \in 1 .. l : TakesEnd(z[j])} = {j \in 1 .. l : s[j] \in {1}}
    OBVIOUS
  <2> QED
    BY <2>1 DEF Height, Count
<1>2. s[m] \in {1} <=> TakesEnd(z[m])
  OBVIOUS
<1> HIDE DEF s
<1> QED
  BY <1>1, <1>2, CountFact

\* Piles that agree up to m have the same heights there.
LEMMA HeightSame ==
    ASSUME NEW z, NEW w, NEW m \in Nat, \A l \in 1 .. m : w[l] = z[l]
    PROVE  \A l \in 0 .. m : Height(w, l) = Height(z, l)
<1> TAKE l \in 0 .. m
<1>1. {j \in 1 .. l : TakesEnd(w[j])} = {j \in 1 .. l : TakesEnd(z[j])}
  OBVIOUS
<1> QED
  BY <1>1 DEF Height

\* Higher up there are as many ends or more, and one more above another.
LEMMA HeightUp ==
    ASSUME NEW z, NEW l \in Nat, NEW m \in Nat, l <= m
    PROVE  /\ Height(z, l) <= Height(z, m)
           /\ (\E q \in l + 1 .. m : TakesEnd(z[q])) => Height(z, l) < Height(z, m)
           /\ (\A q \in l + 1 .. m : ~ TakesEnd(z[q])) => Height(z, l) = Height(z, m)
<1> DEFINE Of(j) == {q \in 1 .. j : TakesEnd(z[q])}
<1>1. \A j \in Nat : IsFiniteSet(Of(j)) /\ Cardinality(Of(j)) \in Nat
  <2>1. ASSUME NEW j \in Nat PROVE IsFiniteSet(1 .. j)
    BY FS_Interval
  <2> QED
    BY <2>1, FS_Subset, FS_CardinalityType
<1>2. Of(l) \subseteq Of(m)
  OBVIOUS
<1>3. (\E q \in l + 1 .. m : TakesEnd(z[q])) => Of(l) # Of(m)
  <2> SUFFICES ASSUME NEW q \in l + 1 .. m, TakesEnd(z[q]) PROVE Of(l) # Of(m)
    OBVIOUS
  <2>1. q \in Of(m) /\ q \notin Of(l)
    OBVIOUS
  <2> QED
    BY <2>1
<1>4. (\A q \in l + 1 .. m : ~ TakesEnd(z[q])) => Of(l) = Of(m)
  OBVIOUS
<1>5. \A j : Height(z, j) = Cardinality(Of(j))
  BY DEF Height
<1> HIDE DEF Of
<1>6. /\ Cardinality(Of(l)) <= Cardinality(Of(m))
      /\ Cardinality(Of(l)) = Cardinality(Of(m)) => Of(l) = Of(m)
  BY <1>1, <1>2, FS_Subset
<1> QED
  BY <1>1, <1>3, <1>4, <1>5, <1>6

\* What is said of a text is said of any with the same beginning.
LEMMA AgreeFact ==
    ASSUME NEW ts, NEW us, NEW n \in Nat, \A j \in 1 .. n : us[j] = ts[j]
    PROVE  /\ \A i \in 1 .. n + 1 : Deep(us, i) = Deep(ts, i)
           /\ \A i \in 1 .. n : StartsAt(us, i) <=> StartsAt(ts, i)
           /\ \A a \in 0 .. n : GateAt(us, a) <=> GateAt(ts, a)
           /\ \A from \in Nat, to \in 0 .. n : \A level :
                 JumpOpen(us, from, to, level) <=> JumpOpen(ts, from, to, level)
           /\ \A i \in 1 .. n : BehindJump(us, i) <=> BehindJump(ts, i)
<1>1. ASSUME NEW i \in 1 .. n + 1 PROVE Deep(us, i) = Deep(ts, i)
  <2>1. /\ {j \in 1 .. i - 1 : us[j].kind \in Openers} = {j \in 1 .. i - 1 : ts[j].kind \in Openers}
        /\ {j \in 1 .. i - 1 : us[j].kind \in Ends} = {j \in 1 .. i - 1 : ts[j].kind \in Ends}
    OBVIOUS
  <2> QED
    BY <2>1 DEF Deep
<1>2. ASSUME NEW i \in 1 .. n PROVE StartsAt(us, i) <=> StartsAt(ts, i)
  <2>1. us[i] = ts[i] /\ (i # 1 => us[i - 1] = ts[i - 1])
    OBVIOUS
  <2> QED
    BY <2>1 DEF StartsAt
<1>3. ASSUME NEW a \in 0 .. n PROVE GateAt(us, a) <=> GateAt(ts, a)
  <2>1. ASSUME NEW g \in 1 .. a PROVE Gates(us, g, a) <=> Gates(ts, g, a)
    <3>1. us[g] = ts[g] /\ Deep(us, g) = Deep(ts, g) /\ Deep(us, a + 1) = Deep(ts, a + 1)
      BY <1>1
    <3>2. \A j \in g + 1 .. a : StartsAt(us, j) <=> StartsAt(ts, j)
      BY <1>2
    <3> QED
      BY <3>1, <3>2 DEF Gates
  <2> QED
    BY <2>1 DEF GateAt
<1>4. ASSUME NEW from \in Nat, NEW to \in 0 .. n, NEW level
      PROVE  JumpOpen(us, from, to, level) <=> JumpOpen(ts, from, to, level)
  <2>1. \A j \in from + 1 .. to : /\ StartsAt(us, j) <=> StartsAt(ts, j)
                                  /\ Deep(us, j) = Deep(ts, j) /\ us[j] = ts[j]
    BY <1>1, <1>2
  <2>2. \A j \in from + 1 .. to : \A k \in j + 1 .. to : k \in from + 1 .. to
    OBVIOUS
  <2> QED
    BY <2>1, <2>2 DEF JumpOpen
<1>5. ASSUME NEW i \in 1 .. n PROVE BehindJump(us, i) <=> BehindJump(ts, i)
  <2>1. \A j \in 1 .. i : /\ StartsAt(us, j) <=> StartsAt(ts, j)
                          /\ Deep(us, j) = Deep(ts, j) /\ us[j] = ts[j]
    BY <1>1, <1>2
  <2>2. ASSUME NEW j \in 1 .. i PROVE Together(us, j, i) <=> Together(ts, j, i)
    <3>1. \A k \in j + 1 .. i : k \in 1 .. i
      OBVIOUS
    <3>2. \A k \in j + 1 .. i - 1 : k \in 1 .. i
      OBVIOUS
    <3> QED
      BY <2>1, <3>1, <3>2 DEF Together
  <2>3. \A j \in 1 .. i - 1 : j \in 1 .. i /\ \A k \in j + 1 .. i : k \in 1 .. i
    OBVIOUS
  <2> QED
    BY <2>1, <2>2, <2>3 DEF BehindJump
<1> QED
  BY <1>1, <1>2, <1>3, <1>4, <1>5

\* What is behind the last statement of a level changes nothing of its jumps.
LEMMA JumpFar ==
    ASSUME NEW ts, NEW from \in Nat, NEW a \in Nat, NEW n \in Nat, from <= a, a <= n, NEW level,
           \A k \in a + 1 .. n : StartsAt(ts, k) => Deep(ts, k) # level
    PROVE  JumpOpen(ts, from, n, level) <=> JumpOpen(ts, from, a, level)
<1>1. ASSUME JumpOpen(ts, from, n, level) PROVE JumpOpen(ts, from, a, level)
  <2>1. PICK j \in from + 1 .. n :
           /\ StartsAt(ts, j) /\ Deep(ts, j) = level /\ ts[j].kind \in Jumps
           /\ \A k \in j + 1 .. n : StartsAt(ts, k) /\ Deep(ts, k) = level =>
                                      ts[k].kind # "~" /\ ts[k].after = "no"
    BY <1>1 DEF JumpOpen
  <2>2. j \in from + 1 .. a
    BY <2>1
  <2>3. \A k \in j + 1 .. a : k \in j + 1 .. n
    OBVIOUS
  <2> QED
    BY <2>1, <2>2, <2>3 DEF JumpOpen
<1>2. ASSUME JumpOpen(ts, from, a, level) PROVE JumpOpen(ts, from, n, level)
  <2>1. PICK j \in from + 1 .. a :
           /\ StartsAt(ts, j) /\ Deep(ts, j) = level /\ ts[j].kind \in Jumps
           /\ \A k \in j + 1 .. a : StartsAt(ts, k) /\ Deep(ts, k) = level =>
                                      ts[k].kind # "~" /\ ts[k].after = "no"
    BY <1>2 DEF JumpOpen
  <2>2. j \in from + 1 .. n
    OBVIOUS
  <2>3. ASSUME NEW k \in j + 1 .. n, StartsAt(ts, k), Deep(ts, k) = level
        PROVE  ts[k].kind # "~" /\ ts[k].after = "no"
    <3>1. k \in j + 1 .. a
      BY <2>3
    <3> QED
      BY <2>1, <2>3, <3>1
  <2> QED
    BY <2>1, <2>2, <2>3 DEF JumpOpen
<1> QED
  BY <1>1, <1>2

\* A jump is open behind a statement: the statement is one, or it changed nothing.
LEMMA JumpNext ==
    ASSUME NEW ts, NEW from \in Nat, NEW a \in Nat, from < a, NEW level,
           StartsAt(ts, a), Deep(ts, a) = level
    PROVE  JumpOpen(ts, from, a, level) <=>
              \/ ts[a].kind \in Jumps
              \/ /\ JumpOpen(ts, from, a - 1, level)
                 /\ ts[a].kind # "~" /\ ts[a].after = "no"
<1>1. ASSUME JumpOpen(ts, from, a, level), ts[a].kind \notin Jumps
      PROVE  /\ JumpOpen(ts, from, a - 1, level)
             /\ ts[a].kind # "~" /\ ts[a].after = "no"
  <2>1. PICK j \in from + 1 .. a :
           /\ StartsAt(ts, j) /\ Deep(ts, j) = level /\ ts[j].kind \in Jumps
           /\ \A k \in j + 1 .. a : StartsAt(ts, k) /\ Deep(ts, k) = level =>
                                      ts[k].kind # "~" /\ ts[k].after = "no"
    BY <1>1 DEF JumpOpen
  <2>2. j \in from + 1 .. a - 1 /\ a \in j + 1 .. a
    BY <1>1, <2>1
  <2>3. \A k \in j + 1 .. a - 1 : k \in j + 1 .. a
    OBVIOUS
  <2>4. JumpOpen(ts, from, a - 1, level)
    BY <2>1, <2>2, <2>3 DEF JumpOpen
  <2> QED
    BY <2>1, <2>2, <2>4
<1>2. ASSUME ts[a].kind \in Jumps PROVE JumpOpen(ts, from, a, level)
  <2>1. a \in from + 1 .. a /\ \A k \in a + 1 .. a : FALSE
    OBVIOUS
  <2> QED
    BY <1>2, <2>1 DEF JumpOpen
<1>3. ASSUME JumpOpen(ts, from, a - 1, level), ts[a].kind # "~", ts[a].after = "no"
      PROVE  JumpOpen(ts, from, a, level)
  <2>1. PICK j \in from + 1 .. a - 1 :
           /\ StartsAt(ts, j) /\ Deep(ts, j) = level /\ ts[j].kind \in Jumps
           /\ \A k \in j + 1 .. a - 1 : StartsAt(ts, k) /\ Deep(ts, k) = level =>
                                          ts[k].kind # "~" /\ ts[k].after = "no"
    BY <1>3 DEF JumpOpen
  <2>2. j \in from + 1 .. a
    OBVIOUS
  <2>3. \A k \in j + 1 .. a : k = a \/ k \in j + 1 .. a - 1
    OBVIOUS
  <2> QED
    BY <1>3, <2>1, <2>2, <2>3 DEF JumpOpen
<1> QED
  BY <1>1, <1>2, <1>3

\* Nesting is a number, whole and perhaps negative.
LEMMA DeepType ==
    ASSUME NEW ts, NEW i \in Nat \ {0}
    PROVE  Deep(ts, i) \in Int
<1> DEFINE m == i - 1
<1>1. m \in Nat /\ m + 1 = i
  OBVIOUS
<1> HIDE DEF m
<1> QED
  BY <1>1, DeepFact

\* The statement a of a block that was opened behind `at`: it is behind a jump exactly
\* if one is open in the block.
LEMMA BehindFact ==
    ASSUME NEW ts, NEW at \in Nat, NEW a \in Nat, at < a, NEW level \in Int,
           StartsAt(ts, a), Deep(ts, a) = level, Deep(ts, at + 1) = level,
           at # 0 => GateAt(ts, at),
           \A k \in at + 1 .. a : Deep(ts, k) >= level
                                  /\ (ts[k].kind \in Middles => Deep(ts, k) > level)
    PROVE  BehindJump(ts, a) <=>
              /\ JumpOpen(ts, at, a - 1, level)
              /\ ts[a].kind # "~" /\ ts[a].after = "no"
<1>1. ASSUME NEW k \in at + 1 .. a, Deep(ts, k) = level PROVE Together(ts, k, a)
  <2>1. \A l \in k + 1 .. a : l \in at + 1 .. a
    OBVIOUS
  <2>2. \A l \in k + 1 .. a - 1 : l \in at + 1 .. a
    OBVIOUS
  <2> QED
    BY <1>1, <2>1, <2>2 DEF Together
<1>2. ASSUME NEW k \in 1 .. a, StartsAt(ts, k), Together(ts, k, a)
      PROVE  k \in at + 1 .. a /\ Deep(ts, k) = level
  <2>1. Deep(ts, k) = level
    BY <1>2 DEF Together
  <2>2. ASSUME k <= at PROVE FALSE
    <3>1. PICK g \in 1 .. at : Gates(ts, g, at)
      BY <2>2 DEF GateAt
    <3>2. k <= g
      BY <1>2, <2>2, <3>1 DEF Gates
    <3>3. Deep(ts, g) \in Int /\ g \in Nat \ {0}
      BY DeepType
    <3>4. CASE ts[g].kind \in Openers /\ Deep(ts, g) = Deep(ts, at + 1) - 1
      <4>1. g # k
        BY <2>1, <3>4
      <4>2. g \in k + 1 .. a
        BY <3>2, <4>1
      <4>3. Deep(ts, g) >= level
        BY <1>2, <2>1, <4>2 DEF Together
      <4> QED
        BY <3>3, <3>4, <4>3
    <3>5. CASE ts[g].kind \in Middles /\ Deep(ts, g) = Deep(ts, at + 1)
      <4>1. g # k
        BY <1>2, <3>5, KindsDiffer DEF StartsAt
      <4>2. g \in k + 1 .. a - 1
        BY <3>2, <4>1
      <4>3. Deep(ts, g) > level
        BY <1>2, <2>1, <3>5, <4>2 DEF Together
      <4> QED
        BY <3>3, <3>5, <4>3
    <3> QED
      BY <3>1, <3>4, <3>5 DEF Gates
  <2> QED
    BY <2>1, <2>2
<1>3. ASSUME BehindJump(ts, a)
      PROVE  JumpOpen(ts, at, a - 1, level) /\ ts[a].kind # "~" /\ ts[a].after = "no"
  <2>1. PICK j \in 1 .. a - 1 :
           /\ StartsAt(ts, j) /\ ts[j].kind \in Jumps /\ Together(ts, j, a)
           /\ \A k \in j + 1 .. a :
                 StartsAt(ts, k) /\ Together(ts, k, a) => ts[k].kind # "~" /\ ts[k].after = "no"
    BY <1>3 DEF BehindJump
  <2>2. j \in at + 1 .. a - 1 /\ Deep(ts, j) = level
    BY <1>2, <2>1
  <2>3. ASSUME NEW k \in j + 1 .. a, StartsAt(ts, k), Deep(ts, k) = level
        PROVE  ts[k].kind # "~" /\ ts[k].after = "no"
    <3>1. k \in at + 1 .. a
      BY <2>2
    <3> QED
      BY <1>1, <2>1, <2>3, <3>1
  <2>4. a \in j + 1 .. a /\ \A k \in j + 1 .. a - 1 : k \in j + 1 .. a
    BY <2>2
  <2>5. JumpOpen(ts, at, a - 1, level)
    BY <2>1, <2>2, <2>3, <2>4 DEF JumpOpen
  <2> QED
    BY <2>3, <2>4, <2>5
<1>4. ASSUME JumpOpen(ts, at, a - 1, level), ts[a].kind # "~", ts[a].after = "no"
      PROVE  BehindJump(ts, a)
  <2>1. PICK j \in at + 1 .. a - 1 :
           /\ StartsAt(ts, j) /\ Deep(ts, j) = level /\ ts[j].kind \in Jumps
           /\ \A k \in j + 1 .. a - 1 : StartsAt(ts, k) /\ Deep(ts, k) = level =>
                                          ts[k].kind # "~" /\ ts[k].after = "no"
    BY <1>4 DEF JumpOpen
  <2>2. j \in 1 .. a - 1 /\ Together(ts, j, a)
    BY <1>1, <2>1
  <2>3. ASSUME NEW k \in j + 1 .. a, StartsAt(ts, k), Together(ts, k, a)
        PROVE  ts[k].kind # "~" /\ ts[k].after = "no"
    <3>1. k \in 1 .. a /\ (k = a \/ k \in j + 1 .. a - 1)
      BY <2>2
    <3>2. Deep(ts, k) = level
      BY <1>2, <2>3, <3>1
    <3> QED
      BY <1>4, <2>1, <2>3, <3>1, <3>2
  <2> QED
    BY <2>1, <2>2, <2>3 DEF BehindJump
<1> QED
  BY <1>3, <1>4

--------------------------------------------------------------------------------
(* Piles: the top is replaced *)

\* d takes the place of e where e lies.
Supplants(d, e) ==
    /\ LeavesBreak(e) => LeavesBreak(d)
    /\ LeavesInside(e) => LeavesInside(d)
    /\ TakesEnd(d) \/ Begins(d) => TakesEnd(e) \/ Begins(e)
    /\ AsksBranch(d) => AsksBranch(e)
    /\ d.do # "after" /\ e.do # "after"

\* The things p, the first of them on top, may take the place of d.
Yields(d, p) ==
    /\ p # <<>> => Supplants(p[Len(p)], d)
    /\ \A i \in 1 .. Len(p) :
          /\ Usual(p[i]) /\ p[i].do \notin {"body", "after"} /\ ~ TakesOpener(p[i])
          /\ i < Len(p) => Adjoins(p[i], p[i + 1])
          /\ Continuing(p[i]) => Continuing(d) \/ (i < Len(p) /\ TakesEnd(p[Len(p)]))
          /\ p[i].do = "enter" =>
                \/ d.do = "method" /\ \A j \in 1 .. i - 1 : p[j].do # "enter"
                \/ AsksBranch(d) /\ \E j \in 1 .. i - 1 :
                                       Gating(p[j]) /\ \A l \in j .. i - 1 : p[l].do # "enter"

\* w is z with p in the place of what is at h.
Swapped(z, h, w, p) ==
    /\ p \in Seq(ToSet(p))
    /\ \A m \in 1 .. h - 1 : w[m] = z[m]
    /\ \A i \in 1 .. Len(p) : w[h + Len(p) - i] = p[i]

\* The same, said of w: from h to g there is what takes the place of d.
Raised(d, w, h, g) ==
    /\ g >= h => Supplants(w[h], d)
    /\ \A m \in h .. g :
          /\ Usual(w[m]) /\ w[m].do \notin {"body", "after"} /\ ~ TakesOpener(w[m])
          /\ m > h => Adjoins(w[m], w[m - 1])
          /\ Continuing(w[m]) => Continuing(d) \/ (m > h /\ TakesEnd(w[h]))
          /\ w[m].do = "enter" =>
                \/ d.do = "method" /\ \A l \in m + 1 .. g : w[l].do # "enter"
                \/ AsksBranch(d) /\ \E q \in m + 1 .. g :
                                       Gating(w[q]) /\ \A l \in m + 1 .. q : w[l].do # "enter"

\* What is said of the list p holds of the pile.
LEMMA RaisedFact ==
    ASSUME NEW z, NEW w, NEW p, NEW h \in Nat, Swapped(z, h, w, p), NEW d, Yields(d, p)
    PROVE  Len(p) \in Nat /\ Raised(d, w, h, h - 1 + Len(p))
<1> DEFINE k == Len(p)
           g == h - 1 + k
<1>1. k \in Nat /\ (k > 0 => p # <<>>)
  BY LenProperties, EmptySeq DEF Swapped
<1>2. /\ \A i \in 1 .. k : w[h + k - i] = p[i]
      /\ p # <<>> => Supplants(p[k], d)
      /\ \A i \in 1 .. k :
            /\ Usual(p[i]) /\ p[i].do \notin {"body", "after"} /\ ~ TakesOpener(p[i])
            /\ i < k => Adjoins(p[i], p[i + 1])
            /\ Continuing(p[i]) => Continuing(d) \/ (i < k /\ TakesEnd(p[k]))
            /\ p[i].do = "enter" =>
                  \/ d.do = "method" /\ \A j \in 1 .. i - 1 : p[j].do # "enter"
                  \/ AsksBranch(d) /\ \E j \in 1 .. i - 1 :
                                         Gating(p[j]) /\ \A l \in j .. i - 1 : p[l].do # "enter"
  BY DEF Swapped, Yields
<1> HIDE DEF k
<1>3. k > 0 => w[h] = p[k]
  <2>1. k > 0 => k \in 1 .. k /\ h + k - k = h
    BY <1>1
  <2> QED
    BY <1>2, <2>1
<1>4. g >= h => Supplants(w[h], d)
  <2>1. g >= h => k > 0
    BY <1>1
  <2> QED
    BY <1>1, <1>2, <1>3, <2>1
<1>5. ASSUME NEW m \in h .. g
      PROVE  /\ Usual(w[m]) /\ w[m].do \notin {"body", "after"} /\ ~ TakesOpener(w[m])
             /\ m > h => Adjoins(w[m], w[m - 1])
             /\ Continuing(w[m]) => Continuing(d) \/ (m > h /\ TakesEnd(w[h]))
             /\ w[m].do = "enter" =>
                   \/ d.do = "method" /\ \A l \in m + 1 .. g : w[l].do # "enter"
                   \/ AsksBranch(d) /\ \E q \in m + 1 .. g :
                                          Gating(w[q]) /\ \A l \in m + 1 .. q : w[l].do # "enter"
  <2> DEFINE i == h + k - m
  <2>1. /\ i \in 1 .. k /\ k > 0 /\ h + k - i = m /\ (m > h <=> i < k)
        /\ m > h => i + 1 \in 1 .. k /\ h + k - (i + 1) = m - 1
    BY <1>1
  <2>2. /\ \A l \in m + 1 .. g : h + k - l \in 1 .. i - 1 /\ h + k - l \in 1 .. k /\ h + k - (h + k - l) = l
        /\ \A j \in 1 .. i - 1 : h + k - j \in m + 1 .. g /\ j \in 1 .. k
    BY <1>1
  <2>3. \A j \in 1 .. i - 1 : \A l \in m + 1 .. h + k - j : h + k - l \in j .. i - 1 /\ l \in m + 1 .. g
    BY <1>1
  <2>4. \A l \in m + 1 .. g : w[l] = p[h + k - l]
    BY <1>2, <2>2
  <2> HIDE DEF i, g
  <2>5. w[m] = p[i] /\ (m > h => w[m - 1] = p[i + 1])
    BY <1>2, <2>1
  <2>6. Continuing(w[m]) => Continuing(d) \/ (m > h /\ TakesEnd(w[h]))
    BY <1>2, <1>3, <2>1, <2>5
  <2>7. ASSUME w[m].do = "enter"
        PROVE  \/ d.do = "method" /\ \A l \in m + 1 .. g : w[l].do # "enter"
               \/ AsksBranch(d) /\ \E q \in m + 1 .. g :
                                      Gating(w[q]) /\ \A l \in m + 1 .. q : w[l].do # "enter"
    <3>1. CASE d.do = "method" /\ \A j \in 1 .. i - 1 : p[j].do # "enter"
      BY <2>2, <2>4, <3>1
    <3>2. CASE AsksBranch(d) /\ \E j \in 1 .. i - 1 :
                                   Gating(p[j]) /\ \A l \in j .. i - 1 : p[l].do # "enter"
      <4>1. PICK j \in 1 .. i - 1 : Gating(p[j]) /\ \A l \in j .. i - 1 : p[l].do # "enter"
        BY <3>2
      <4> DEFINE q == h + k - j
      <4>2. q \in m + 1 .. g /\ w[q] = p[j]
        BY <1>2, <2>2
      <4>3. ASSUME NEW l \in m + 1 .. q PROVE w[l].do # "enter"
        BY <2>3, <2>4, <4>1
      <4> HIDE DEF q
      <4> QED
        BY <3>2, <4>1, <4>2, <4>3
    <3> QED
      BY <1>2, <2>1, <2>5, <2>7, <3>1, <3>2
  <2> QED
    BY <1>2, <2>1, <2>5, <2>6, <2>7
<1> QED
  BY <1>1, <1>4, <1>5 DEF Raised, k

\* What is at a place of a list and above it.
LEMMA ListPlace ==
    ASSUME NEW z, NEW h \in Nat, StackFits(z, h), NEW m \in 1 .. h
    PROVE  /\ m > 1 => Usual(z[m]) /\ Adjoins(z[m], z[m - 1])
           /\ m < h => ~ TakesOpener(z[m])
           /\ z[m].do = "after" => m > 1 /\ z[m - 1].do = "body"
           /\ z[m].do = "body" /\ m < h => z[m + 1].do = "after"
           /\ TakesEnd(z[m]) \/ Begins(z[m]) => m > 2 /\ z[m - 1].do = "after" /\ z[m - 2].do = "body"
           /\ AsksBranch(z[m]) =>
                 m > 3 /\ TakesEnd(z[m - 1]) /\ z[m - 2].do = "after" /\ z[m - 3].do = "body"
           /\ m = 1 => z[m].do \in {"enter", "body"}
<1>1. /\ z[1].do \in {"enter", "body"}
      /\ \A l \in 2 .. h : Usual(z[l]) /\ Adjoins(z[l], z[l - 1])
      /\ \A l \in 1 .. h - 1 : ~ TakesOpener(z[l])
  BY DEF StackFits
<1>2. m = 1 \/ m \in 2 .. h
  OBVIOUS
<1>3. m < h => m + 1 \in 2 .. h /\ (m + 1) - 1 = m /\ m \in 1 .. h - 1
  OBVIOUS
<1>4. m = 1 => z[m].do # "after" /\ ~ TakesEnd(z[m]) /\ ~ Begins(z[m]) /\ ~ AsksBranch(z[m])
  BY <1>1 DEF TakesEnd, Begins, AsksBranch
<1>5. \A l \in 1 .. h : z[l].do = "after" => l > 1 /\ z[l - 1].do = "body"
  <2> TAKE l \in 1 .. h
  <2>1. l = 1 \/ l \in 2 .. h
    OBVIOUS
  <2>2. l = 1 => z[l].do # "after"
    BY <1>1
  <2> QED
    BY <1>1, <2>1, <2>2 DEF Adjoins
<1>6. z[m].do = "after" => m > 1 /\ z[m - 1].do = "body"
  BY <1>5
<1>7. z[m].do = "body" /\ m < h => z[m + 1].do = "after"
  BY <1>1, <1>3 DEF Adjoins
<1>8. ASSUME NEW l \in 1 .. h, TakesEnd(z[l]) \/ Begins(z[l])
      PROVE  l > 2 /\ z[l - 1].do = "after" /\ z[l - 2].do = "body"
  <2>1. l # 1
    BY <1>1, <1>8 DEF TakesEnd, Begins
  <2>2. l \in 2 .. h /\ l - 1 \in 1 .. h /\ (l - 1) - 1 = l - 2
    BY <2>1
  <2>3. z[l - 1].do = "after"
    BY <1>1, <1>8, <2>2 DEF Adjoins
  <2> QED
    BY <1>5, <2>2, <2>3
<1>9. ASSUME AsksBranch(z[m])
      PROVE  m > 3 /\ TakesEnd(z[m - 1]) /\ z[m - 2].do = "after" /\ z[m - 3].do = "body"
  <2>1. m \in 2 .. h /\ m - 1 \in 1 .. h /\ (m - 1) - 1 = m - 2 /\ (m - 1) - 2 = m - 3
    BY <1>2, <1>4, <1>9
  <2>2. TakesEnd(z[m - 1])
    BY <1>1, <1>9, <2>1 DEF Adjoins
  <2> QED
    BY <1>8, <2>1, <2>2
<1> QED
  BY <1>1, <1>2, <1>3, <1>6, <1>7, <1>8, <1>9

\* The list fits when what is on top has been replaced.
LEMMA SwapFits ==
    ASSUME NEW z, NEW h \in Nat, h > 1, StackFits(z, h), NEW w, NEW g \in Nat, g >= h - 1,
           \A m \in 1 .. h - 1 : w[m] = z[m], Raised(z[h], w, h, g), z[h].do \notin {"body", "after"}
    PROVE  StackFits(w, g)
<1> DEFINE d == z[h]
<1>1. /\ g >= h => Supplants(w[h], d)
      /\ \A m \in h .. g :
            /\ Usual(w[m]) /\ w[m].do \notin {"body", "after"} /\ ~ TakesOpener(w[m])
            /\ m > h => Adjoins(w[m], w[m - 1])
            /\ Continuing(w[m]) => Continuing(d) \/ (m > h /\ TakesEnd(w[h]))
  BY DEF Raised
<1> HIDE DEF d
<1>2. /\ z[1].do \in {"enter", "body"} /\ z[1].do # "enter"
      /\ \A m \in 2 .. h : Usual(z[m]) /\ Adjoins(z[m], z[m - 1])
      /\ \A m \in 1 .. h - 1 : ~ TakesOpener(z[m])
      /\ \A l, m \in 1 .. h : l < m /\ z[l].do = "after" /\ Continuing(z[m]) =>
                                 l + 1 < m /\ TakesEnd(z[l + 1])
  BY DEF StackFits
<1>3. w[1] = z[1] /\ w[1].do = "body"
  BY <1>2
<1>4. Adjoins(d, z[h - 1]) /\ d.do \notin {"body", "after"}
  BY <1>2 DEF d
<1>5. g >= h => Adjoins(w[h], w[h - 1])
  <2>1. g >= h => w[h].do \notin {"body", "after"}
    BY <1>1
  <2>2. w[h - 1] = z[h - 1]
    OBVIOUS
  <2>3. AsksBranch(w[h]) /\ g >= h => TakesEnd(z[h - 1])
    BY <1>1, <1>4 DEF Supplants, Adjoins
  <2>4. (TakesEnd(w[h]) \/ Begins(w[h])) /\ g >= h => z[h - 1].do = "after"
    BY <1>1, <1>4 DEF Supplants, Adjoins
  <2>5. g >= h => /\ NeedsBreak(z[h - 1]) => LeavesBreak(w[h])
                  /\ NeedsInside(z[h - 1]) => LeavesInside(w[h])
    BY <1>1, <1>4 DEF Supplants, Adjoins
  <2>6. z[h - 1].do # "body"
    BY <1>4 DEF Adjoins
  <2> QED
    BY <2>1, <2>2, <2>3, <2>4, <2>5, <2>6 DEF Adjoins
<1>6. ASSUME NEW m \in 2 .. g PROVE Usual(w[m]) /\ Adjoins(w[m], w[m - 1])
  <2>1. CASE m < h
    <3>1. m \in 2 .. h /\ w[m] = z[m] /\ w[m - 1] = z[m - 1]
      BY <2>1
    <3> QED
      BY <1>2, <3>1
  <2>2. CASE m = h
    BY <1>1, <1>5, <2>2
  <2>3. CASE m > h
    BY <1>1, <2>3
  <2> QED
    BY <2>1, <2>2, <2>3
<1>7. ASSUME NEW m \in 1 .. g - 1 PROVE ~ TakesOpener(w[m])
  <2>1. CASE m < h
    BY <1>2, <2>1
  <2>2. CASE m >= h
    BY <1>1, <2>2
  <2> QED
    BY <2>1, <2>2
<1>8. ASSUME NEW l \in 1 .. g, NEW m \in 1 .. g, l < m, w[l].do = "after", Continuing(w[m])
      PROVE  l + 1 < m /\ TakesEnd(w[l + 1])
  <2>1. l < h /\ w[l] = z[l]
    BY <1>1, <1>8
  <2>2. CASE m < h
    <3>1. w[m] = z[m] /\ w[l + 1] = z[l + 1]
      BY <1>8, <2>1, <2>2
    <3> QED
      BY <1>2, <1>8, <2>1, <2>2, <3>1
  <2>3. CASE m >= h /\ Continuing(d)
    <3>1. l + 1 < h /\ TakesEnd(z[l + 1])
      BY <1>2, <1>8, <2>1, <2>3 DEF d
    <3> QED
      BY <2>3, <3>1
  <2>4. CASE m > h /\ TakesEnd(w[h])
    <3>1. CASE l = h - 1
      BY <2>4, <3>1
    <3>2. CASE l < h - 1
      <4>1. z[h - 1].do = "after"
        BY <1>1, <1>4, <2>4 DEF Supplants, Adjoins
      <4>2. h - 1 \in 2 .. h /\ z[h - 2].do = "body"
        <5>1. h - 1 # 1
          BY <1>2, <4>1
        <5>2. h - 1 \in 2 .. h /\ (h - 1) - 1 = h - 2
          BY <5>1
        <5> QED
          BY <1>2, <4>1, <5>2 DEF Adjoins
      <4>3. l # h - 2
        BY <1>8, <2>1, <4>2
      <4>4. l \in 1 .. h /\ h - 2 \in 1 .. h /\ l < h - 2
        BY <3>2, <4>2, <4>3
      <4>5. Continuing(z[h - 2])
        BY <4>2 DEF Continuing
      <4>6. l + 1 < h - 2 /\ TakesEnd(z[l + 1])
        BY <1>2, <1>8, <2>1, <4>4, <4>5
      <4> QED
        BY <2>4, <4>6
    <3> QED
      BY <2>1, <3>1, <3>2
  <2> QED
    BY <1>1, <1>8, <2>2, <2>3, <2>4
<1> QED
  BY <1>3, <1>6, <1>7, <1>8 DEF StackFits

\* The list of things to do is in step with the text that has been taken.
InStep(z, h, ts, n, peek) ==
    /\ StackFits(z, h)
    /\ BlocksFit(z, h, ts, n)
    /\ StatementsFit(z, h, ts, n, peek)
    /\ EntersFit(z, h, ts, n)
    /\ LastFits(z, h, ts, n)

--------------------------------------------------------------------------------
(* A token is taken *)

\* A token is taken for d, which is replaced by what is from h to g.
Fitting(d, w, h, g, peek) ==
    /\ NeedsInside(d) \/ peek.kind \in NoStart
    /\ peek.kind \in Ends <=> TakesEnd(d)
    /\ peek.kind \in Openers <=> TakesOpener(d) \/ d.do = "method"
    /\ peek.kind \in Middles <=> TakesMiddle(d)
    /\ NeedsInside(d) /\ d.do \in {"take", "method", "target"} => peek.kind \notin NoStart
    /\ g < h => /\ LeavesInside(d) => peek.kind \notin Breaks
                /\ LeavesBreak(d) => peek.kind \in Breaks
                /\ d.do # "method"
    /\ g >= h => /\ NeedsInside(w[g]) => peek.kind \notin Breaks
                 /\ ~ NeedsBreak(w[g])
                 /\ TakesEnd(w[h]) <=> d.do = "method"
                 /\ ~ Gating(d)

\* The top of z, at h, is replaced by what is in w from h to g.
Replacing(z, h, w, g) ==
    /\ h \in Nat /\ h > 1 /\ g \in Nat /\ g >= h - 1
    /\ \A m \in 1 .. h - 1 : w[m] = z[m]
    /\ Raised(z[h], w, h, g) /\ z[h].do \notin {"body", "after", "enter"}

\* That, with the next token taken for it.
Taking(z, h, w, g, ts, us, n, peek) ==
    /\ Replacing(z, h, w, g) /\ InStep(z, h, ts, n, peek)
    /\ n \in Nat /\ (\A j \in 1 .. n : us[j] = ts[j]) /\ us[n + 1] = peek
    /\ Fitting(z[h], w, h, g, peek)

\* Heights below what is replaced, and the height at the end.
LEMMA HeightSwapped ==
    ASSUME NEW z, NEW h, NEW w, NEW g, StackFits(z, h), Replacing(z, h, w, g)
    PROVE  /\ \A m \in 0 .. h - 1 : Height(w, m) = Height(z, m)
           /\ Height(w, g) = Height(z, h - 1) + (IF g >= h /\ TakesEnd(w[h]) THEN 1 ELSE 0)
           /\ Height(z, h) = Height(z, h - 1) + (IF TakesEnd(z[h]) THEN 1 ELSE 0)
           /\ \A m \in 0 .. h : Height(z, m) \in Nat
           /\ ~ TakesOpener(w[g])
<1>1. /\ h \in Nat /\ h > 1 /\ g \in Nat /\ g >= h - 1 /\ h - 1 \in Nat
      /\ \A m \in 1 .. h - 1 : w[m] = z[m]
      /\ \A m \in h .. g : /\ w[m].do \notin {"body", "after"} /\ ~ TakesOpener(w[m])
                           /\ m > h => Adjoins(w[m], w[m - 1])
  BY DEF Replacing, Raised
<1>2. \A m \in 0 .. h - 1 : Height(w, m) = Height(z, m)
  BY <1>1, HeightSame
<1>3. Height(z, h) = Height(z, h - 1) + (IF TakesEnd(z[h]) THEN 1 ELSE 0)
  BY <1>1, HeightFact
<1>4. \A m \in 0 .. h : Height(z, m) \in Nat
  BY <1>1, HeightFact
<1>5. CASE g < h
  <2>1. g = h - 1
    BY <1>1, <1>5
  <2>2. ~ TakesOpener(z[h - 1])
    BY <1>1 DEF StackFits
  <2> QED
    BY <1>1, <1>2, <1>3, <1>4, <1>5, <2>1, <2>2
<1>6. CASE g >= h
  <2>1. \A m \in h + 1 .. g : ~ TakesEnd(w[m])
    <3> TAKE m \in h + 1 .. g
    <3>1. m \in h .. g /\ m - 1 \in h .. g /\ m > h
      BY <1>1
    <3>2. Adjoins(w[m], w[m - 1]) /\ w[m - 1].do # "after"
      BY <1>1, <3>1
    <3> QED
      BY <3>2 DEF Adjoins
  <2>2. Height(w, h) = Height(w, g)
    BY <1>1, <1>6, <2>1, HeightUp
  <2>3. Height(w, h) = Height(w, h - 1) + (IF TakesEnd(w[h]) THEN 1 ELSE 0)
    BY <1>1, HeightFact
  <2>4. Height(w, h - 1) = Height(z, h - 1)
    BY <1>1, <1>2
  <2>5. ~ TakesOpener(w[g])
    BY <1>1, <1>6
  <2> QED
    BY <1>2, <1>3, <1>4, <1>6, <2>2, <2>3, <2>4, <2>5
<1> QED
  BY <1>1, <1>5, <1>6

\* The nesting behind the token taken is the height of the new list.
LEMMA TakenDeep ==
    ASSUME NEW z, NEW h, NEW w, NEW g, NEW ts, NEW us, NEW n, NEW peek,
           Taking(z, h, w, g, ts, us, n, peek)
    PROVE  /\ Deep(us, n + 2) = Height(w, g)
           /\ Deep(us, n + 1) = Deep(ts, n + 1)
           /\ Deep(ts, n + 1) = Height(z, h) - (IF TakesOpener(z[h]) THEN 1 ELSE 0)
           /\ Deep(ts, n + 1) \in Int
<1>1. /\ n \in Nat /\ (\A j \in 1 .. n : us[j] = ts[j]) /\ us[n + 1] = peek
      /\ Replacing(z, h, w, g) /\ StackFits(z, h) /\ LastFits(z, h, ts, n)
      /\ Fitting(z[h], w, h, g, peek) /\ h \in Nat /\ h > 1 /\ g \in Nat
  BY DEF Taking, InStep, Replacing
<1>2. Deep(us, n + 1) = Deep(ts, n + 1)
  <2>1. \A i \in 1 .. n + 1 : Deep(us, i) = Deep(ts, i)
    BY <1>1, AgreeFact
  <2>2. n + 1 \in 1 .. n + 1
    BY <1>1
  <2> QED
    BY <2>1, <2>2
<1>3. Deep(ts, n + 1) = Height(z, h) - (IF TakesOpener(z[h]) THEN 1 ELSE 0)
  BY <1>1 DEF LastFits
<1>4. Deep(us, (n + 1) + 1) = Deep(us, n + 1) + (IF us[n + 1].kind \in Openers THEN 1 ELSE 0)
                                              - (IF us[n + 1].kind \in Ends THEN 1 ELSE 0)
  BY <1>1, DeepFact
<1>5. (n + 1) + 1 = n + 2
  BY <1>1
<1>6. Deep(ts, n + 1) \in Int
  BY <1>1, DeepFact
<1>7. /\ Height(w, g) = Height(z, h - 1) + (IF g >= h /\ TakesEnd(w[h]) THEN 1 ELSE 0)
      /\ Height(z, h) = Height(z, h - 1) + (IF TakesEnd(z[h]) THEN 1 ELSE 0)
      /\ Height(z, h - 1) \in Nat
  BY <1>1, HeightSwapped
<1>8. /\ peek.kind \in Ends <=> TakesEnd(z[h])
      /\ peek.kind \in Openers <=> TakesOpener(z[h]) \/ z[h].do = "method"
      /\ g >= h /\ TakesEnd(w[h]) <=> z[h].do = "method"
  BY <1>1 DEF Fitting
<1>9. ~ (TakesOpener(z[h]) /\ z[h].do = "method")
  BY DEF TakesOpener
<1> DEFINE opens == IF us[n + 1].kind \in Openers THEN 1 ELSE 0
           ends == IF us[n + 1].kind \in Ends THEN 1 ELSE 0
<1>10. /\ opens = (IF TakesOpener(z[h]) THEN 1 ELSE 0) + (IF z[h].do = "method" THEN 1 ELSE 0)
       /\ ends = IF TakesEnd(z[h]) THEN 1 ELSE 0
  BY <1>1, <1>8, <1>9
<1>11. Deep(us, n + 2) = Deep(us, n + 1) + opens - ends
  BY <1>4, <1>5
<1> HIDE DEF opens, ends
<1>12. Deep(us, n + 2) = Height(w, g)
  BY <1>2, <1>3, <1>7, <1>8, <1>10, <1>11
<1> QED
  BY <1>2, <1>3, <1>6, <1>12

\* A block below is no higher than the nesting of the token, and lower if the token
\* goes on with a statement.
LEMMA TakenLow ==
    ASSUME NEW z, NEW h, NEW w, NEW g, NEW ts, NEW us, NEW n, NEW peek,
           Taking(z, h, w, g, ts, us, n, peek), NEW m \in 1 .. h - 1, z[m].do = "body"
    PROVE  /\ Deep(us, n + 1) >= Height(z, m)
           /\ peek.kind \in Middles => Deep(us, n + 1) > Height(z, m)
<1>1. /\ h \in Nat /\ StackFits(z, h) /\ Replacing(z, h, w, g) /\ Fitting(z[h], w, h, g, peek)
  BY DEF Taking, InStep, Replacing
<1>2. /\ Deep(us, n + 1) = Height(z, h) - (IF TakesOpener(z[h]) THEN 1 ELSE 0)
      /\ Height(z, h) \in Nat /\ Height(z, m) \in Nat
  BY <1>1, TakenDeep, HeightSwapped
<1>3. Height(z, m) <= Height(z, h)
  BY <1>1, HeightUp
<1>4. ASSUME Continuing(z[h]) PROVE Height(z, m) < Height(z, h)
  <2>1. m \in 1 .. h /\ m + 1 \in 1 .. h /\ z[m + 1].do = "after"
    BY <1>1, ListPlace
  <2>2. m + 1 # h
    BY <1>1, <2>1 DEF Replacing
  <2>3. m + 1 < h /\ h \in 1 .. h
    BY <1>1, <2>1, <2>2
  <2>4. (m + 1) + 1 < h /\ TakesEnd(z[(m + 1) + 1])
    BY <1>1, <1>4, <2>1, <2>3 DEF StackFits
  <2>5. (m + 1) + 1 \in m + 1 .. h
    BY <1>1, <2>4
  <2> QED
    BY <1>1, <2>4, <2>5, HeightUp
<1>5. TakesOpener(z[h]) => Continuing(z[h])
  BY DEF Continuing, Gating
<1>6. peek.kind \in Middles => Continuing(z[h]) /\ ~ TakesOpener(z[h])
  <2>1. peek.kind \in Middles => TakesMiddle(z[h])
    BY <1>1 DEF Fitting
  <2> QED
    BY <2>1, KindsDiffer DEF Continuing, Gating, TakesMiddle, TakesOpener
<1> QED
  BY <1>2, <1>3, <1>4, <1>5, <1>6

\* A token that begins a statement is taken for a fresh one.
LEMMA TakenFresh ==
    ASSUME NEW z, NEW h, NEW w, NEW g, NEW ts, NEW us, NEW n, NEW peek,
           Taking(z, h, w, g, ts, us, n, peek), StartsAt(us, n + 1)
    PROVE  Unbegun(z, h, n)
<1>1. /\ n \in Nat /\ (\A j \in 1 .. n : us[j] = ts[j]) /\ us[n + 1] = peek
      /\ LastFits(z, h, ts, n) /\ Fitting(z[h], w, h, g, peek)
  BY DEF Taking, InStep
<1>2. NeedsInside(z[h])
  BY <1>1 DEF Fitting, StartsAt
<1>3. n > 0 => us[n + 1 - 1] = ts[n]
  <2>1. n > 0 => n \in 1 .. n /\ n + 1 - 1 = n
    BY <1>1
  <2> QED
    BY <1>1, <2>1
<1>4. n > 0 => ts[n].kind \in Breaks
  BY <1>1, <1>3 DEF StartsAt
<1> QED
  BY <1>1, <1>2, <1>4 DEF LastFits

\* The blocks that are open when a token has been taken.
LEMMA TakenBlocks ==
    ASSUME NEW z, NEW h, NEW w, NEW g, NEW ts, NEW us, NEW n, NEW peek, NEW next,
           Taking(z, h, w, g, ts, us, n, peek)
    PROVE  BlocksFit(w, g, us, n + 1)
<1>1. /\ n \in Nat /\ (\A j \in 1 .. n : us[j] = ts[j]) /\ us[n + 1] = peek
      /\ StackFits(z, h) /\ BlocksFit(z, h, ts, n)
      /\ Replacing(z, h, w, g) /\ h \in Nat /\ h > 1 /\ g \in Nat
      /\ \A m \in 1 .. h - 1 : w[m] = z[m]
      /\ \A m \in h .. g : w[m].do \notin {"body", "after"}
      /\ z[h].do # "after"
  BY DEF Taking, InStep, Replacing, Raised
<1>2. \A m \in 0 .. h - 1 : Height(w, m) = Height(z, m)
  BY <1>1, HeightSwapped
<1>3. /\ \A i \in 1 .. n + 1 : Deep(us, i) = Deep(ts, i)
      /\ \A a \in 0 .. n : GateAt(us, a) <=> GateAt(ts, a)
  BY <1>1, AgreeFact
<1> SUFFICES ASSUME NEW m \in 1 .. g, w[m].do = "body"
             PROVE  /\ OpenFits(w[m], Height(w, m), us, n + 1)
                    /\ m = 1 => w[m].at = 0
                    /\ m > 1 => w[m].at > 0 /\ GateAt(us, w[m].at)
                    /\ \A l \in 1 .. m - 1 : w[l].do = "after" => w[l].at <= w[m].at
                    /\ m = g => TopBlockFits(w[m], Height(w, m), us, n + 1)
  BY DEF BlocksFit
<1>4. m \in 1 .. h - 1 /\ m \in 1 .. h /\ w[m] = z[m] /\ z[m].do = "body"
  BY <1>1
<1>5. /\ OpenFits(z[m], Height(z, m), ts, n)
      /\ m = 1 => z[m].at = 0
      /\ m > 1 => z[m].at > 0 /\ GateAt(ts, z[m].at)
      /\ \A l \in 1 .. m - 1 : z[l].do = "after" => z[l].at <= z[m].at
  BY <1>1, <1>4 DEF BlocksFit
<1> DEFINE at == z[m].at
           level == Height(z, m)
<1>6. /\ at \in 0 .. n /\ Deep(ts, at + 1) = level
      /\ \A k \in at + 1 .. n : Deep(ts, k) >= level /\ (ts[k].kind \in Middles => Deep(ts, k) > level)
  BY <1>5 DEF OpenFits
<1>7. Height(w, m) = level
  BY <1>2, <1>4
<1>8. /\ Deep(us, n + 1) >= level
      /\ peek.kind \in Middles => Deep(us, n + 1) > level
  BY <1>4, TakenLow
<1> HIDE DEF at, level
<1>9. at \in 0 .. n + 1 /\ Deep(us, at + 1) = level
  <2>1. at + 1 \in 1 .. n + 1 /\ at \in 0 .. n + 1
    BY <1>1, <1>6
  <2> QED
    BY <1>3, <1>6, <2>1
<1>10. ASSUME NEW k \in at + 1 .. n + 1
       PROVE  Deep(us, k) >= level /\ (us[k].kind \in Middles => Deep(us, k) > level)
  <2>1. CASE k = n + 1
    BY <1>1, <1>8, <2>1
  <2>2. CASE k # n + 1
    <3>1. k \in at + 1 .. n /\ k \in 1 .. n /\ k \in 1 .. n + 1
      BY <1>1, <1>6, <2>2
    <3> QED
      BY <1>1, <1>3, <1>6, <3>1
  <2> QED
    BY <2>1, <2>2
<1>11. OpenFits(w[m], Height(w, m), us, n + 1)
  BY <1>4, <1>7, <1>9, <1>10 DEF OpenFits, at
<1>12. m # g
  <2>1. m = g => m = h - 1
    BY <1>1, <1>4 DEF Replacing
  <2>2. z[m + 1].do = "after"
    <3>1. m < h
      BY <1>1, <1>4
    <3> QED
      BY <1>1, <1>4, <3>1, ListPlace
  <2>3. m = h - 1 => z[h].do = "after"
    <3>1. m = h - 1 => m + 1 = h
      BY <1>1
    <3> QED
      BY <2>2, <3>1
  <2> QED
    BY <1>1, <2>1, <2>3
<1>13. m > 1 => w[m].at > 0 /\ GateAt(us, w[m].at)
  <2>1. m > 1 => at > 0 /\ GateAt(ts, at)
    BY <1>5 DEF at
  <2>2. m > 1 => GateAt(us, at)
    BY <1>3, <1>6, <2>1
  <2> QED
    BY <1>4, <2>1, <2>2 DEF at
<1>14. \A l \in 1 .. m - 1 : w[l].do = "after" => w[l].at <= w[m].at
  <2>1. \A l \in 1 .. m - 1 : w[l] = z[l]
    BY <1>1, <1>4
  <2> QED
    BY <1>4, <1>5, <2>1
<1> QED
  BY <1>4, <1>5, <1>11, <1>12, <1>13, <1>14

\* Statements under way are in order: a later one lies higher, with an end between.
LEMMA AftersFact ==
    ASSUME NEW z, NEW h \in Nat, NEW ts, NEW n \in Nat, NEW peek, InStep(z, h, ts, n, peek),
           NEW l \in 2 .. h, z[l].do = "after", NEW m \in 2 .. h, z[m].do = "after", l # m,
           z[l].at <= z[m].at, z[l].at \in Nat, z[m].at \in Nat
    PROVE  l < m - 1 /\ TakesEnd(z[l + 1]) /\ l + 1 < m - 1
<1>1. StackFits(z, h) /\ BlocksFit(z, h, ts, n) /\ StatementsFit(z, h, ts, n, peek)
  BY DEF InStep
<1>2. /\ l \in 1 .. h /\ m \in 1 .. h /\ l - 1 \in 1 .. h /\ m - 1 \in 1 .. h
      /\ z[l - 1].do = "body" /\ z[m - 1].do = "body"
  <2>1. l \in 1 .. h /\ m \in 1 .. h /\ l - 1 \in 1 .. h /\ m - 1 \in 1 .. h
    OBVIOUS
  <2> QED
    BY <1>1, <2>1, ListPlace
<1>3. z[l].at > z[l - 1].at /\ z[l - 1].at \in Nat
  <2>1. StatementFits(z[l], z[l - 1], Height(z, l - 1), ts, n, peek)
    BY <1>1 DEF StatementsFit
  <2>2. OpenFits(z[l - 1], Height(z, l - 1), ts, n)
    BY <1>1, <1>2 DEF BlocksFit
  <2>3. z[l].at \in z[l - 1].at + 1 .. n + 1 /\ z[l - 1].at \in 0 .. n
    BY <2>1, <2>2 DEF StatementFits, OpenFits
  <2> QED
    BY <2>3
<1>4. ~ (m < l)
  <2> SUFFICES ASSUME m < l PROVE FALSE
    OBVIOUS
  <2>1. m # l - 1
    BY <1>2
  <2>2. m \in 1 .. (l - 1) - 1
    BY <2>1
  <2>3. z[m].at <= z[l - 1].at
    BY <1>1, <1>2, <2>2 DEF BlocksFit
  <2> QED
    BY <1>3, <2>3
<1>5. l < m - 1
  <2>1. l # m - 1
    BY <1>2
  <2> QED
    BY <1>4, <2>1
<1>6. Continuing(z[m - 1])
  BY <1>2 DEF Continuing
<1>7. l + 1 < m - 1 /\ TakesEnd(z[l + 1])
  BY <1>1, <1>2, <1>5, <1>6 DEF StackFits
<1> QED
  BY <1>5, <1>7

\* A token that begins a statement is deeper than the statements under way.
LEMMA TakenDeeper ==
    ASSUME NEW z, NEW h, NEW w, NEW g, NEW ts, NEW us, NEW n, NEW peek,
           Taking(z, h, w, g, ts, us, n, peek), StartsAt(us, n + 1),
           NEW m \in 2 .. h, z[m].do = "after", z[m].at \in 1 .. n
    PROVE  Deep(us, n + 1) > Height(z, m - 1)
<1>1. /\ h \in Nat /\ n \in Nat /\ InStep(z, h, ts, n, peek) /\ StackFits(z, h)
      /\ StatementsFit(z, h, ts, n, peek) /\ Replacing(z, h, w, g)
  BY DEF Taking, InStep, Replacing
<1>2. PICK o \in 1 .. h : z[o].do = "after" /\ z[o].at = n + 1
  BY TakenFresh DEF Unbegun
<1>3. o \in 2 .. h /\ o < h
  <2>1. o \in 2 .. h
    <3>1. o > 1
      BY <1>1, <1>2, ListPlace
    <3> QED
      BY <3>1
  <2> QED
    BY <1>1, <1>2, <2>1 DEF StatementsFit
<1>4. m < o - 1 /\ TakesEnd(z[m + 1]) /\ m + 1 < o - 1
  <2>1. m # o /\ z[m].at <= z[o].at /\ z[m].at \in Nat /\ z[o].at \in Nat
    BY <1>1, <1>2
  <2> QED
    BY <1>1, <1>2, <1>3, <2>1, AftersFact
<1>5. Height(z, m - 1) < Height(z, o)
  <2>1. m - 1 \in Nat /\ o \in Nat /\ m - 1 <= o /\ m + 1 \in (m - 1) + 1 .. o
    BY <1>1, <1>3, <1>4
  <2> QED
    BY <1>4, <2>1, HeightUp
<1>6. Height(z, o) <= Height(z, h)
  BY <1>1, <1>3, HeightUp
<1>7. TakesOpener(z[h]) => Height(z, o) < Height(z, h)
  <2> SUFFICES ASSUME TakesOpener(z[h]) PROVE Height(z, o) < Height(z, h)
    OBVIOUS
  <2>1. Continuing(z[h])
    BY DEF Continuing, Gating
  <2>2. o + 1 < h /\ TakesEnd(z[o + 1])
    BY <1>1, <1>2, <1>3, <2>1 DEF StackFits
  <2>3. o + 1 \in o + 1 .. h
    BY <1>1, <2>2
  <2> QED
    BY <1>1, <1>3, <2>2, <2>3, HeightUp
<1>8. /\ Deep(us, n + 1) = Height(z, h) - (IF TakesOpener(z[h]) THEN 1 ELSE 0)
      /\ Height(z, h) \in Nat /\ Height(z, o) \in Nat /\ Height(z, m - 1) \in Nat
  <2>1. m - 1 \in Nat /\ o \in Nat
    BY <1>1
  <2> QED
    BY <1>1, <2>1, TakenDeep, HeightFact
<1> QED
  BY <1>5, <1>6, <1>7, <1>8

\* The statements under way when a token has been taken.
LEMMA TakenStatements ==
    ASSUME NEW z, NEW h, NEW w, NEW g, NEW ts, NEW us, NEW n, NEW peek, NEW next,
           Taking(z, h, w, g, ts, us, n, peek)
    PROVE  /\ StatementsFit(w, g, us, n + 1, next)
           /\ \A m \in 1 .. g : w[m].do = "after" => w[m].at # (n + 1) + 1
<1>1. /\ n \in Nat /\ (\A j \in 1 .. n : us[j] = ts[j]) /\ us[n + 1] = peek
      /\ StackFits(z, h) /\ BlocksFit(z, h, ts, n) /\ StatementsFit(z, h, ts, n, peek)
      /\ Replacing(z, h, w, g) /\ h \in Nat /\ h > 1 /\ g \in Nat
      /\ \A m \in 1 .. h - 1 : w[m] = z[m]
      /\ \A m \in h .. g : w[m].do \notin {"body", "after"}
      /\ Fitting(z[h], w, h, g, peek)
  BY DEF Taking, InStep, Replacing, Raised
<1>2. \A m \in 0 .. h - 1 : Height(w, m) = Height(z, m)
  BY <1>1, HeightSwapped
<1>3. /\ \A i \in 1 .. n + 1 : Deep(us, i) = Deep(ts, i)
      /\ \A i \in 1 .. n : StartsAt(us, i) <=> StartsAt(ts, i)
      /\ \A from \in Nat, to \in 0 .. n : \A level :
            JumpOpen(us, from, to, level) <=> JumpOpen(ts, from, to, level)
  BY <1>1, AgreeFact
<1>4. ASSUME NEW m \in 1 .. g, w[m].do = "after"
      PROVE  /\ m \in 2 .. g /\ StatementFits(w[m], w[m - 1], Height(w, m - 1), us, n + 1, next)
             /\ w[m].at # (n + 1) + 1
  <2>1. m \in 1 .. h - 1 /\ m \in 1 .. h /\ w[m] = z[m] /\ z[m].do = "after"
    BY <1>1, <1>4
  <2>2. m > 1 /\ z[m - 1].do = "body"
    BY <1>1, <2>1, ListPlace
  <2>3. m \in 2 .. h /\ m - 1 \in 1 .. h - 1 /\ w[m - 1] = z[m - 1] /\ Height(w, m - 1) = Height(z, m - 1)
    BY <1>1, <1>2, <2>1, <2>2
  <2> DEFINE e == z[m]
             d == z[m - 1]
             at == z[m].at
             level == Height(z, m - 1)
  <2>4. /\ StatementFits(e, d, level, ts, n, peek)
        /\ at = n + 1 => m < h /\ FreshFits(z[h], ts, n)
    BY <1>1, <2>1, <2>3 DEF StatementsFit
  <2>5. d.at \in 0 .. n
    <3>1. OpenFits(d, level, ts, n)
      BY <1>1, <2>2, <2>3 DEF BlocksFit
    <3> QED
      BY <3>1 DEF OpenFits
  <2>6. /\ at \in d.at + 1 .. n + 1 /\ Deep(ts, at) = level
        /\ e.kind = TokenAt(ts, n, peek, at).kind
        /\ e.terminated <=> JumpOpen(ts, d.at, at - 1, level) /\ TokenAt(ts, n, peek, at).after = "no"
        /\ at <= n => StartsAt(ts, at)
        /\ \A k \in at + 1 .. n : StartsAt(ts, k) => Deep(ts, k) > level
    BY <2>4 DEF StatementFits
  <2>7. z[m].at = at /\ e.at = at
    OBVIOUS
  <2> HIDE DEF at, level, d, e
  <2>8. at \in 1 .. n + 1 /\ at - 1 \in 0 .. n /\ at # (n + 1) + 1 /\ at # (n + 1) + 1 + 0
    BY <1>1, <2>5, <2>6
  <2>9. TokenAt(us, n + 1, next, at) = TokenAt(ts, n, peek, at)
    <3>1. TokenAt(us, n + 1, next, at) = us[at]
      BY <2>8 DEF TokenAt
    <3>2. CASE at = n + 1
      BY <1>1, <3>1, <3>2 DEF TokenAt
    <3>3. CASE at # n + 1
      <4>1. at \in 1 .. n
        BY <1>1, <2>8, <3>3
      <4> QED
        BY <1>1, <3>1, <3>3, <4>1 DEF TokenAt
    <3> QED
      BY <3>2, <3>3
  <2>10. JumpOpen(us, d.at, at - 1, level) <=> JumpOpen(ts, d.at, at - 1, level)
    BY <1>3, <2>5, <2>8
  <2>11. StartsAt(us, at)
    <3>1. CASE at = n + 1
      <4>1. FreshFits(z[h], ts, n)
        BY <2>4, <3>1
      <4>2. us[at].kind \notin NoStart
        BY <1>1, <3>1, <4>1 DEF FreshFits, Fitting
      <4>3. at = 1 \/ us[at - 1].kind \in Breaks
        <5>1. n # 0 => n \in 1 .. n /\ at - 1 = n
          BY <1>1, <3>1
        <5>2. n # 0 => ts[n].kind \in Breaks
          BY <4>1 DEF FreshFits
        <5>3. n = 0 => at = 1
          BY <3>1
        <5> QED
          BY <1>1, <5>1, <5>2, <5>3
      <4> QED
        BY <4>2, <4>3 DEF StartsAt
    <3>2. CASE at # n + 1
      <4>1. at \in 1 .. n /\ at <= n
        BY <1>1, <2>8, <3>2
      <4> QED
        BY <1>3, <2>6, <4>1
    <3> QED
      BY <3>1, <3>2
  <2>12. ASSUME NEW k \in at + 1 .. n + 1, StartsAt(us, k) PROVE Deep(us, k) > level
    <3>1. CASE k = n + 1
      <4>1. z[m].at \in 1 .. n
        BY <1>1, <2>7, <2>8, <3>1
      <4> QED
        BY <2>1, <2>3, <2>12, <3>1, <4>1, TakenDeeper DEF level
    <3>2. CASE k # n + 1
      <4>1. k \in at + 1 .. n /\ k \in 1 .. n /\ k \in 1 .. n + 1
        BY <1>1, <2>8, <3>2
      <4> QED
        BY <1>3, <2>6, <2>12, <4>1
    <3> QED
      BY <3>1, <3>2
  <2>13. at \in d.at + 1 .. (n + 1) + 1 /\ Deep(us, at) = level
    BY <1>1, <1>3, <2>5, <2>6, <2>8
  <2>14. StatementFits(e, d, level, us, n + 1, next)
    BY <2>6, <2>7, <2>9, <2>10, <2>11, <2>12, <2>13 DEF StatementFits
  <2>15. m \in 2 .. g
    BY <1>4, <2>2
  <2> QED
    BY <2>1, <2>3, <2>7, <2>8, <2>14, <2>15 DEF e, d, level
<1> QED
  BY <1>4 DEF StatementsFit

\* Where no block is open above a branch to come, nothing is asked that opens one.
LEMMA NothingAsked ==
    ASSUME NEW z, NEW h \in Nat, StackFits(z, h), NEW m \in 1 .. h - 1, z[m].do = "enter",
           \A l \in m + 1 .. h : z[l].do \notin {"body", "enter"}
    PROVE  ~ TakesEnd(z[h]) /\ ~ Begins(z[h]) /\ ~ AsksBranch(z[h])
<1>1. h \in 1 .. h
  OBVIOUS
<1>2. ~ TakesEnd(z[h]) /\ ~ Begins(z[h])
  <2> SUFFICES ASSUME TakesEnd(z[h]) \/ Begins(z[h]) PROVE FALSE
    OBVIOUS
  <2>1. h > 2 /\ z[h - 1].do = "after" /\ z[h - 2].do = "body"
    BY <1>1, ListPlace
  <2>2. m # h - 1 /\ m # h - 2
    BY <2>1
  <2>3. h - 2 \in m + 1 .. h
    BY <2>1, <2>2
  <2> QED
    BY <2>1, <2>3
<1>3. ~ AsksBranch(z[h])
  <2> SUFFICES ASSUME AsksBranch(z[h]) PROVE FALSE
    OBVIOUS
  <2>1. h > 3 /\ TakesEnd(z[h - 1]) /\ z[h - 2].do = "after" /\ z[h - 3].do = "body"
    BY <1>1, ListPlace
  <2>2. m # h - 1 /\ m # h - 2 /\ m # h - 3
    BY <2>1 DEF TakesEnd
  <2>3. h - 3 \in m + 1 .. h
    BY <2>1, <2>2
  <2> QED
    BY <2>1, <2>3
<1> QED
  BY <1>2, <1>3

\* The branches to come when a token has been taken.
LEMMA TakenEnters ==
    ASSUME NEW z, NEW h, NEW w, NEW g, NEW ts, NEW us, NEW n, NEW peek,
           Taking(z, h, w, g, ts, us, n, peek)
    PROVE  EntersFit(w, g, us, n + 1)
<1>1. /\ n \in Nat /\ (\A j \in 1 .. n : us[j] = ts[j]) /\ us[n + 1] = peek
      /\ StackFits(z, h) /\ EntersFit(z, h, ts, n) /\ LastFits(z, h, ts, n)
      /\ Replacing(z, h, w, g) /\ h \in Nat /\ h > 1 /\ g \in Nat /\ g >= h - 1
      /\ \A m \in 1 .. h - 1 : w[m] = z[m]
      /\ Raised(z[h], w, h, g) /\ Fitting(z[h], w, h, g, peek)
  BY DEF Taking, InStep, Replacing
<1>2. \A m \in h .. g :
         /\ w[m].do \notin {"body", "after"}
         /\ w[m].do = "enter" =>
               \/ z[h].do = "method" /\ \A l \in m + 1 .. g : w[l].do # "enter"
               \/ AsksBranch(z[h]) /\ \E q \in m + 1 .. g :
                                         Gating(w[q]) /\ \A l \in m + 1 .. q : w[l].do # "enter"
  BY <1>1 DEF Raised
<1>3. ~ Unbegun(w, g, n + 1)
  BY TakenStatements DEF Unbegun
<1>4. w[1].do # "enter"
  <2>1. w[1] = z[1] /\ z[1].do # "enter"
    BY <1>1 DEF StackFits
  <2> QED
    BY <2>1
<1>5. Deep(us, (n + 1) + 1) = Deep(us, n + 1) + (IF peek.kind \in Openers THEN 1 ELSE 0)
                                               - (IF peek.kind \in Ends THEN 1 ELSE 0)
  BY <1>1, DeepFact
<1>6. Deep(us, n + 1) \in Int
  BY <1>1, DeepType
<1>7. ASSUME Gating(z[h]) \/ z[h].do = "method" PROVE GateAt(us, n + 1)
  <2>1. peek.kind \in Openers \/ peek.kind \in Middles
    BY <1>1, <1>7 DEF Fitting, Gating
  <2>2. n + 1 \in 1 .. n + 1 /\ (\A j \in (n + 1) + 1 .. n + 1 : ~ StartsAt(us, j))
    BY <1>1
  <2>3. \/ peek.kind \in Openers /\ Deep(us, n + 1) = Deep(us, (n + 1) + 1) - 1
        \/ peek.kind \in Middles /\ Deep(us, n + 1) = Deep(us, (n + 1) + 1)
    BY <1>5, <1>6, <2>1, KindsDiffer
  <2>4. Gates(us, n + 1, n + 1)
    BY <1>1, <2>2, <2>3 DEF Gates
  <2> QED
    BY <2>2, <2>4 DEF GateAt
<1>8. ASSUME NEW m \in 2 .. g, w[m].do = "enter" PROVE GateFits(w, g, m, us, n + 1)
  <2>1. CASE m >= h
    <3>1. m \in h .. g
      BY <2>1
    <3>2. CASE z[h].do = "method" /\ \A l \in m + 1 .. g : w[l].do # "enter"
      <4>1. \A l \in m + 1 .. g : w[l].do \notin {"body", "enter"}
        BY <1>1, <1>2, <3>1, <3>2
      <4> QED
        BY <1>3, <1>7, <3>2, <4>1 DEF GateFits
    <3>3. CASE AsksBranch(z[h]) /\ \E q \in m + 1 .. g :
                                      Gating(w[q]) /\ \A l \in m + 1 .. q : w[l].do # "enter"
      <4>1. PICK q \in m + 1 .. g : Gating(w[q]) /\ \A l \in m + 1 .. q : w[l].do # "enter"
        BY <3>3
      <4>2. \A l \in m + 1 .. q : w[l].do \notin {"body", "enter"}
        <5>1. \A l \in m + 1 .. q : l \in h .. g
          BY <1>1, <3>1
        <5> QED
          BY <1>2, <4>1, <5>1
      <4> QED
        BY <4>1, <4>2 DEF GateFits
    <3> QED
      BY <1>2, <1>8, <3>1, <3>2, <3>3
  <2>2. CASE m < h
    <3>1. m \in 2 .. h /\ m \in 1 .. h - 1 /\ w[m] = z[m] /\ z[m].do = "enter"
      BY <1>1, <1>8, <2>2
    <3>2. GateFits(z, h, m, ts, n)
      BY <1>1, <3>1 DEF EntersFit
    <3>3. ASSUME NEW q \in m + 1 .. h, Gating(z[q]),
                 \A l \in m + 1 .. q : z[l].do \notin {"body", "enter"}
          PROVE  GateFits(w, g, m, us, n + 1)
      <4>1. CASE q < h
        <5>1. q \in m + 1 .. g /\ \A l \in m + 1 .. q : w[l] = z[l]
          BY <1>1, <3>1, <4>1
        <5>2. w[q] = z[q]
          BY <5>1
        <5> QED
          BY <3>3, <5>1, <5>2 DEF GateFits
      <4>2. CASE q = h
        <5>1. g < h
          BY <1>1, <3>3, <4>2 DEF Fitting
        <5>2. \A l \in m + 1 .. g : l \in m + 1 .. q /\ w[l] = z[l]
          BY <1>1, <3>1, <4>2, <5>1
        <5>3. \A l \in m + 1 .. g : w[l].do \notin {"body", "enter"}
          BY <3>3, <5>2
        <5> QED
          BY <1>3, <1>7, <3>3, <4>2, <5>3 DEF GateFits
      <4> QED
        BY <1>1, <3>1, <4>1, <4>2
    <3>4. ASSUME \A l \in m + 1 .. h : z[l].do \notin {"body", "enter"},
                 GateAt(ts, n), ~ Unbegun(z, h, n)
          PROVE  GateFits(w, g, m, us, n + 1)
      <4>1. ~ TakesEnd(z[h]) /\ ~ Begins(z[h]) /\ ~ AsksBranch(z[h])
        BY <1>1, <3>1, <3>4, NothingAsked
      <4>2. ~ TakesOpener(z[h])
        BY <1>1, <3>4 DEF LastFits
      <4>3. z[h].do # "method"
        BY <4>1 DEF Begins
      <4>4. peek.kind \notin Openers /\ peek.kind \notin Ends
        BY <1>1, <4>1, <4>2, <4>3 DEF Fitting
      <4>5. Deep(us, (n + 1) + 1) = Deep(us, n + 1)
        BY <1>5, <1>6, <4>4
      <4>6. ~ StartsAt(us, n + 1)
        BY <3>4, TakenFresh
      <4>7. GateAt(us, n + 1)
        <5>1. PICK o \in 1 .. n : Gates(ts, o, n)
          BY <3>4 DEF GateAt
        <5>2. /\ \A i \in 1 .. n + 1 : Deep(us, i) = Deep(ts, i)
              /\ \A i \in 1 .. n : StartsAt(us, i) <=> StartsAt(ts, i)
          BY <1>1, AgreeFact
        <5>3. o \in 1 .. n + 1 /\ n + 1 \in 1 .. n + 1 /\ us[o] = ts[o]
          BY <1>1, <5>1
        <5>4. \A j \in o + 1 .. n + 1 : j = n + 1 \/ (j \in o + 1 .. n /\ j \in 1 .. n)
          BY <1>1, <5>1
        <5>5. \A j \in o + 1 .. n + 1 : ~ StartsAt(us, j)
          BY <4>6, <5>1, <5>2, <5>4 DEF Gates
        <5>6. Gates(us, o, n + 1)
          BY <4>5, <5>1, <5>2, <5>3, <5>5 DEF Gates
        <5> QED
          BY <5>3, <5>6 DEF GateAt
      <4>8. \A l \in m + 1 .. g : w[l].do \notin {"body", "enter"}
        <5> TAKE l \in m + 1 .. g
        <5>1. CASE l < h
          <6>1. l \in m + 1 .. h /\ w[l] = z[l]
            BY <1>1, <3>1, <5>1
          <6> QED
            BY <3>4, <6>1
        <5>2. CASE l >= h
          <6>1. l \in h .. g
            BY <1>1, <3>1, <5>2
          <6> QED
            BY <1>2, <4>1, <4>3, <6>1
        <5> QED
          BY <1>1, <3>1, <5>1, <5>2
      <4> QED
        BY <1>3, <4>7, <4>8 DEF GateFits
    <3> QED
      BY <3>2, <3>3, <3>4 DEF GateFits
  <2> QED
    BY <1>1, <2>1, <2>2
<1> QED
  BY <1>4, <1>8 DEF EntersFit

\* The end of the text and the top of the list when a token has been taken.
LEMMA TakenLast ==
    ASSUME NEW z, NEW h, NEW w, NEW g, NEW ts, NEW us, NEW n, NEW peek,
           Taking(z, h, w, g, ts, us, n, peek)
    PROVE  LastFits(w, g, us, n + 1)
<1>1. /\ n \in Nat /\ us[n + 1] = peek /\ StackFits(z, h) /\ Replacing(z, h, w, g)
      /\ h \in Nat /\ h > 1 /\ g \in Nat /\ g >= h - 1
      /\ \A m \in 1 .. h - 1 : w[m] = z[m]
      /\ Fitting(z[h], w, h, g, peek)
  BY DEF Taking, InStep, Replacing
<1>2. n + 1 > 0 /\ n + 1 # 0 /\ (n + 1) + 1 = n + 2
  BY <1>1
<1>3. Deep(us, n + 2) = Height(w, g) /\ ~ TakesOpener(w[g]) /\ Height(w, g) \in Nat
  BY <1>1, TakenDeep, HeightSwapped, HeightFact
<1>4. CASE g >= h
  <2>1. /\ NeedsInside(w[g]) => peek.kind \notin Breaks
        /\ ~ NeedsBreak(w[g])
    BY <1>1, <1>4 DEF Fitting
  <2> QED
    BY <1>1, <1>2, <1>3, <2>1 DEF LastFits
<1>5. CASE g < h
  <2>1. g = h - 1 /\ w[g] = z[h - 1] /\ h \in 2 .. h
    BY <1>1, <1>5
  <2>2. Adjoins(z[h], z[h - 1])
    BY <1>1, <2>1 DEF StackFits
  <2>3. /\ LeavesInside(z[h]) => peek.kind \notin Breaks
        /\ LeavesBreak(z[h]) => peek.kind \in Breaks
    BY <1>1, <1>5 DEF Fitting
  <2>4. /\ NeedsInside(w[g]) => peek.kind \notin Breaks
        /\ NeedsBreak(w[g]) => peek.kind \in Breaks
    BY <2>1, <2>2, <2>3 DEF Adjoins
  <2> QED
    BY <1>1, <1>2, <1>3, <2>4 DEF LastFits
<1> QED
  BY <1>1, <1>4, <1>5

\* The reports when a token has been taken.
LEMMA TakenReports ==
    ASSUME NEW z, NEW h, NEW w, NEW g, NEW ts, NEW us, NEW n, NEW peek,
           Taking(z, h, w, g, ts, us, n, peek), NEW R, ReportsFit(z, h, ts, n, R)
    PROVE  ReportsFit(w, g, us, n + 1, R)
<1>1. /\ n \in Nat /\ (\A j \in 1 .. n : us[j] = ts[j])
      /\ h \in Nat /\ h > 1 /\ g \in Nat /\ g >= h - 1 /\ z[h].do # "after"
      /\ \A m \in 1 .. h - 1 : w[m] = z[m]
      /\ \A m \in h .. g : w[m].do \notin {"body", "after"}
  BY DEF Taking, Replacing, Raised
<1>2. ASSUME NEW i
      PROVE  (\A m \in 1 .. g : w[m].do = "after" => w[m].at # i)
             <=> (\A m \in 1 .. h : z[m].do = "after" => z[m].at # i)
  <2>1. \A m \in 1 .. g : w[m].do = "after" => m \in 1 .. h /\ w[m] = z[m]
    BY <1>1
  <2>2. \A m \in 1 .. h : z[m].do = "after" => m \in 1 .. g /\ w[m] = z[m]
    <3> TAKE m \in 1 .. h
    <3>1. z[m].do = "after" => m # h
      BY <1>1
    <3> QED
      BY <1>1, <3>1
  <2> QED
    BY <2>1, <2>2
<1>3. ASSUME NEW i \in Nat
      PROVE  <<"UnreachableCode", i>> \in R <=>
                /\ i \in 1 .. n + 1 /\ BehindJump(us, i)
                /\ \A m \in 1 .. g : w[m].do = "after" => w[m].at # i
  <2>1. <<"UnreachableCode", i>> \in R <=>
           /\ i \in 1 .. n /\ BehindJump(ts, i)
           /\ \A m \in 1 .. h : z[m].do = "after" => z[m].at # i
    BY DEF ReportsFit
  <2>2. CASE i = n + 1
    <3>1. <<"UnreachableCode", i>> \notin R
      BY <1>1, <2>1, <2>2
    <3>2. BehindJump(us, i) => ~ \A m \in 1 .. h : z[m].do = "after" => z[m].at # i
      <4>1. BehindJump(us, i) => Unbegun(z, h, n)
        BY <2>2, TakenFresh DEF BehindJump
      <4> QED
        BY <2>2, <4>1 DEF Unbegun
    <3> QED
      BY <1>2, <3>1, <3>2
  <2>3. CASE i # n + 1
    <3>1. i \in 1 .. n + 1 <=> i \in 1 .. n
      BY <1>1, <2>3
    <3>2. i \in 1 .. n => (BehindJump(us, i) <=> BehindJump(ts, i))
      BY <1>1, AgreeFact
    <3> QED
      BY <1>2, <2>1, <3>1, <3>2
  <2> QED
    BY <2>2, <2>3
<1> QED
  BY <1>3 DEF ReportsFit

\* What takes the place of another thing leaves no block on top.
LEMMA NoBlockBared ==
    ASSUME NEW z, NEW h, NEW w, NEW g, StackFits(z, h), Replacing(z, h, w, g)
    PROVE  w[g].do # "body"
<1>1. /\ h \in Nat /\ h > 1 /\ g \in Nat /\ g >= h - 1 /\ z[h].do # "after"
      /\ \A m \in 1 .. h - 1 : w[m] = z[m]
      /\ \A m \in h .. g : w[m].do # "body"
  BY DEF Replacing, Raised
<1>2. CASE g >= h
  BY <1>1, <1>2
<1>3. CASE g < h
  <2>1. g = h - 1 /\ w[g] = z[h - 1] /\ h \in 2 .. h
    BY <1>1, <1>3
  <2>2. Adjoins(z[h], z[h - 1])
    BY <2>1 DEF StackFits
  <2> QED
    BY <1>1, <2>1, <2>2 DEF Adjoins
<1> QED
  BY <1>1, <1>2, <1>3

\* take(): the list stays in step, and the reports stay right.
LEMMA TakeKeeps ==
    ASSUME NEW z, NEW h, NEW w, NEW g, NEW ts, NEW us, NEW n, NEW peek, NEW next,
           Taking(z, h, w, g, ts, us, n, peek), NEW R, ReportsFit(z, h, ts, n, R)
    PROVE  InStep(w, g, us, n + 1, next) /\ ReportsFit(w, g, us, n + 1, R) /\ w[g].do # "body"
<1>1. StackFits(w, g)
  <2>1. /\ StackFits(z, h) /\ h \in Nat /\ h > 1 /\ g \in Nat /\ g >= h - 1
        /\ \A m \in 1 .. h - 1 : w[m] = z[m]
        /\ Raised(z[h], w, h, g) /\ z[h].do \notin {"body", "after"}
    BY DEF Taking, Replacing, InStep
  <2> QED
    BY <2>1, SwapFits
<1>2. BlocksFit(w, g, us, n + 1)
  BY TakenBlocks
<1>6. w[g].do # "body"
  BY NoBlockBared DEF Taking, InStep
<1>3. StatementsFit(w, g, us, n + 1, next)
  BY TakenStatements
<1>4. EntersFit(w, g, us, n + 1) /\ LastFits(w, g, us, n + 1)
  BY TakenEnters, TakenLast
<1>5. ReportsFit(w, g, us, n + 1, R)
  BY TakenReports
<1> QED
  BY <1>1, <1>2, <1>3, <1>4, <1>5, <1>6 DEF InStep

--------------------------------------------------------------------------------
(* No token is taken *)

\* Nothing is taken for d, which is replaced by what is from h to g.
Skipping(z, h, w, g, ts, n, peek) ==
    /\ Replacing(z, h, w, g) /\ InStep(z, h, ts, n, peek) /\ n \in Nat
    /\ z[h].do \notin {"take", "method", "target"}
    /\ g < h => /\ LeavesInside(z[h]) => NeedsInside(z[h])
                /\ LeavesBreak(z[h]) => NeedsBreak(z[h])
    /\ g >= h => /\ NeedsInside(w[g]) => NeedsInside(z[h])
                 /\ ~ NeedsBreak(w[g]) /\ ~ TakesEnd(w[h])

\* With such a thing on top no statement is fresh.
LEMMA NoneFresh ==
    ASSUME NEW z, NEW h \in Nat, NEW ts, NEW n, NEW peek, InStep(z, h, ts, n, peek),
           z[h].do \notin {"take", "method", "target"}
    PROVE  ~ Unbegun(z, h, n)
<1> SUFFICES ASSUME NEW m \in 1 .. h, z[m].do = "after", z[m].at = n + 1 PROVE FALSE
  BY DEF Unbegun
<1>1. StackFits(z, h) /\ StatementsFit(z, h, ts, n, peek)
  BY DEF InStep
<1>2. m \in 2 .. h
  <2>1. m > 1
    BY <1>1, ListPlace
  <2> QED
    BY <2>1
<1> QED
  BY <1>1, <1>2 DEF StatementsFit, FreshFits

\* Without a token, too, the list stays in step.
LEMMA SkipKeeps ==
    ASSUME NEW z, NEW h, NEW w, NEW g, NEW ts, NEW n, NEW peek,
           Skipping(z, h, w, g, ts, n, peek), NEW R, ReportsFit(z, h, ts, n, R)
    PROVE  InStep(w, g, ts, n, peek) /\ ReportsFit(w, g, ts, n, R) /\ w[g].do # "body"
<1>1. /\ n \in Nat /\ InStep(z, h, ts, n, peek) /\ StackFits(z, h)
      /\ BlocksFit(z, h, ts, n) /\ StatementsFit(z, h, ts, n, peek)
      /\ EntersFit(z, h, ts, n) /\ LastFits(z, h, ts, n)
      /\ Replacing(z, h, w, g) /\ h \in Nat /\ h > 1 /\ g \in Nat /\ g >= h - 1
      /\ \A m \in 1 .. h - 1 : w[m] = z[m]
      /\ z[h].do \notin {"body", "after", "enter", "take", "method", "target"}
      /\ Raised(z[h], w, h, g)
  BY DEF Skipping, InStep, Replacing
<1>2. \A m \in h .. g :
         /\ w[m].do \notin {"body", "after"}
         /\ w[m].do = "enter" =>
               AsksBranch(z[h]) /\ \E q \in m + 1 .. g :
                                      Gating(w[q]) /\ \A l \in m + 1 .. q : w[l].do # "enter"
  BY <1>1 DEF Raised
<1>3. \A m \in 0 .. h - 1 : Height(w, m) = Height(z, m)
  BY <1>1, HeightSwapped
<1>4. StackFits(w, g)
  BY <1>1, SwapFits
<1>5. ~ Unbegun(z, h, n)
  BY <1>1, NoneFresh
<1>6. \A m \in 1 .. g : w[m].do \in {"body", "after"} => m \in 1 .. h - 1 /\ m \in 1 .. h /\ w[m] = z[m]
  BY <1>1, <1>2
<1>7. ~ Unbegun(w, g, n)
  BY <1>5, <1>6 DEF Unbegun
<1>8. BlocksFit(w, g, ts, n)
  <2> SUFFICES ASSUME NEW m \in 1 .. g, w[m].do = "body"
               PROVE  /\ OpenFits(w[m], Height(w, m), ts, n)
                      /\ m = 1 => w[m].at = 0
                      /\ m > 1 => w[m].at > 0 /\ GateAt(ts, w[m].at)
                      /\ \A l \in 1 .. m - 1 : w[l].do = "after" => w[l].at <= w[m].at
                      /\ m = g => TopBlockFits(w[m], Height(w, m), ts, n)
    BY DEF BlocksFit
  <2>1. m \in 1 .. h - 1 /\ m \in 1 .. h /\ w[m] = z[m] /\ Height(w, m) = Height(z, m)
    BY <1>3, <1>6
  <2>2. /\ OpenFits(z[m], Height(z, m), ts, n)
        /\ m = 1 => z[m].at = 0
        /\ m > 1 => z[m].at > 0 /\ GateAt(ts, z[m].at)
        /\ \A l \in 1 .. m - 1 : z[l].do = "after" => z[l].at <= z[m].at
    BY <1>1, <2>1 DEF BlocksFit
  <2>3. m # g
    <3>1. z[m + 1].do = "after"
      BY <1>1, <2>1, ListPlace
    <3>2. m = g => m + 1 = h
      BY <1>1, <2>1
    <3> QED
      BY <1>1, <3>1, <3>2
  <2>4. \A l \in 1 .. m - 1 : w[l] = z[l]
    BY <1>1, <2>1
  <2> QED
    BY <2>1, <2>2, <2>3, <2>4
<1>9. StatementsFit(w, g, ts, n, peek)
  <2> SUFFICES ASSUME NEW m \in 2 .. g, w[m].do = "after"
               PROVE  /\ StatementFits(w[m], w[m - 1], Height(w, m - 1), ts, n, peek)
                      /\ w[m].at = n + 1 => m < g /\ FreshFits(w[g], ts, n)
    BY DEF StatementsFit
  <2>1. m \in 1 .. g /\ m \in 2 .. h /\ w[m] = z[m] /\ w[m - 1] = z[m - 1]
        /\ Height(w, m - 1) = Height(z, m - 1)
    <3>1. m \in 1 .. g
      OBVIOUS
    <3>2. m \in 1 .. h - 1 /\ w[m] = z[m]
      BY <1>6, <3>1
    <3>3. m - 1 \in 1 .. h - 1 /\ m - 1 \in 0 .. h - 1 /\ m \in 2 .. h
      BY <1>1, <3>2
    <3> QED
      BY <1>1, <1>3, <3>1, <3>2, <3>3
  <2>2. StatementFits(z[m], z[m - 1], Height(z, m - 1), ts, n, peek)
    BY <1>1, <2>1 DEF StatementsFit
  <2>3. w[m].at # n + 1
    BY <1>7, <2>1 DEF Unbegun
  <2> QED
    BY <2>1, <2>2, <2>3
<1>10. EntersFit(w, g, ts, n)
  <2>1. w[1].do # "enter"
    <3>1. w[1] = z[1] /\ z[1].do # "enter"
      BY <1>1 DEF StackFits
    <3> QED
      BY <3>1
  <2>2. ASSUME NEW m \in 2 .. g, w[m].do = "enter" PROVE GateFits(w, g, m, ts, n)
    <3>1. CASE m >= h
      <4>1. m \in h .. g
        BY <3>1
      <4>2. PICK q \in m + 1 .. g : Gating(w[q]) /\ \A l \in m + 1 .. q : w[l].do # "enter"
        BY <1>2, <2>2, <4>1
      <4>3. \A l \in m + 1 .. q : w[l].do \notin {"body", "enter"}
        <5>1. \A l \in m + 1 .. q : l \in h .. g
          BY <1>1, <4>1
        <5> QED
          BY <1>2, <4>2, <5>1
      <4> QED
        BY <4>2, <4>3 DEF GateFits
    <3>2. CASE m < h
      <4>1. m \in 2 .. h /\ m \in 1 .. h - 1 /\ w[m] = z[m] /\ z[m].do = "enter"
        BY <1>1, <2>2, <3>2
      <4>2. GateFits(z, h, m, ts, n)
        BY <1>1, <4>1 DEF EntersFit
      <4>3. ASSUME NEW q \in m + 1 .. h, Gating(z[q]),
                   \A l \in m + 1 .. q : z[l].do \notin {"body", "enter"}
            PROVE  GateFits(w, g, m, ts, n)
        <5>1. q # h
          BY <1>1, <4>3 DEF Gating, TakesOpener, TakesMiddle
        <5>2. q \in m + 1 .. g /\ \A l \in m + 1 .. q : w[l] = z[l]
          BY <1>1, <4>1, <5>1
        <5>3. w[q] = z[q]
          BY <5>2
        <5> QED
          BY <4>3, <5>2, <5>3 DEF GateFits
      <4>4. ASSUME \A l \in m + 1 .. h : z[l].do \notin {"body", "enter"}, GateAt(ts, n)
            PROVE  GateFits(w, g, m, ts, n)
        <5>1. ~ AsksBranch(z[h])
          BY <1>1, <4>1, <4>4, NothingAsked
        <5>2. \A l \in m + 1 .. g : w[l].do \notin {"body", "enter"}
          <6> TAKE l \in m + 1 .. g
          <6>1. CASE l < h
            <7>1. l \in m + 1 .. h /\ w[l] = z[l]
              BY <1>1, <4>1, <6>1
            <7> QED
              BY <4>4, <7>1
          <6>2. CASE l >= h
            <7>1. l \in h .. g
              BY <1>1, <4>1, <6>2
            <7> QED
              BY <1>2, <5>1, <7>1
          <6> QED
            BY <1>1, <4>1, <6>1, <6>2
        <5> QED
          BY <1>7, <4>4, <5>2 DEF GateFits
      <4> QED
        BY <4>2, <4>3, <4>4 DEF GateFits
    <3> QED
      BY <1>1, <3>1, <3>2
  <2> QED
    BY <2>1, <2>2 DEF EntersFit
<1>11. LastFits(w, g, ts, n)
  <2>1. /\ NeedsInside(z[h]) => n > 0 /\ ts[n].kind \notin Breaks
        /\ NeedsBreak(z[h]) => n = 0 \/ ts[n].kind \in Breaks
        /\ Deep(ts, n + 1) = Height(z, h) - (IF TakesOpener(z[h]) THEN 1 ELSE 0)
    BY <1>1, <1>5 DEF LastFits
  <2>2. ~ TakesOpener(z[h]) /\ ~ TakesEnd(z[h])
    BY <1>1 DEF TakesOpener, TakesEnd
  <2>3. /\ Height(w, g) = Height(z, h - 1) + (IF g >= h /\ TakesEnd(w[h]) THEN 1 ELSE 0)
        /\ Height(z, h) = Height(z, h - 1) + (IF TakesEnd(z[h]) THEN 1 ELSE 0)
        /\ Height(z, h - 1) \in Nat /\ ~ TakesOpener(w[g])
    BY <1>1, HeightSwapped
  <2>4. g >= h => ~ TakesEnd(w[h])
    BY DEF Skipping
  <2>5. Deep(ts, n + 1) = Height(w, g)
    BY <2>1, <2>2, <2>3, <2>4
  <2>6. Height(w, g) \in Nat
    BY <1>1, HeightFact
  <2>7. /\ NeedsInside(w[g]) => NeedsInside(z[h])
        /\ NeedsBreak(w[g]) => NeedsBreak(z[h])
    <3>1. CASE g >= h
      BY <3>1 DEF Skipping
    <3>2. CASE g < h
      <4>1. g = h - 1 /\ w[g] = z[h - 1] /\ h \in 2 .. h
        BY <1>1, <3>2
      <4>2. Adjoins(z[h], z[h - 1])
        BY <1>1, <4>1 DEF StackFits
      <4>3. /\ LeavesInside(z[h]) => NeedsInside(z[h])
            /\ LeavesBreak(z[h]) => NeedsBreak(z[h])
        BY <3>2 DEF Skipping
      <4> QED
        BY <4>1, <4>2, <4>3 DEF Adjoins
    <3> QED
      BY <1>1, <3>1, <3>2
  <2> QED
    BY <2>1, <2>3, <2>5, <2>6, <2>7 DEF LastFits
<1>12. ReportsFit(w, g, ts, n, R)
  <2>1. \A m \in 1 .. h : z[m].do = "after" => m \in 1 .. g /\ w[m] = z[m]
    <3> TAKE m \in 1 .. h
    <3>1. z[m].do = "after" => m # h
      BY <1>1
    <3> QED
      BY <1>1, <3>1
  <2>2. \A i : (\A m \in 1 .. g : w[m].do = "after" => w[m].at # i)
               <=> (\A m \in 1 .. h : z[m].do = "after" => z[m].at # i)
    BY <1>6, <2>1
  <2> QED
    BY <2>2 DEF ReportsFit
<1>13. w[g].do # "body"
  BY <1>1, NoBlockBared
<1> QED
  BY <1>4, <1>8, <1>9, <1>10, <1>11, <1>12, <1>13 DEF InStep

--------------------------------------------------------------------------------
(* Blocks are entered and left, and statements end *)

\* What is said of the open blocks and of the statements begun in them, up to q.
Beneath(w, q, ts, n) ==
    /\ \A m \in 1 .. q :
          w[m].do = "body" =>
             /\ OpenFits(w[m], Height(w, m), ts, n)
             /\ m = 1 => w[m].at = 0
             /\ m > 1 => w[m].at > 0 /\ GateAt(ts, w[m].at)
             /\ \A l \in 1 .. m - 1 : w[l].do = "after" => w[l].at <= w[m].at
    /\ \A m \in 1 .. q :
          w[m].do = "after" =>
             /\ m > 1 /\ w[m].at \in 1 .. n
             /\ \A next : StatementFits(w[m], w[m - 1], Height(w, m - 1), ts, n, next)

\* The lower part of a list is in step as it was, whatever the next token is.
LEMMA LowerFits ==
    ASSUME NEW z, NEW h \in Nat, NEW ts, NEW n \in Nat, NEW peek, InStep(z, h, ts, n, peek),
           ~ Unbegun(z, h, n), NEW w, NEW q \in 0 .. h, \A m \in 1 .. q : w[m] = z[m]
    PROVE  (\A m \in 0 .. q : Height(w, m) = Height(z, m)) /\ Beneath(w, q, ts, n)
<1>1. StackFits(z, h) /\ BlocksFit(z, h, ts, n) /\ StatementsFit(z, h, ts, n, peek)
  BY DEF InStep
<1>2. \A m \in 0 .. q : Height(w, m) = Height(z, m)
  BY HeightSame
<1>3. \A m \in 1 .. q : m \in 1 .. h /\ m \in 0 .. q /\ \A l \in 1 .. m - 1 : l \in 1 .. q
  OBVIOUS
<1>4. ASSUME NEW m \in 1 .. q, w[m].do = "body"
      PROVE  /\ OpenFits(w[m], Height(w, m), ts, n)
             /\ m = 1 => w[m].at = 0
             /\ m > 1 => w[m].at > 0 /\ GateAt(ts, w[m].at)
             /\ \A l \in 1 .. m - 1 : w[l].do = "after" => w[l].at <= w[m].at
  <2>1. w[m] = z[m] /\ Height(w, m) = Height(z, m) /\ \A l \in 1 .. m - 1 : w[l] = z[l]
    BY <1>2, <1>3
  <2> QED
    BY <1>1, <1>3, <1>4, <2>1 DEF BlocksFit
<1>5. ASSUME NEW m \in 1 .. q, w[m].do = "after", NEW next
      PROVE  /\ m > 1 /\ w[m].at \in 1 .. n
             /\ StatementFits(w[m], w[m - 1], Height(w, m - 1), ts, n, next)
  <2>1. m \in 1 .. h /\ w[m] = z[m]
    BY <1>3
  <2>2. m > 1 /\ z[m - 1].do = "body"
    BY <1>1, <1>5, <2>1, ListPlace
  <2>3. m \in 2 .. h /\ m - 1 \in 1 .. h /\ w[m - 1] = z[m - 1] /\ Height(w, m - 1) = Height(z, m - 1)
    <3>1. m \in 2 .. h /\ m - 1 \in 1 .. h /\ m - 1 \in 1 .. q /\ m - 1 \in 0 .. q
      BY <2>2
    <3> QED
      BY <1>2, <3>1
  <2>4. StatementFits(z[m], z[m - 1], Height(z, m - 1), ts, n, peek)
    BY <1>1, <1>5, <2>1, <2>3 DEF StatementsFit
  <2>5. z[m - 1].at \in 0 .. n
    BY <1>1, <2>2, <2>3 DEF BlocksFit, OpenFits
  <2>6. z[m].at # n + 1
    BY <1>5, <2>1 DEF Unbegun
  <2>7. z[m].at \in z[m - 1].at + 1 .. n + 1
    BY <2>4 DEF StatementFits
  <2>8. z[m].at \in 1 .. n /\ z[m].at # n + 1
    BY <2>5, <2>6, <2>7
  <2>9. TokenAt(ts, n, next, z[m].at) = TokenAt(ts, n, peek, z[m].at)
    BY <2>8 DEF TokenAt
  <2>10. StatementFits(z[m], z[m - 1], Height(z, m - 1), ts, n, next)
    BY <2>4, <2>9 DEF StatementFits
  <2> QED
    BY <2>1, <2>2, <2>3, <2>8, <2>10
<1> QED
  BY <1>2, <1>4, <1>5 DEF Beneath

\* The branches to come below a block have what opens them below it, too.
LEMMA EntersBelow ==
    ASSUME NEW z, NEW h \in Nat, NEW ts, NEW n, EntersFit(z, h, ts, n),
           NEW b \in 1 .. h, z[b].do \in {"body", "enter"}, NEW m \in 2 .. b - 1, z[m].do = "enter"
    PROVE  \E q \in m + 1 .. b - 1 : Gating(z[q]) /\ \A l \in m + 1 .. q : z[l].do \notin {"body", "enter"}
<1>1. GateFits(z, h, m, ts, n)
  <2>1. m \in 2 .. h
    OBVIOUS
  <2> QED
    BY <2>1 DEF EntersFit
<1>2. b \in m + 1 .. h
  OBVIOUS
<1>3. ~ \A l \in m + 1 .. h : z[l].do \notin {"body", "enter"}
  BY <1>2
<1>4. PICK q \in m + 1 .. h : Gating(z[q]) /\ \A l \in m + 1 .. q : z[l].do \notin {"body", "enter"}
  BY <1>1, <1>3 DEF GateFits
<1>5. q < b
  <2>1. q >= b => b \in m + 1 .. q
    OBVIOUS
  <2> QED
    BY <1>4, <2>1
<1>6. q \in m + 1 .. b - 1
  BY <1>5
<1> QED
  BY <1>4, <1>6

\* The lower part of a list is one.
LEMMA ListCut ==
    ASSUME NEW z, NEW h \in Nat, StackFits(z, h), NEW w, NEW q \in 1 .. h,
           \A m \in 1 .. q : w[m] = z[m]
    PROVE  StackFits(w, q)
<1>1. /\ z[1].do \in {"enter", "body"} /\ (z[1].do = "enter" => h = 1)
      /\ \A m \in 2 .. h : Usual(z[m]) /\ Adjoins(z[m], z[m - 1])
      /\ \A m \in 1 .. h - 1 : ~ TakesOpener(z[m])
      /\ \A l, m \in 1 .. h : l < m /\ z[l].do = "after" /\ Continuing(z[m]) =>
                                 l + 1 < m /\ TakesEnd(z[l + 1])
  BY DEF StackFits
<1>2. 1 \in 1 .. q /\ w[1] = z[1]
  OBVIOUS
<1>3. ASSUME NEW m \in 2 .. q PROVE Usual(w[m]) /\ Adjoins(w[m], w[m - 1])
  <2>1. m \in 2 .. h /\ m \in 1 .. q /\ m - 1 \in 1 .. q
    OBVIOUS
  <2> QED
    BY <1>1, <2>1
<1>4. ASSUME NEW m \in 1 .. q - 1 PROVE ~ TakesOpener(w[m])
  <2>1. m \in 1 .. h - 1 /\ m \in 1 .. q
    OBVIOUS
  <2> QED
    BY <1>1, <2>1
<1>5. ASSUME NEW l \in 1 .. q, NEW m \in 1 .. q, l < m, w[l].do = "after", Continuing(w[m])
      PROVE  l + 1 < m /\ TakesEnd(w[l + 1])
  <2>1. l \in 1 .. h /\ m \in 1 .. h /\ l + 1 \in 1 .. q /\ w[l + 1] = z[l + 1]
    BY <1>5
  <2> QED
    BY <1>1, <1>5, <2>1
<1>6. w[1].do = "enter" => q = 1
  BY <1>1, <1>2
<1> QED
  BY <1>1, <1>2, <1>3, <1>4, <1>5, <1>6 DEF StackFits

\* body() is entered.
LEMMA EnterKeeps ==
    ASSUME NEW z, NEW h \in Nat \ {0}, NEW ts, NEW n \in Nat, NEW peek, InStep(z, h, ts, n, peek),
           z[h].do = "enter", NEW w, \A m \in 1 .. h - 1 : w[m] = z[m],
           w[h].do = "body", w[h].stop = z[h].stop, w[h].at = n, w[h].terminated = FALSE,
           NEW R, ReportsFit(z, h, ts, n, R)
    PROVE  /\ InStep(w, h, ts, n, peek) /\ ReportsFit(w, h, ts, n, R)
           /\ n = 0 \/ ts[n].kind \in Breaks
<1>1. /\ StackFits(z, h) /\ BlocksFit(z, h, ts, n) /\ StatementsFit(z, h, ts, n, peek)
      /\ EntersFit(z, h, ts, n) /\ LastFits(z, h, ts, n)
  BY DEF InStep
<1>2. h - 1 \in 0 .. h /\ h \in 1 .. h
  OBVIOUS
<1>3. ~ Unbegun(z, h, n)
  BY NoneFresh
<1>4. (\A m \in 0 .. h - 1 : Height(w, m) = Height(z, m)) /\ Beneath(w, h - 1, ts, n)
  BY <1>2, <1>3, LowerFits
<1>5. ~ TakesEnd(z[h]) /\ ~ TakesEnd(w[h]) /\ ~ TakesOpener(z[h]) /\ ~ TakesOpener(w[h])
  BY DEF TakesEnd, TakesOpener
<1>6. Height(w, h) = Height(z, h) /\ Height(z, h) \in Nat
  <2>1. /\ Height(w, h) = Height(w, h - 1) + (IF TakesEnd(w[h]) THEN 1 ELSE 0)
        /\ Height(z, h) = Height(z, h - 1) + (IF TakesEnd(z[h]) THEN 1 ELSE 0)
        /\ Height(z, h) \in Nat
    BY HeightFact
  <2>2. Height(w, h - 1) = Height(z, h - 1)
    BY <1>4
  <2> QED
    BY <1>5, <2>1, <2>2
<1>7. Deep(ts, n + 1) = Height(z, h)
  <2>1. Deep(ts, n + 1) = Height(z, h) - (IF TakesOpener(z[h]) THEN 1 ELSE 0)
    BY <1>1 DEF LastFits
  <2> QED
    BY <1>5, <1>6, <2>1
<1>8. n = 0 \/ ts[n].kind \in Breaks
  BY <1>1 DEF LastFits, NeedsBreak
<1>9. StackFits(w, h)
  <2>1. /\ z[1].do \in {"enter", "body"} /\ (z[1].do = "enter" => h = 1)
        /\ \A m \in 2 .. h : Usual(z[m]) /\ Adjoins(z[m], z[m - 1])
        /\ \A m \in 1 .. h - 1 : ~ TakesOpener(z[m])
        /\ \A l, m \in 1 .. h : l < m /\ z[l].do = "after" /\ Continuing(z[m]) =>
                                   l + 1 < m /\ TakesEnd(z[l + 1])
    BY <1>1 DEF StackFits
  <2>2. w[1].do \in {"enter", "body"} /\ (w[1].do = "enter" => h = 1)
    <3>1. h = 1 \/ w[1] = z[1]
      OBVIOUS
    <3> QED
      BY <2>1, <3>1
  <2>3. ASSUME NEW m \in 2 .. h PROVE Usual(w[m]) /\ Adjoins(w[m], w[m - 1])
    <3>1. Usual(z[m]) /\ Adjoins(z[m], z[m - 1]) /\ w[m - 1] = z[m - 1]
      BY <2>1
    <3>2. CASE m # h
      <4>1. w[m] = z[m]
        BY <3>2
      <4> QED
        BY <3>1, <4>1
    <3>3. CASE m = h
      <4>1. Usual(w[h])
        BY <3>1, <3>3 DEF Usual
      <4>2. ~ NeedsBreak(z[h - 1]) /\ ~ NeedsInside(z[h - 1]) /\ z[h - 1].do # "body"
        BY <3>1, <3>3 DEF Adjoins, LeavesBreak, LeavesInside
      <4>3. ~ Begins(w[h]) /\ ~ AsksBranch(w[h])
        BY DEF Begins, AsksBranch
      <4> QED
        BY <1>5, <3>1, <3>3, <4>1, <4>2, <4>3 DEF Adjoins
    <3> QED
      BY <3>2, <3>3
  <2>4. \A l \in 1 .. h : w[l].do = "after" => l < h /\ w[l] = z[l]
    OBVIOUS
  <2>5. Continuing(z[h])
    BY DEF Continuing
  <2>6. ASSUME NEW l \in 1 .. h, NEW m \in 1 .. h, l < m, w[l].do = "after", Continuing(w[m])
        PROVE  l + 1 < m /\ TakesEnd(w[l + 1])
    <3>1. z[l].do = "after" /\ Continuing(z[m])
      BY <2>4, <2>5, <2>6
    <3>2. l + 1 < m /\ TakesEnd(z[l + 1])
      BY <2>1, <2>6, <3>1
    <3>3. l + 1 \in 1 .. h - 1
      BY <3>2
    <3> QED
      BY <3>2, <3>3
  <2> QED
    BY <2>1, <2>2, <2>3, <2>6 DEF StackFits
<1>10. BlocksFit(w, h, ts, n)
  <2>1. CASE h = 1
    <3>1. n = 0
      BY <1>1, <2>1 DEF EntersFit
    <3>2. OpenFits(w[h], Height(w, h), ts, n)
      BY <1>6, <1>7 DEF OpenFits
    <3>3. ~ JumpOpen(ts, w[h].at, n, Height(w, h))
      BY DEF JumpOpen
    <3>4. \A m \in 1 .. h : m = h
      BY <2>1
    <3> QED
      BY <2>1, <3>1, <3>2, <3>3, <3>4 DEF BlocksFit, TopBlockFits
  <2>2. CASE h # 1
    <3>1. GateAt(ts, n)
      <4>1. h \in 2 .. h /\ ~ \E q \in h + 1 .. h : TRUE
        BY <2>2
      <4> QED
        BY <1>1, <4>1 DEF EntersFit, GateFits
    <3>2. n > 0
      BY <3>1 DEF GateAt
    <3>3. OpenFits(w[h], Height(w, h), ts, n)
      BY <1>6, <1>7 DEF OpenFits
    <3>4. ~ JumpOpen(ts, w[h].at, n, Height(w, h))
      BY DEF JumpOpen
    <3>5. \A l \in 1 .. h - 1 : w[l].do = "after" => w[l].at <= n
      BY <1>4 DEF Beneath
    <3>6. \A m \in 1 .. h : m = h \/ m \in 1 .. h - 1
      OBVIOUS
    <3> QED
      BY <1>4, <2>2, <3>1, <3>2, <3>3, <3>4, <3>5, <3>6 DEF BlocksFit, TopBlockFits, Beneath
  <2> QED
    BY <2>1, <2>2
<1>11. StatementsFit(w, h, ts, n, peek)
  <2>1. ASSUME NEW m \in 2 .. h, w[m].do = "after"
        PROVE  m \in 1 .. h - 1 /\ n + 1 \notin 1 .. n
    BY <2>1
  <2> QED
    BY <1>4, <2>1 DEF StatementsFit, Beneath
<1>12. EntersFit(w, h, ts, n)
  <2>1. w[1].do # "enter"
    <3>1. h = 1 \/ (w[1] = z[1] /\ z[1].do # "enter")
      BY <1>1 DEF StackFits
    <3> QED
      BY <3>1
  <2>2. ASSUME NEW m \in 2 .. h, w[m].do = "enter" PROVE GateFits(w, h, m, ts, n)
    <3>1. m \in 2 .. h - 1 /\ z[m].do = "enter"
      BY <2>2
    <3>2. PICK q \in m + 1 .. h - 1 :
             Gating(z[q]) /\ \A l \in m + 1 .. q : z[l].do \notin {"body", "enter"}
      BY <1>1, <1>2, <3>1, EntersBelow
    <3>3. q \in m + 1 .. h /\ w[q] = z[q] /\ \A l \in m + 1 .. q : w[l] = z[l]
      BY <3>1
    <3> QED
      BY <3>2, <3>3 DEF GateFits
  <2> QED
    BY <2>1, <2>2 DEF EntersFit
<1>13. LastFits(w, h, ts, n)
  BY <1>5, <1>6, <1>7 DEF LastFits, NeedsInside, NeedsBreak
<1>14. ReportsFit(w, h, ts, n, R)
  <2>1. \A m \in 1 .. h : (w[m].do = "after" \/ z[m].do = "after") => w[m] = z[m]
    OBVIOUS
  <2>2. \A i : (\A m \in 1 .. h : w[m].do = "after" => w[m].at # i)
               <=> (\A m \in 1 .. h : z[m].do = "after" => z[m].at # i)
    BY <2>1
  <2> QED
    BY <2>2 DEF ReportsFit
<1> QED
  BY <1>8, <1>9, <1>10, <1>11, <1>12, <1>13, <1>14 DEF InStep

\* body() comes to its end, inside of a statement.
LEMMA LeaveKeeps ==
    ASSUME NEW z, NEW h \in Nat, h > 1, NEW ts, NEW n \in Nat, NEW peek, InStep(z, h, ts, n, peek),
           z[h].do = "body", NEW w, \A m \in 1 .. h - 1 : w[m] = z[m],
           NEW R, ReportsFit(z, h, ts, n, R)
    PROVE  InStep(w, h - 1, ts, n, peek) /\ ReportsFit(w, h - 1, ts, n, R) /\ w[h - 1].do # "body"
<1>1. /\ StackFits(z, h) /\ BlocksFit(z, h, ts, n) /\ StatementsFit(z, h, ts, n, peek)
      /\ EntersFit(z, h, ts, n) /\ LastFits(z, h, ts, n)
  BY DEF InStep
<1> DEFINE g == h - 1
<1>2. /\ g \in 0 .. h /\ g \in 1 .. h /\ h \in 1 .. h /\ h \in 2 .. h /\ h = g + 1
      /\ g \in Nat /\ g \in 0 .. g /\ \A m \in 1 .. g : w[m] = z[m]
  OBVIOUS
<1> HIDE DEF g
<1>3. ~ Unbegun(z, h, n)
  BY <1>1, NoneFresh
<1>4. (\A m \in 0 .. g : Height(w, m) = Height(z, m)) /\ Beneath(w, g, ts, n)
  BY <1>2, <1>3, LowerFits
<1>5. w[g] = z[g] /\ Adjoins(z[h], z[g])
  <2>1. g \in 1 .. g /\ g = h - 1
    BY <1>2
  <2> QED
    BY <1>1, <1>2, <2>1 DEF StackFits
<1>6. /\ ~ NeedsBreak(w[g]) /\ ~ NeedsInside(w[g]) /\ w[g].do # "body"
      /\ ~ TakesOpener(w[g])
  <2>1. ~ LeavesBreak(z[h]) /\ ~ LeavesInside(z[h])
    BY DEF LeavesBreak, LeavesInside
  <2>2. ~ TakesOpener(z[g])
    BY <1>1, <1>2 DEF StackFits
  <2> QED
    BY <1>5, <2>1, <2>2 DEF Adjoins
<1>7. StackFits(w, g)
  BY <1>1, <1>2, ListCut
<1>8. BlocksFit(w, g, ts, n)
  BY <1>2, <1>4, <1>6 DEF BlocksFit, Beneath
<1>9. StatementsFit(w, g, ts, n, peek)
  <2>1. ASSUME NEW m \in 2 .. g, w[m].do = "after"
        PROVE  m \in 1 .. g /\ n + 1 \notin 1 .. n
    BY <1>2, <2>1
  <2> QED
    BY <1>4, <2>1 DEF StatementsFit, Beneath
<1>10. EntersFit(w, g, ts, n)
  <2>1. w[1].do # "enter"
    <3>1. w[1] = z[1] /\ z[1].do # "enter"
      BY <1>1, <1>2 DEF StackFits
    <3> QED
      BY <3>1
  <2>2. ASSUME NEW m \in 2 .. g, w[m].do = "enter" PROVE GateFits(w, g, m, ts, n)
    <3>1. m \in 2 .. h - 1 /\ z[m].do = "enter" /\ m \in Nat
      BY <1>2, <2>2
    <3>2. PICK q \in m + 1 .. h - 1 :
             Gating(z[q]) /\ \A l \in m + 1 .. q : z[l].do \notin {"body", "enter"}
      BY <1>1, <1>2, <3>1, EntersBelow
    <3>3. q \in m + 1 .. g /\ w[q] = z[q] /\ \A l \in m + 1 .. q : w[l] = z[l]
      BY <1>2, <3>1
    <3> QED
      BY <3>2, <3>3 DEF GateFits
  <2> QED
    BY <2>1, <2>2 DEF EntersFit
<1>11. LastFits(w, g, ts, n)
  <2>1. Deep(ts, n + 1) = Height(z, h) - (IF TakesOpener(z[h]) THEN 1 ELSE 0)
    BY <1>1 DEF LastFits
  <2>2. ~ TakesEnd(z[h]) /\ ~ TakesOpener(z[h])
    BY DEF TakesEnd, TakesOpener
  <2>3. Height(z, h) = Height(z, h - 1) + (IF TakesEnd(z[h]) THEN 1 ELSE 0) /\ Height(z, g) \in Nat
    BY <1>2, HeightFact
  <2>4. h - 1 = g /\ Height(w, g) = Height(z, g)
    BY <1>2, <1>4
  <2>5. Deep(ts, n + 1) = Height(w, g)
    BY <2>1, <2>2, <2>3, <2>4
  <2>6. Height(w, g) \in Nat
    BY <2>3, <2>4
  <2> QED
    BY <1>6, <2>5, <2>6 DEF LastFits
<1>12. ReportsFit(w, g, ts, n, R)
  <2>1. /\ \A m \in 1 .. h : z[m].do = "after" => m \in 1 .. g /\ w[m] = z[m]
        /\ \A m \in 1 .. g : m \in 1 .. h /\ w[m] = z[m]
    <3>1. \A m \in 1 .. h : m = h \/ m \in 1 .. g
      BY <1>2
    <3> QED
      BY <1>2, <3>1
  <2>2. \A i : (\A m \in 1 .. g : w[m].do = "after" => w[m].at # i)
               <=> (\A m \in 1 .. h : z[m].do = "after" => z[m].at # i)
    BY <2>1
  <2> QED
    BY <2>2 DEF ReportsFit
<1> QED
  BY <1>6, <1>7, <1>8, <1>9, <1>10, <1>11, <1>12 DEF InStep, g

\* The text us is ts with the token `peek` behind it.
Appended(us, ts, n, peek) == (\A j \in 1 .. n : us[j] = ts[j]) /\ us[n + 1] = peek

\* A semicolon is skipped between two statements of a block.
LEMMA SemicolonKeeps ==
    ASSUME NEW z, NEW h \in Nat \ {0}, NEW ts, NEW us, NEW n \in Nat, NEW peek, NEW next,
           InStep(z, h, ts, n, peek), z[h].do = "body",
           Appended(us, ts, n, peek), peek.kind \in Breaks, peek.kind \in NoStart,
           peek.kind \notin Openers \cup Ends \cup Middles,
           NEW R, ReportsFit(z, h, ts, n, R)
    PROVE  /\ InStep(z, h, us, n + 1, next) /\ ReportsFit(z, h, us, n + 1, R)
           /\ us[n + 1].kind \in Breaks
<1>1. /\ StackFits(z, h) /\ BlocksFit(z, h, ts, n) /\ StatementsFit(z, h, ts, n, peek)
      /\ EntersFit(z, h, ts, n) /\ LastFits(z, h, ts, n)
  BY DEF InStep
<1>2. /\ peek.kind \in Breaks /\ peek.kind \in NoStart
      /\ peek.kind \notin Openers /\ peek.kind \notin Ends /\ peek.kind \notin Middles
  OBVIOUS
<1>3. ~ Unbegun(z, h, n)
  BY NoneFresh
<1>4. Beneath(z, h, ts, n)
  <2>1. /\ h \in Nat /\ h \in 0 .. h /\ h \in 1 .. h
        /\ \A m \in 1 .. h : z[m] = z[m]
    OBVIOUS
  <2> QED
    BY <1>3, <2>1, LowerFits
<1>5. /\ \A i \in 1 .. n + 1 : Deep(us, i) = Deep(ts, i)
      /\ \A i \in 1 .. n : StartsAt(us, i) <=> StartsAt(ts, i)
      /\ \A a \in 0 .. n : GateAt(us, a) <=> GateAt(ts, a)
      /\ \A from \in Nat, to \in 0 .. n : \A level :
            JumpOpen(us, from, to, level) <=> JumpOpen(ts, from, to, level)
      /\ \A i \in 1 .. n : BehindJump(us, i) <=> BehindJump(ts, i)
  BY AgreeFact DEF Appended
<1>6. us[n + 1] = peek /\ ~ StartsAt(us, n + 1)
  BY <1>2 DEF StartsAt, Appended
<1>7. Deep(us, n + 1) = Height(z, h) /\ Height(z, h) \in Nat /\ Deep(us, (n + 1) + 1) = Height(z, h)
  <2>1. Deep(ts, n + 1) = Height(z, h) /\ Height(z, h) \in Nat
    <3>1. Deep(ts, n + 1) = Height(z, h) - (IF TakesOpener(z[h]) THEN 1 ELSE 0)
      BY <1>1 DEF LastFits
    <3>2. ~ TakesOpener(z[h]) /\ Height(z, h) \in Nat
      BY HeightFact DEF TakesOpener
    <3> QED
      BY <3>1, <3>2
  <2>2. n + 1 \in 1 .. n + 1
    OBVIOUS
  <2>3. Deep(us, n + 1) = Height(z, h)
    BY <1>5, <2>1, <2>2
  <2>4. Deep(us, (n + 1) + 1) = Deep(us, n + 1) + (IF us[n + 1].kind \in Openers THEN 1 ELSE 0)
                                                - (IF us[n + 1].kind \in Ends THEN 1 ELSE 0)
    BY DeepFact
  <2> QED
    BY <1>2, <1>6, <2>1, <2>3, <2>4
<1>8. BlocksFit(z, h, us, n + 1)
  <2> SUFFICES ASSUME NEW m \in 1 .. h, z[m].do = "body"
               PROVE  /\ OpenFits(z[m], Height(z, m), us, n + 1)
                      /\ m = 1 => z[m].at = 0
                      /\ m > 1 => z[m].at > 0 /\ GateAt(us, z[m].at)
                      /\ \A l \in 1 .. m - 1 : z[l].do = "after" => z[l].at <= z[m].at
                      /\ m = h => TopBlockFits(z[m], Height(z, m), us, n + 1)
    BY DEF BlocksFit
  <2> DEFINE at == z[m].at
             level == Height(z, m)
  <2>1. /\ OpenFits(z[m], level, ts, n)
        /\ m = 1 => at = 0
        /\ m > 1 => at > 0 /\ GateAt(ts, at)
        /\ \A l \in 1 .. m - 1 : z[l].do = "after" => z[l].at <= at
        /\ m = h => TopBlockFits(z[m], level, ts, n)
    BY <1>1 DEF BlocksFit
  <2>2. /\ at \in 0 .. n /\ Deep(ts, at + 1) = level
        /\ \A k \in at + 1 .. n : Deep(ts, k) >= level /\ (ts[k].kind \in Middles => Deep(ts, k) > level)
    BY <2>1 DEF OpenFits
  <2>3. level <= Height(z, h) /\ level \in Nat
    BY HeightUp, HeightFact
  <2> HIDE DEF at, level
  <2>4. at \in 0 .. n + 1 /\ at \in Nat /\ Deep(us, at + 1) = level
    <3>1. at + 1 \in 1 .. n + 1 /\ at \in 0 .. n + 1 /\ at \in Nat
      BY <2>2
    <3> QED
      BY <1>5, <2>2, <3>1
  <2>5. ASSUME NEW k \in at + 1 .. n + 1
        PROVE  Deep(us, k) >= level /\ (us[k].kind \in Middles => Deep(us, k) > level)
    <3>1. CASE k = n + 1
      BY <1>2, <1>6, <1>7, <2>3, <3>1
    <3>2. CASE k # n + 1
      <4>1. k \in at + 1 .. n /\ k \in 1 .. n /\ k \in 1 .. n + 1
        BY <2>4, <3>2
      <4> QED
        BY <1>5, <2>2, <4>1 DEF Appended
    <3> QED
      BY <3>1, <3>2
  <2>6. OpenFits(z[m], level, us, n + 1)
    BY <2>4, <2>5 DEF OpenFits, at
  <2>7. m > 1 => at > 0 /\ GateAt(us, at)
    BY <1>5, <2>1, <2>2
  <2>8. JumpOpen(us, at, n + 1, level) <=> JumpOpen(ts, at, n, level)
    <3>1. \A k \in n + 1 .. n + 1 : StartsAt(us, k) => Deep(us, k) # level
      <4>1. \A k \in n + 1 .. n + 1 : k = n + 1
        OBVIOUS
      <4> QED
        BY <1>6, <4>1
    <3>2. at <= n /\ n <= n + 1 /\ n + 1 \in Nat
      BY <2>2
    <3>3. JumpOpen(us, at, n + 1, level) <=> JumpOpen(us, at, n, level)
      BY <2>4, <3>1, <3>2, JumpFar
    <3>4. n \in 0 .. n
      OBVIOUS
    <3> QED
      BY <1>5, <2>4, <3>3, <3>4
  <2>9. m = h => TopBlockFits(z[m], level, us, n + 1)
    BY <2>1, <2>8 DEF TopBlockFits, at
  <2> QED
    BY <2>1, <2>6, <2>7, <2>9 DEF at, level
<1>9. StatementsFit(z, h, us, n + 1, next)
  <2> SUFFICES ASSUME NEW m \in 2 .. h, z[m].do = "after"
               PROVE  /\ StatementFits(z[m], z[m - 1], Height(z, m - 1), us, n + 1, next)
                      /\ z[m].at # (n + 1) + 1
    BY DEF StatementsFit
  <2> DEFINE e == z[m]
             d == z[m - 1]
             at == z[m].at
             level == Height(z, m - 1)
  <2>1. m > 1 /\ at \in 1 .. n /\ StatementFits(e, d, level, ts, n, peek)
    <3>1. m \in 1 .. h
      OBVIOUS
    <3> QED
      BY <1>4, <3>1 DEF Beneath
  <2>2. d.at \in Nat
    <3>1. m - 1 \in 1 .. h /\ m \in 1 .. h
      OBVIOUS
    <3>2. d.do = "body"
      BY <1>1, <3>1, ListPlace
    <3>3. OpenFits(d, level, ts, n)
      BY <1>1, <3>1, <3>2 DEF BlocksFit
    <3> QED
      BY <3>3 DEF OpenFits
  <2>3. /\ at \in d.at + 1 .. n + 1 /\ Deep(ts, at) = level
        /\ e.kind = TokenAt(ts, n, peek, at).kind
        /\ e.terminated <=> JumpOpen(ts, d.at, at - 1, level) /\ TokenAt(ts, n, peek, at).after = "no"
        /\ at <= n => StartsAt(ts, at)
        /\ \A k \in at + 1 .. n : StartsAt(ts, k) => Deep(ts, k) > level
    BY <2>1 DEF StatementFits
  <2>4. e.at = at
    OBVIOUS
  <2> HIDE DEF e, d, at, level
  <2>5. TokenAt(us, n + 1, next, at) = TokenAt(ts, n, peek, at)
    BY <2>1 DEF TokenAt, Appended
  <2>6. JumpOpen(us, d.at, at - 1, level) <=> JumpOpen(ts, d.at, at - 1, level)
    <3>1. at - 1 \in 0 .. n
      BY <2>1
    <3> QED
      BY <1>5, <2>2, <3>1
  <2>7. ASSUME NEW k \in at + 1 .. n + 1, StartsAt(us, k) PROVE Deep(us, k) > level
    <3>1. k # n + 1
      BY <1>6, <2>7
    <3>2. k \in at + 1 .. n /\ k \in 1 .. n /\ k \in 1 .. n + 1
      BY <2>1, <3>1
    <3> QED
      BY <1>5, <2>3, <2>7, <3>2
  <2>8. at \in d.at + 1 .. (n + 1) + 1 /\ Deep(us, at) = level /\ StartsAt(us, at)
    <3>1. at \in 1 .. n + 1 /\ at <= n /\ at \in d.at + 1 .. (n + 1) + 1
      BY <2>1, <2>2, <2>3
    <3> QED
      BY <1>5, <2>1, <2>3, <3>1
  <2>9. StatementFits(e, d, level, us, n + 1, next)
    BY <2>3, <2>4, <2>5, <2>6, <2>7, <2>8 DEF StatementFits
  <2>10. at # (n + 1) + 1
    BY <2>1
  <2> QED
    BY <2>9, <2>10 DEF e, d, at, level
<1>10. EntersFit(z, h, us, n + 1)
  <2>1. z[1].do # "enter"
    <3>1. z[1].do = "enter" => h = 1
      BY <1>1 DEF StackFits
    <3> QED
      BY <3>1
  <2>2. ASSUME NEW m \in 2 .. h, z[m].do = "enter" PROVE GateFits(z, h, m, us, n + 1)
    <3>1. m \in 2 .. h - 1 /\ h \in 1 .. h
      BY <2>2
    <3>2. PICK q \in m + 1 .. h - 1 :
             Gating(z[q]) /\ \A l \in m + 1 .. q : z[l].do \notin {"body", "enter"}
      BY <1>1, <2>2, <3>1, EntersBelow
    <3>3. q \in m + 1 .. h
      BY <3>1
    <3> QED
      BY <3>2, <3>3 DEF GateFits
  <2> QED
    BY <2>1, <2>2 DEF EntersFit
<1>11. LastFits(z, h, us, n + 1)
  BY <1>7 DEF LastFits, NeedsInside, NeedsBreak, TakesOpener
<1>12. ReportsFit(z, h, us, n + 1, R)
  <2> SUFFICES ASSUME NEW i \in Nat
               PROVE  <<"UnreachableCode", i>> \in R <=>
                         /\ i \in 1 .. n + 1 /\ BehindJump(us, i)
                         /\ \A m \in 1 .. h : z[m].do = "after" => z[m].at # i
    BY DEF ReportsFit
  <2>1. <<"UnreachableCode", i>> \in R <=>
           /\ i \in 1 .. n /\ BehindJump(ts, i)
           /\ \A m \in 1 .. h : z[m].do = "after" => z[m].at # i
    BY DEF ReportsFit
  <2>2. i \in 1 .. n + 1 /\ BehindJump(us, i) => i \in 1 .. n
    <3>1. BehindJump(us, i) => i # n + 1
      BY <1>6 DEF BehindJump
    <3> QED
      BY <3>1
  <2>3. i \in 1 .. n => i \in 1 .. n + 1
    OBVIOUS
  <2> QED
    BY <1>5, <2>1, <2>2, <2>3
<1> QED
  BY <1>2, <1>6, <1>8, <1>9, <1>10, <1>11, <1>12 DEF InStep

\* The statement on the top block is a report exactly if it is behind a jump, and the
\* block is terminated exactly if a jump is open then.
LEMMA EndFact ==
    ASSUME NEW z, NEW h \in Nat, h > 1, NEW ts, NEW n \in Nat, NEW peek, InStep(z, h, ts, n, peek),
           z[h].do = "after"
    PROVE  /\ z[h].at \in 1 .. n
           /\ \A m \in 1 .. h - 1 : z[m].do = "after" => z[m].at < z[h].at
           /\ BehindJump(ts, z[h].at) <=> z[h].terminated /\ z[h].kind # "~"
           /\ JumpOpen(ts, z[h - 1].at, n, Height(z, h - 1)) <=>
                 z[h].kind # "~" /\ (z[h].terminated \/ z[h].kind \in Jumps)
<1>1. StackFits(z, h) /\ BlocksFit(z, h, ts, n) /\ StatementsFit(z, h, ts, n, peek)
  BY DEF InStep
<1>2. ~ Unbegun(z, h, n)
  BY NoneFresh
<1> DEFINE g == h - 1
           d == z[g]
           e == z[h]
           at == d.at
           a == e.at
           level == Height(z, g)
<1>3. g \in 1 .. h /\ h \in 1 .. h /\ h \in 2 .. h /\ g \in Nat /\ g > 0
  OBVIOUS
<1>4. Beneath(z, h, ts, n)
  <2>1. h \in 0 .. h /\ \A m \in 1 .. h : z[m] = z[m]
    OBVIOUS
  <2> QED
    BY <1>2, <2>1, LowerFits
<1>5. d.do = "body"
  BY <1>1, <1>3, ListPlace
<1>6. /\ OpenFits(d, level, ts, n)
      /\ g = 1 => at = 0
      /\ g > 1 => at > 0 /\ GateAt(ts, at)
      /\ \A l \in 1 .. g - 1 : z[l].do = "after" => z[l].at <= at
  BY <1>3, <1>4, <1>5 DEF Beneath
<1>7. a \in 1 .. n /\ StatementFits(e, d, level, ts, n, peek)
  BY <1>3, <1>4 DEF Beneath
<1>8. level \in Nat
  BY <1>3, HeightFact
<1>9. /\ a \in at + 1 .. n + 1 /\ Deep(ts, a) = level
      /\ e.kind = TokenAt(ts, n, peek, a).kind
      /\ e.terminated <=> JumpOpen(ts, at, a - 1, level) /\ TokenAt(ts, n, peek, a).after = "no"
      /\ a <= n => StartsAt(ts, a)
      /\ \A k \in a + 1 .. n : StartsAt(ts, k) => Deep(ts, k) > level
  BY <1>7 DEF StatementFits
<1>10. /\ at \in 0 .. n /\ Deep(ts, at + 1) = level
       /\ \A k \in at + 1 .. n : Deep(ts, k) >= level /\ (ts[k].kind \in Middles => Deep(ts, k) > level)
  BY <1>6 DEF OpenFits
<1>11. \A m \in 1 .. h - 1 : z[m].do = "after" => z[m].at <= at
  <2> TAKE m \in 1 .. h - 1
  <2>1. m = g \/ m \in 1 .. g - 1
    OBVIOUS
  <2> QED
    BY <1>5, <1>6, <2>1
<1>12. \A m \in 1 .. h - 1 : z[m].do = "after" => z[m].at \in 1 .. n
  BY <1>4 DEF Beneath
<1> HIDE DEF g, d, e, at, a, level
<1>13. TokenAt(ts, n, peek, a) = ts[a] /\ a <= n /\ StartsAt(ts, a)
  <2>1. a <= n /\ a # n + 1
    BY <1>7
  <2> QED
    BY <1>9, <2>1 DEF TokenAt
<1>14. at \in Nat /\ a \in Nat /\ at < a /\ at <= a
  BY <1>7, <1>9, <1>10
<1>15. BehindJump(ts, a) <=> /\ JumpOpen(ts, at, a - 1, level)
                             /\ ts[a].kind # "~" /\ ts[a].after = "no"
  <2>1. at # 0 => GateAt(ts, at)
    BY <1>3, <1>6
  <2>2. \A k \in at + 1 .. a : Deep(ts, k) >= level /\ (ts[k].kind \in Middles => Deep(ts, k) > level)
    <3>1. \A k \in at + 1 .. a : k \in at + 1 .. n
      BY <1>7, <1>14
    <3> QED
      BY <1>10, <3>1
  <2>3. level \in Int /\ StartsAt(ts, a) /\ Deep(ts, a) = level /\ Deep(ts, at + 1) = level
    BY <1>8, <1>9, <1>10, <1>13
  <2> QED
    BY <1>14, <2>1, <2>2, <2>3, BehindFact
<1>16. BehindJump(ts, a) <=> e.terminated /\ e.kind # "~"
  BY <1>9, <1>13, <1>15
<1>17. JumpOpen(ts, at, n, level) <=> JumpOpen(ts, at, a, level)
  <2>1. \A k \in a + 1 .. n : StartsAt(ts, k) => Deep(ts, k) # level
    <3> SUFFICES ASSUME NEW k \in a + 1 .. n, StartsAt(ts, k) PROVE Deep(ts, k) # level
      OBVIOUS
    <3>1. Deep(ts, k) > level
      BY <1>9
    <3> QED
      BY <1>8, <3>1
  <2> QED
    BY <1>13, <1>14, <2>1, JumpFar
<1>18. JumpOpen(ts, at, a, level) <=>
          \/ ts[a].kind \in Jumps
          \/ /\ JumpOpen(ts, at, a - 1, level)
             /\ ts[a].kind # "~" /\ ts[a].after = "no"
  BY <1>9, <1>13, <1>14, JumpNext
<1>19. JumpOpen(ts, at, n, level) <=> e.kind # "~" /\ (e.terminated \/ e.kind \in Jumps)
  BY <1>9, <1>13, <1>17, <1>18, KindsDiffer
<1>20. \A m \in 1 .. h - 1 : z[m].do = "after" => z[m].at < a
  <2> SUFFICES ASSUME NEW m \in 1 .. h - 1, z[m].do = "after" PROVE z[m].at < a
    OBVIOUS
  <2>1. z[m].at <= at /\ z[m].at \in 1 .. n
    BY <1>11, <1>12
  <2> QED
    BY <1>14, <2>1
<1> QED
  BY <1>7, <1>16, <1>19, <1>20 DEF g, d, e, at, a, level

\* A statement is done.
LEMMA EndKeeps ==
    ASSUME NEW z, NEW h \in Nat, h > 1, NEW ts, NEW n \in Nat, NEW peek, NEW next,
           InStep(z, h, ts, n, peek), z[h].do = "after",
           NEW w, \A m \in 1 .. h - 2 : w[m] = z[m],
           w[h - 1].do = "body", w[h - 1].stop = z[h - 1].stop, w[h - 1].at = z[h - 1].at,
           w[h - 1].terminated <=> z[h].kind # "~" /\ (z[h].terminated \/ z[h].kind \in Jumps),
           NEW R, ReportsFit(z, h, ts, n, R), NEW S,
           \A i \in Nat : <<"UnreachableCode", i>> \in S <=>
                             \/ <<"UnreachableCode", i>> \in R
                             \/ i = z[h].at /\ z[h].terminated /\ z[h].kind # "~"
    PROVE  /\ InStep(w, h - 1, ts, n, next) /\ ReportsFit(w, h - 1, ts, n, S)
           /\ NeedsBreak(z[h]) => n = 0 \/ ts[n].kind \in Breaks
<1>1. /\ StackFits(z, h) /\ BlocksFit(z, h, ts, n) /\ StatementsFit(z, h, ts, n, peek)
      /\ EntersFit(z, h, ts, n) /\ LastFits(z, h, ts, n)
  BY DEF InStep
<1>2. ~ Unbegun(z, h, n)
  BY NoneFresh
<1> DEFINE g == h - 1
<1>3. /\ g \in 1 .. h /\ h \in 1 .. h /\ h \in 2 .. h /\ g \in Nat \ {0} /\ h = g + 1
      /\ g - 1 \in 0 .. h /\ g - 1 \in Nat /\ g \in 1 .. g
      /\ \A m \in 1 .. g - 1 : w[m] = z[m]
  OBVIOUS
<1>4. /\ w[g].do = "body" /\ w[g].stop = z[g].stop /\ w[g].at = z[g].at
      /\ w[g].terminated <=> z[h].kind # "~" /\ (z[h].terminated \/ z[h].kind \in Jumps)
  OBVIOUS
<1>5. /\ z[h].at \in 1 .. n
      /\ \A m \in 1 .. g : z[m].do = "after" => z[m].at < z[h].at
      /\ BehindJump(ts, z[h].at) <=> z[h].terminated /\ z[h].kind # "~"
      /\ JumpOpen(ts, z[g].at, n, Height(z, g)) <=>
            z[h].kind # "~" /\ (z[h].terminated \/ z[h].kind \in Jumps)
  BY EndFact
<1> HIDE DEF g
<1>6. z[g].do = "body"
  <2>1. z[h - 1].do = "body" /\ h - 1 = g
    BY <1>1, <1>3, ListPlace
  <2> QED
    BY <2>1
<1>7. (\A m \in 0 .. g - 1 : Height(w, m) = Height(z, m)) /\ Beneath(w, g - 1, ts, n)
  BY <1>2, <1>3, LowerFits
<1>8. Height(w, g) = Height(z, g) /\ Height(z, g) = Height(z, h) /\ Height(z, g) \in Nat
  <2>1. /\ Height(w, g) = Height(w, g - 1) + (IF TakesEnd(w[g]) THEN 1 ELSE 0)
        /\ Height(z, g) = Height(z, g - 1) + (IF TakesEnd(z[g]) THEN 1 ELSE 0)
        /\ Height(z, g) \in Nat
    BY <1>3, HeightFact
  <2>2. Height(z, h) = Height(z, h - 1) + (IF TakesEnd(z[h]) THEN 1 ELSE 0) /\ h - 1 = g
    BY <1>3, HeightFact
  <2>3. ~ TakesEnd(w[g]) /\ ~ TakesEnd(z[g]) /\ ~ TakesEnd(z[h])
    BY <1>4, <1>6 DEF TakesEnd
  <2>4. Height(w, g - 1) = Height(z, g - 1)
    <3>1. g - 1 \in 0 .. g - 1
      BY <1>3
    <3> QED
      BY <1>7, <3>1
  <2> QED
    BY <2>1, <2>2, <2>3, <2>4
<1>9. StackFits(w, g)
  <2>1. /\ z[1].do \in {"enter", "body"} /\ (z[1].do = "enter" => h = 1)
        /\ \A m \in 2 .. h : Usual(z[m]) /\ Adjoins(z[m], z[m - 1])
        /\ \A m \in 1 .. h - 1 : ~ TakesOpener(z[m])
        /\ \A l, m \in 1 .. h : l < m /\ z[l].do = "after" /\ Continuing(z[m]) =>
                                   l + 1 < m /\ TakesEnd(z[l + 1])
    BY <1>1 DEF StackFits
  <2>2. w[1].do = "body"
    <3>1. g = 1 \/ 1 \in 1 .. g - 1
      BY <1>3
    <3>2. z[1].do = "body"
      BY <1>3, <2>1
    <3> QED
      BY <1>3, <1>4, <3>1, <3>2
  <2>3. ASSUME NEW m \in 2 .. g PROVE Usual(w[m]) /\ Adjoins(w[m], w[m - 1])
    <3>1. Usual(z[m]) /\ Adjoins(z[m], z[m - 1]) /\ w[m - 1] = z[m - 1]
      <4>1. m \in 2 .. h /\ m - 1 \in 1 .. g - 1
        BY <1>3, <2>3
      <4> QED
        BY <1>3, <2>1, <4>1
    <3>2. CASE m # g
      <4>1. m \in 1 .. g - 1
        BY <1>3, <2>3, <3>2
      <4> QED
        BY <1>3, <3>1, <4>1
    <3>3. CASE m = g
      <4>1. Usual(w[g])
        BY <1>4, <1>6, <3>1, <3>3 DEF Usual
      <4>2. ~ NeedsBreak(z[g - 1]) /\ ~ NeedsInside(z[g - 1]) /\ z[g - 1].do # "body"
        BY <1>6, <3>1, <3>3 DEF Adjoins, LeavesBreak, LeavesInside
      <4>3. ~ Begins(w[g]) /\ ~ AsksBranch(w[g]) /\ ~ TakesEnd(w[g])
        BY <1>4 DEF Begins, AsksBranch, TakesEnd
      <4> QED
        BY <1>4, <3>1, <3>3, <4>1, <4>2, <4>3 DEF Adjoins
    <3> QED
      BY <3>2, <3>3
  <2>4. ASSUME NEW m \in 1 .. g - 1 PROVE ~ TakesOpener(w[m])
    <3>1. m \in 1 .. h - 1
      BY <1>3, <2>4
    <3> QED
      BY <1>3, <2>1, <2>4, <3>1
  <2>5. ASSUME NEW l \in 1 .. g, NEW m \in 1 .. g, l < m, w[l].do = "after", Continuing(w[m])
        PROVE  l + 1 < m /\ TakesEnd(w[l + 1])
    <3>1. l \in 1 .. h /\ m \in 1 .. h /\ l \in 1 .. g - 1 /\ z[l].do = "after"
      <4>1. l \in 1 .. h /\ m \in 1 .. h /\ l \in 1 .. g - 1
        BY <1>3, <2>5
      <4> QED
        BY <1>3, <2>5, <4>1
    <3>2. Continuing(z[m])
      <4>1. m = g => Continuing(z[m])
        BY <1>6 DEF Continuing
      <4>2. m # g => w[m] = z[m]
        <5>1. m # g => m \in 1 .. g - 1
          BY <1>3
        <5> QED
          BY <1>3, <5>1
      <4> QED
        BY <2>5, <4>1, <4>2
    <3>3. l + 1 < m /\ TakesEnd(z[l + 1])
      BY <2>1, <2>5, <3>1, <3>2
    <3>4. l + 1 \in 1 .. g - 1
      BY <1>3, <3>3
    <3> QED
      BY <1>3, <3>3, <3>4
  <2>6. \A m \in 1 .. g - 1 : ~ TakesOpener(w[m])
    BY <2>4
  <2>7. \A m \in 2 .. g : Usual(w[m]) /\ Adjoins(w[m], w[m - 1])
    BY <2>3
  <2>8. \A l, m \in 1 .. g : l < m /\ w[l].do = "after" /\ Continuing(w[m]) =>
                                l + 1 < m /\ TakesEnd(w[l + 1])
    BY <2>5
  <2> QED
    BY <2>2, <2>6, <2>7, <2>8 DEF StackFits
<1>10. BlocksFit(w, g, ts, n)
  <2>1. /\ OpenFits(z[g], Height(z, g), ts, n)
        /\ g = 1 => z[g].at = 0
        /\ g > 1 => z[g].at > 0 /\ GateAt(ts, z[g].at)
        /\ \A l \in 1 .. g - 1 : z[l].do = "after" => z[l].at <= z[g].at
    BY <1>1, <1>3, <1>6 DEF BlocksFit
  <2>2. OpenFits(w[g], Height(w, g), ts, n)
    BY <1>4, <1>8, <2>1 DEF OpenFits
  <2>3. TopBlockFits(w[g], Height(w, g), ts, n)
    BY <1>4, <1>5, <1>8 DEF TopBlockFits
  <2>4. \A l \in 1 .. g - 1 : w[l].do = "after" => w[l].at <= w[g].at
    BY <1>3, <1>4, <2>1
  <2>5. \A m \in 1 .. g : m = g \/ m \in 1 .. g - 1
    BY <1>3
  <2> QED
    BY <1>4, <1>7, <2>1, <2>2, <2>3, <2>4, <2>5 DEF BlocksFit, Beneath
<1>11. StatementsFit(w, g, ts, n, next)
  <2>1. ASSUME NEW m \in 2 .. g, w[m].do = "after"
        PROVE  m \in 1 .. g - 1 /\ n + 1 \notin 1 .. n
    <3>1. m # g
      BY <1>4, <2>1
    <3> QED
      BY <1>3, <2>1, <3>1
  <2> QED
    BY <1>7, <2>1 DEF StatementsFit, Beneath
<1>12. EntersFit(w, g, ts, n)
  <2>1. w[1].do # "enter"
    <3>1. g = 1 \/ (1 \in 1 .. g - 1 /\ z[1].do # "enter")
      BY <1>1, <1>3 DEF StackFits
    <3> QED
      BY <1>3, <1>4, <3>1
  <2>2. ASSUME NEW m \in 2 .. g, w[m].do = "enter" PROVE GateFits(w, g, m, ts, n)
    <3>1. m \in 2 .. g - 1 /\ z[m].do = "enter" /\ m \in Nat
      <4>1. m # g
        BY <1>4, <2>2
      <4>2. m \in 2 .. g - 1 /\ m \in 1 .. g - 1
        BY <1>3, <2>2, <4>1
      <4> QED
        BY <1>3, <2>2, <4>2
    <3>2. PICK q \in m + 1 .. g - 1 :
             Gating(z[q]) /\ \A l \in m + 1 .. q : z[l].do \notin {"body", "enter"}
      BY <1>1, <1>3, <1>6, <3>1, EntersBelow
    <3>3. q \in m + 1 .. g /\ w[q] = z[q] /\ \A l \in m + 1 .. q : w[l] = z[l]
      BY <1>3, <3>1
    <3> QED
      BY <3>2, <3>3 DEF GateFits
  <2> QED
    BY <2>1, <2>2 DEF EntersFit
<1>13. LastFits(w, g, ts, n)
  <2>1. Deep(ts, n + 1) = Height(z, h) - (IF TakesOpener(z[h]) THEN 1 ELSE 0) /\ ~ TakesOpener(z[h])
    BY <1>1 DEF LastFits, TakesOpener
  <2>2. Deep(ts, n + 1) = Height(w, g)
    BY <1>8, <2>1
  <2> QED
    BY <1>4, <1>8, <2>2 DEF LastFits, NeedsInside, NeedsBreak, TakesOpener
<1>14. ReportsFit(w, g, ts, n, S)
  <2> SUFFICES ASSUME NEW i \in Nat
               PROVE  <<"UnreachableCode", i>> \in S <=>
                         /\ i \in 1 .. n /\ BehindJump(ts, i)
                         /\ \A m \in 1 .. g : w[m].do = "after" => w[m].at # i
    BY DEF ReportsFit
  <2> DEFINE InR == <<"UnreachableCode", i>> \in R
             InS == <<"UnreachableCode", i>> \in S
             Earlier == \A m \in 1 .. h : z[m].do = "after" => z[m].at # i
             Now == \A m \in 1 .. g : w[m].do = "after" => w[m].at # i
  <2>1. InR <=> i \in 1 .. n /\ BehindJump(ts, i) /\ Earlier
    BY DEF ReportsFit
  <2>2. InS <=> InR \/ (i = z[h].at /\ z[h].terminated /\ z[h].kind # "~")
    OBVIOUS
  <2>3. Earlier => Now
    <3>1. \A m \in 1 .. g : w[m].do = "after" => m \in 1 .. h /\ w[m] = z[m]
      <4>1. \A m \in 1 .. g : m = g \/ (m \in 1 .. g - 1 /\ m \in 1 .. h)
        BY <1>3
      <4> QED
        BY <1>3, <1>4, <4>1
    <3> QED
      BY <3>1
  <2>4. Now /\ i # z[h].at => Earlier
    <3>1. \A m \in 1 .. h : z[m].do = "after" => m = h \/ (m \in 1 .. g /\ w[m] = z[m])
      <4>1. \A m \in 1 .. h : m = h \/ m = g \/ (m \in 1 .. g - 1 /\ m \in 1 .. g)
        BY <1>3
      <4> QED
        BY <1>3, <1>6, <4>1
    <3> QED
      BY <3>1
  <2>5. i = z[h].at => Now /\ ~ Earlier /\ i \in 1 .. n
    <3>1. i = z[h].at => ~ Earlier
      BY <1>3
    <3>2. ASSUME NEW m \in 1 .. g, w[m].do = "after" PROVE w[m].at < z[h].at /\ w[m].at \in Nat
      <4>1. m # g
        BY <1>4, <3>2
      <4>2. m \in 1 .. g - 1
        BY <1>3, <4>1
      <4>3. w[m] = z[m] /\ w[m].at \in 1 .. n
        BY <1>3, <1>7, <3>2, <4>2 DEF Beneath
      <4> QED
        BY <1>5, <3>2, <4>3
    <3>3. i = z[h].at => Now
      <4>1. \A m \in 1 .. g : w[m].do = "after" => w[m].at # z[h].at
        <5> SUFFICES ASSUME NEW m \in 1 .. g, w[m].do = "after" PROVE w[m].at # z[h].at
          OBVIOUS
        <5>1. w[m].at < z[h].at /\ w[m].at \in Nat
          BY <3>2
        <5>2. z[h].at \in 1 .. n
          BY <1>5
        <5> QED
          BY <5>1, <5>2
      <4> QED
        BY <4>1
    <3> QED
      BY <1>5, <3>1, <3>3
  <2> HIDE DEF InR, InS, Earlier, Now
  <2>6. i = z[h].at => (BehindJump(ts, i) <=> z[h].terminated /\ z[h].kind # "~")
    BY <1>5
  <2>7. InS <=> i \in 1 .. n /\ BehindJump(ts, i) /\ Now
    BY <2>1, <2>2, <2>3, <2>4, <2>5, <2>6
  <2> QED
    BY <2>7 DEF InS, Now
<1>15. NeedsBreak(z[h]) => n = 0 \/ ts[n].kind \in Breaks
  BY <1>1 DEF LastFits
<1> QED
  BY <1>9, <1>10, <1>11, <1>12, <1>13, <1>14, <1>15 DEF InStep, g

--------------------------------------------------------------------------------
(* A statement begins *)

\* The things p, the first of them on top, are those of a statement that begins, on e.
OpensWith(e, p) ==
    /\ p # <<>> /\ p[1].do \in {"take", "method", "target"} /\ NeedsInside(p[1])
    /\ TakesOpener(p[1]) <=> TakesEnd(p[Len(p)])
    /\ NeedsBreak(e) => LeavesBreak(p[Len(p)])
    /\ ~ AsksBranch(p[Len(p)])
    /\ \A i \in 1 .. Len(p) :
          /\ Usual(p[i]) /\ p[i].do \notin {"body", "after"}
          /\ i > 1 => ~ TakesOpener(p[i])
          /\ i < Len(p) => Adjoins(p[i], p[i + 1])
          /\ Continuing(p[i]) => i < Len(p) /\ TakesEnd(p[Len(p)])
          /\ p[i].do = "enter" => \E j \in 1 .. i - 1 :
                                     Gating(p[j]) /\ \A l \in j .. i - 1 : p[l].do # "enter"

\* The same, said of w: from h to g.
Laid(e, w, h, g) ==
    /\ g >= h /\ w[g].do \in {"take", "method", "target"} /\ NeedsInside(w[g])
    /\ TakesOpener(w[g]) <=> TakesEnd(w[h])
    /\ NeedsBreak(e) => LeavesBreak(w[h])
    /\ ~ AsksBranch(w[h])
    /\ \A m \in h .. g :
          /\ Usual(w[m]) /\ w[m].do \notin {"body", "after"}
          /\ m < g => ~ TakesOpener(w[m])
          /\ m > h => Adjoins(w[m], w[m - 1])
          /\ Continuing(w[m]) => m > h /\ TakesEnd(w[h])
          /\ w[m].do = "enter" => \E q \in m + 1 .. g :
                                     Gating(w[q]) /\ \A l \in m + 1 .. q : w[l].do # "enter"

\* What is said of the list p of a statement holds of the pile.
LEMMA LaidFact ==
    ASSUME NEW z, NEW w, NEW p, NEW h \in Nat, Swapped(z, h, w, p), NEW e, OpensWith(e, p)
    PROVE  Len(p) \in Nat /\ Laid(e, w, h, h - 1 + Len(p))
<1> DEFINE k == Len(p)
           g == h - 1 + k
<1>1. k \in Nat /\ k > 0
  BY LenProperties, EmptySeq DEF Swapped, OpensWith
<1>2. /\ \A i \in 1 .. k : w[h + k - i] = p[i]
      /\ p[1].do \in {"take", "method", "target"} /\ NeedsInside(p[1])
      /\ TakesOpener(p[1]) <=> TakesEnd(p[k])
      /\ NeedsBreak(e) => LeavesBreak(p[k])
      /\ ~ AsksBranch(p[k])
      /\ \A i \in 1 .. k :
            /\ Usual(p[i]) /\ p[i].do \notin {"body", "after"}
            /\ i > 1 => ~ TakesOpener(p[i])
            /\ i < k => Adjoins(p[i], p[i + 1])
            /\ Continuing(p[i]) => i < k /\ TakesEnd(p[k])
            /\ p[i].do = "enter" => \E j \in 1 .. i - 1 :
                                       Gating(p[j]) /\ \A l \in j .. i - 1 : p[l].do # "enter"
  BY DEF Swapped, OpensWith
<1> HIDE DEF k
<1>3. w[h] = p[k] /\ w[g] = p[1] /\ g >= h
  <2>1. k \in 1 .. k /\ h + k - k = h /\ 1 \in 1 .. k /\ h + k - 1 = g /\ g >= h
    BY <1>1
  <2> QED
    BY <1>2, <2>1
<1>4. ASSUME NEW m \in h .. g
      PROVE  /\ Usual(w[m]) /\ w[m].do \notin {"body", "after"}
             /\ m < g => ~ TakesOpener(w[m])
             /\ m > h => Adjoins(w[m], w[m - 1])
             /\ Continuing(w[m]) => m > h /\ TakesEnd(w[h])
             /\ w[m].do = "enter" => \E q \in m + 1 .. g :
                                        Gating(w[q]) /\ \A l \in m + 1 .. q : w[l].do # "enter"
  <2> DEFINE i == h + k - m
  <2>1. /\ i \in 1 .. k /\ k > 0 /\ h + k - i = m /\ (m > h <=> i < k) /\ (m < g <=> i > 1)
        /\ m > h => i + 1 \in 1 .. k /\ h + k - (i + 1) = m - 1
    BY <1>1
  <2>2. /\ \A l \in m + 1 .. g : h + k - l \in 1 .. i - 1 /\ h + k - l \in 1 .. k /\ h + k - (h + k - l) = l
        /\ \A j \in 1 .. i - 1 : h + k - j \in m + 1 .. g /\ j \in 1 .. k
    BY <1>1
  <2>3. \A j \in 1 .. i - 1 : \A l \in m + 1 .. h + k - j : h + k - l \in j .. i - 1 /\ l \in m + 1 .. g
    BY <1>1
  <2>4. \A l \in m + 1 .. g : w[l] = p[h + k - l]
    BY <1>2, <2>2
  <2> HIDE DEF i, g
  <2>5. w[m] = p[i] /\ (m > h => w[m - 1] = p[i + 1])
    BY <1>2, <2>1
  <2>6. ASSUME w[m].do = "enter"
        PROVE  \E q \in m + 1 .. g : Gating(w[q]) /\ \A l \in m + 1 .. q : w[l].do # "enter"
    <3>1. PICK j \in 1 .. i - 1 : Gating(p[j]) /\ \A l \in j .. i - 1 : p[l].do # "enter"
      BY <1>2, <2>1, <2>5, <2>6
    <3> DEFINE q == h + k - j
    <3>2. q \in m + 1 .. g /\ w[q] = p[j]
      BY <1>2, <2>2
    <3>3. ASSUME NEW l \in m + 1 .. q PROVE w[l].do # "enter"
      BY <2>3, <2>4, <3>1
    <3> HIDE DEF q
    <3> QED
      BY <3>1, <3>2, <3>3
  <2>7. Continuing(w[m]) => m > h /\ TakesEnd(w[h])
    BY <1>2, <1>3, <2>1, <2>5
  <2> QED
    BY <1>2, <2>1, <2>5, <2>6, <2>7
<1> QED
  BY <1>1, <1>2, <1>3, <1>4 DEF Laid, k

\* A statement of the top block begins: at h there is the block, at the place above it
\* what is left to do after the statement, and above that the statement.
Beginning(z, h, w, g, ts, n, peek) ==
    /\ InStep(z, h, ts, n, peek) /\ h \in Nat /\ h > 0 /\ n \in Nat /\ g \in Nat /\ z[h].do = "body"
    /\ \A m \in 1 .. h : w[m] = z[m]
    /\ w[h + 1].do = "after" /\ w[h + 1].at = n + 1 /\ w[h + 1].kind = peek.kind
    /\ w[h + 1].terminated <=> z[h].terminated /\ peek.after = "no"
    /\ Laid(w[h + 1], w, h + 2, g)
    /\ n = 0 \/ ts[n].kind \in Breaks

\* The list is one when a statement begins, and goes up by its end.
LEMMA BeginFits ==
    ASSUME NEW z, NEW h, NEW w, NEW g, NEW ts, NEW n, NEW peek,
           Beginning(z, h, w, g, ts, n, peek)
    PROVE  /\ StackFits(w, g)
           /\ \A m \in 0 .. h : Height(w, m) = Height(z, m)
           /\ Height(w, g) = Height(z, h) + (IF TakesOpener(w[g]) THEN 1 ELSE 0)
           /\ Height(z, h) \in Nat
<1>1. /\ StackFits(z, h) /\ h \in Nat /\ h > 0 /\ g \in Nat /\ z[h].do = "body"
      /\ \A m \in 1 .. h : w[m] = z[m]
      /\ w[h + 1].do = "after"
  BY DEF Beginning, InStep
<1>2. /\ g >= h + 2
      /\ TakesOpener(w[g]) <=> TakesEnd(w[h + 2])
      /\ NeedsBreak(w[h + 1]) => LeavesBreak(w[h + 2])
      /\ ~ AsksBranch(w[h + 2])
      /\ \A m \in h + 2 .. g :
            /\ Usual(w[m]) /\ w[m].do \notin {"body", "after"}
            /\ m < g => ~ TakesOpener(w[m])
            /\ m > h + 2 => Adjoins(w[m], w[m - 1])
            /\ Continuing(w[m]) => m > h + 2 /\ TakesEnd(w[h + 2])
  BY DEF Beginning, Laid
<1>3. /\ z[1].do \in {"enter", "body"} /\ (z[1].do = "enter" => h = 1)
      /\ \A m \in 2 .. h : Usual(z[m]) /\ Adjoins(z[m], z[m - 1])
      /\ \A m \in 1 .. h - 1 : ~ TakesOpener(z[m])
      /\ \A l, m \in 1 .. h : l < m /\ z[l].do = "after" /\ Continuing(z[m]) =>
                                 l + 1 < m /\ TakesEnd(z[l + 1])
  BY <1>1 DEF StackFits
<1>4. /\ ~ TakesEnd(w[h + 1]) /\ ~ TakesOpener(w[h + 1]) /\ ~ NeedsInside(w[h + 1])
      /\ ~ Begins(w[h + 1]) /\ ~ AsksBranch(w[h + 1]) /\ ~ Continuing(w[h + 1]) /\ Usual(w[h + 1])
  BY <1>1 DEF TakesEnd, TakesOpener, NeedsInside, Begins, AsksBranch, Continuing, Gating, TakesMiddle, Usual
<1>5. w[h] = z[h] /\ w[1] = z[1] /\ z[1].do = "body"
  <2>1. h \in 1 .. h /\ 1 \in 1 .. h
    BY <1>1
  <2>2. h = 1 => z[1].do = "body"
    BY <1>1
  <2> QED
    BY <1>1, <1>3, <2>1, <2>2
<1>6. Continuing(z[h]) /\ ~ TakesOpener(z[h]) /\ ~ NeedsBreak(z[h]) /\ ~ NeedsInside(z[h])
  BY <1>1 DEF Continuing, TakesOpener, NeedsBreak, NeedsInside
<1>7. ASSUME NEW m \in 2 .. g PROVE Usual(w[m]) /\ Adjoins(w[m], w[m - 1])
  <2>1. CASE m <= h
    <3>1. m \in 2 .. h /\ m \in 1 .. h /\ m - 1 \in 1 .. h
      BY <1>1, <2>1
    <3> QED
      BY <1>1, <1>3, <3>1
  <2>2. CASE m = h + 1
    <3>1. m - 1 = h
      BY <1>1, <2>2
    <3>2. Adjoins(w[h + 1], w[h])
      BY <1>1, <1>4, <1>5, <1>6 DEF Adjoins
    <3> QED
      BY <1>4, <2>2, <3>1, <3>2
  <2>3. CASE m = h + 2
    <3>1. m - 1 = h + 1 /\ m \in h + 2 .. g
      BY <1>1, <2>3
    <3>2. w[h + 2].do # "after" /\ w[h + 1].do # "body"
      BY <1>1, <1>2, <2>3, <3>1
    <3>3. Adjoins(w[h + 2], w[h + 1])
      BY <1>1, <1>2, <1>4, <3>2 DEF Adjoins
    <3> QED
      BY <1>2, <2>3, <3>1, <3>3
  <2>4. CASE m > h + 2
    <3>1. m \in h + 2 .. g
      BY <1>1, <2>4
    <3> QED
      BY <1>2, <2>4, <3>1
  <2> QED
    BY <1>1, <2>1, <2>2, <2>3, <2>4
<1>8. ASSUME NEW m \in 1 .. g - 1 PROVE ~ TakesOpener(w[m])
  <2>1. CASE m < h
    <3>1. m \in 1 .. h - 1 /\ m \in 1 .. h
      BY <1>1, <2>1
    <3> QED
      BY <1>1, <1>3, <3>1
  <2>2. CASE m = h
    BY <1>5, <1>6, <2>2
  <2>3. CASE m = h + 1
    BY <1>4, <2>3
  <2>4. CASE m > h + 1
    <3>1. m \in h + 2 .. g /\ m < g
      BY <1>1, <2>4
    <3> QED
      BY <1>2, <3>1
  <2> QED
    BY <1>1, <2>1, <2>2, <2>3, <2>4
<1>9. ASSUME NEW l \in 1 .. g, NEW m \in 1 .. g, l < m, w[l].do = "after", Continuing(w[m])
      PROVE  l + 1 < m /\ TakesEnd(w[l + 1])
  <2>1. l <= h + 1 /\ l # h
    <3>1. l > h + 1 => l \in h + 2 .. g
      BY <1>1
    <3>2. l <= h + 1
      BY <1>1, <1>2, <1>9, <3>1
    <3> QED
      BY <1>1, <1>5, <1>9, <3>2
  <2>2. CASE l = h + 1
    <3>1. m \in h + 2 .. g
      BY <1>1, <1>9, <2>2
    <3>2. m > h + 2 /\ TakesEnd(w[h + 2])
      BY <1>2, <1>9, <3>1
    <3>3. l + 1 = h + 2
      BY <1>1, <2>2
    <3> QED
      BY <3>2, <3>3
  <2>3. CASE l < h
    <3>1. l \in 1 .. h /\ l + 1 \in 1 .. h /\ h \in 1 .. h
      BY <1>1, <2>3
    <3>2. w[l] = z[l] /\ w[l + 1] = z[l + 1]
      BY <1>1, <3>1
    <3>3. l + 1 < h /\ TakesEnd(z[l + 1])
      BY <1>3, <1>6, <1>9, <2>3, <3>1, <3>2
    <3>4. CASE m >= h
      <4>1. l + 1 < m
        BY <1>1, <3>3, <3>4
      <4> QED
        BY <3>2, <3>3, <4>1
    <3>5. CASE m < h
      <4>1. m \in 1 .. h /\ w[m] = z[m]
        BY <1>1, <3>5
      <4>2. l + 1 < m
        BY <1>3, <1>9, <3>1, <3>2, <4>1
      <4> QED
        BY <3>2, <3>3, <4>2
    <3> QED
      BY <1>1, <3>4, <3>5
  <2> QED
    BY <1>1, <2>1, <2>2, <2>3
<1>10. StackFits(w, g)
  BY <1>5, <1>7, <1>8, <1>9 DEF StackFits
<1>11. \A m \in 0 .. h : Height(w, m) = Height(z, m)
  BY <1>1, HeightSame
<1>12. Height(w, g) = Height(z, h) + (IF TakesOpener(w[g]) THEN 1 ELSE 0)
  <2> DEFINE t == h + 2
  <2>1. t \in Nat /\ t > 0 /\ t - 1 = h + 1 /\ h + 1 \in Nat /\ h + 1 > 0 /\ (h + 1) - 1 = h /\ t <= g
        /\ h \in 0 .. h
    BY <1>1, <1>2
  <2>2. \A m \in t + 1 .. g : ~ TakesEnd(w[m])
    <3> TAKE m \in t + 1 .. g
    <3>1. m \in h + 2 .. g /\ m - 1 \in h + 2 .. g /\ m > h + 2
      BY <1>1
    <3>2. Adjoins(w[m], w[m - 1]) /\ w[m - 1].do # "after"
      BY <1>2, <3>1
    <3> QED
      BY <3>2 DEF Adjoins
  <2>3. t = h + 2
    OBVIOUS
  <2> HIDE DEF t
  <2>4. Height(w, t) = Height(w, g)
    BY <1>1, <2>1, <2>2, HeightUp
  <2>5. Height(w, t) = Height(w, h + 1) + (IF TakesEnd(w[t]) THEN 1 ELSE 0)
    BY <2>1, HeightFact
  <2>6. Height(w, h + 1) = Height(w, h) + (IF TakesEnd(w[h + 1]) THEN 1 ELSE 0)
    BY <2>1, HeightFact
  <2>7. Height(w, h) = Height(z, h) /\ Height(z, h) \in Nat
    BY <1>1, <1>11, <2>1, HeightFact
  <2> QED
    BY <1>2, <1>4, <2>3, <2>4, <2>5, <2>6, <2>7
<1> QED
  BY <1>1, <1>10, <1>11, <1>12, HeightFact

\* A statement begins: the list stays in step, and the reports stay right.
LEMMA StartKeeps ==
    ASSUME NEW z, NEW h, NEW w, NEW g, NEW ts, NEW n, NEW peek,
           Beginning(z, h, w, g, ts, n, peek), NEW R, ReportsFit(z, h, ts, n, R)
    PROVE  InStep(w, g, ts, n, peek) /\ ReportsFit(w, g, ts, n, R) /\ w[g].do # "body"
<1>1. /\ InStep(z, h, ts, n, peek) /\ StackFits(z, h) /\ BlocksFit(z, h, ts, n)
      /\ EntersFit(z, h, ts, n) /\ LastFits(z, h, ts, n)
      /\ h \in Nat /\ h > 0 /\ n \in Nat /\ g \in Nat /\ z[h].do = "body"
      /\ \A m \in 1 .. h : w[m] = z[m]
      /\ n = 0 \/ ts[n].kind \in Breaks
  BY DEF Beginning, InStep
<1> DEFINE e == w[h + 1]
<1>2. /\ e.do = "after" /\ e.at = n + 1 /\ e.kind = peek.kind
      /\ e.terminated <=> z[h].terminated /\ peek.after = "no"
  BY DEF Beginning
<1>3. /\ g >= h + 2 /\ w[g].do \in {"take", "method", "target"} /\ NeedsInside(w[g])
      /\ \A m \in h + 2 .. g :
            /\ w[m].do \notin {"body", "after"}
            /\ w[m].do = "enter" => \E q \in m + 1 .. g :
                                       Gating(w[q]) /\ \A l \in m + 1 .. q : w[l].do # "enter"
  BY DEF Beginning, Laid
<1>4. /\ StackFits(w, g)
      /\ \A m \in 0 .. h : Height(w, m) = Height(z, m)
      /\ Height(w, g) = Height(z, h) + (IF TakesOpener(w[g]) THEN 1 ELSE 0)
      /\ Height(z, h) \in Nat
  BY BeginFits
<1>5. ~ Unbegun(z, h, n)
  BY <1>1, NoneFresh
<1>6. Beneath(w, h, ts, n)
  <2>1. h \in 0 .. h
    BY <1>1
  <2> QED
    BY <1>1, <1>5, <2>1, LowerFits
<1>7. Deep(ts, n + 1) = Height(z, h)
  <2>1. Deep(ts, n + 1) = Height(z, h) - (IF TakesOpener(z[h]) THEN 1 ELSE 0) /\ ~ TakesOpener(z[h])
    BY <1>1 DEF LastFits, TakesOpener
  <2> QED
    BY <1>4, <2>1
<1>8. w[h] = z[h] /\ h + 1 \in 1 .. g /\ h + 1 < g /\ h \in 1 .. h
  <2>1. h + 1 \in 1 .. g /\ h + 1 < g /\ h \in 1 .. h
    BY <1>1, <1>3
  <2> QED
    BY <1>1, <2>1
<1>9. Unbegun(w, g, n)
  BY <1>2, <1>8 DEF Unbegun
<1> HIDE DEF e
<1>10. ASSUME NEW m \in 1 .. g
       PROVE  \/ m \in 1 .. h
              \/ m = h + 1
              \/ m \in h + 2 .. g
  BY <1>1
<1>11. BlocksFit(w, g, ts, n)
  <2> SUFFICES ASSUME NEW m \in 1 .. g, w[m].do = "body"
               PROVE  m \in 1 .. h /\ m # g
    BY <1>6 DEF BlocksFit, Beneath
  <2>1. m # h + 1 /\ m \notin h + 2 .. g
    BY <1>2, <1>3 DEF e
  <2>2. m \in 1 .. h
    BY <1>10, <2>1
  <2> QED
    BY <1>1, <1>3, <2>2
<1>12. StatementFits(e, z[h], Height(z, h), ts, n, peek)
  <2>1. /\ OpenFits(z[h], Height(z, h), ts, n) /\ TopBlockFits(z[h], Height(z, h), ts, n)
    BY <1>1, <1>8 DEF BlocksFit
  <2>2. z[h].at \in 0 .. n
    BY <2>1 DEF OpenFits
  <2>3. e.at \in z[h].at + 1 .. n + 1
    BY <1>1, <1>2, <2>2
  <2>4. TokenAt(ts, n, peek, e.at) = peek
    BY <1>2 DEF TokenAt
  <2>5. e.at - 1 = n /\ ~ (e.at <= n) /\ \A k \in e.at + 1 .. n : FALSE
    BY <1>1, <1>2
  <2>6. z[h].terminated <=> JumpOpen(ts, z[h].at, n, Height(z, h))
    BY <2>1 DEF TopBlockFits
  <2> QED
    BY <1>2, <1>7, <2>3, <2>4, <2>5, <2>6 DEF StatementFits
<1>13. StatementsFit(w, g, ts, n, peek)
  <2> SUFFICES ASSUME NEW m \in 2 .. g, w[m].do = "after"
               PROVE  /\ StatementFits(w[m], w[m - 1], Height(w, m - 1), ts, n, peek)
                      /\ w[m].at = n + 1 => m < g
    BY <1>1, <1>3 DEF StatementsFit, FreshFits
  <2>1. m \in 1 .. g /\ m \notin h + 2 .. g
    BY <1>3
  <2>2. CASE m \in 1 .. h
    <3>1. w[m].at \in 1 .. n /\ StatementFits(w[m], w[m - 1], Height(w, m - 1), ts, n, peek)
      BY <1>6, <2>2 DEF Beneath
    <3>2. w[m].at # n + 1
      BY <1>1, <3>1
    <3> QED
      BY <3>1, <3>2
  <2>3. CASE m = h + 1
    <3>1. m - 1 = h /\ w[m - 1] = z[h] /\ h \in 0 .. h /\ m < g
      BY <1>1, <1>8, <2>3
    <3>2. Height(w, m - 1) = Height(z, h)
      BY <1>4, <3>1
    <3> QED
      BY <1>12, <2>3, <3>1, <3>2 DEF e
  <2> QED
    BY <1>10, <2>1, <2>2, <2>3
<1>14. EntersFit(w, g, ts, n)
  <2>1. w[1].do # "enter"
    <3>1. 1 \in 1 .. h /\ w[1] = z[1] /\ (z[1].do = "enter" => h = 1)
      <4>1. 1 \in 1 .. h
        BY <1>1
      <4> QED
        BY <1>1, <4>1 DEF StackFits
    <3> QED
      BY <1>1, <3>1
  <2>2. ASSUME NEW m \in 2 .. g, w[m].do = "enter" PROVE GateFits(w, g, m, ts, n)
    <3>1. m \in 1 .. g /\ m # h + 1 /\ m # h
      BY <1>1, <1>2, <1>8, <2>2 DEF e
    <3>2. CASE m \in 1 .. h
      <4>1. m \in 2 .. h - 1 /\ z[m].do = "enter" /\ m \in Nat
        BY <1>1, <2>2, <3>1, <3>2
      <4>2. PICK q \in m + 1 .. h - 1 :
               Gating(z[q]) /\ \A l \in m + 1 .. q : z[l].do \notin {"body", "enter"}
        BY <1>1, <1>8, <4>1, EntersBelow
      <4>3. q \in m + 1 .. g /\ w[q] = z[q] /\ \A l \in m + 1 .. q : w[l] = z[l]
        BY <1>1, <1>3, <4>1
      <4> QED
        BY <4>2, <4>3 DEF GateFits
    <3>3. CASE m \in h + 2 .. g
      <4>1. PICK q \in m + 1 .. g : Gating(w[q]) /\ \A l \in m + 1 .. q : w[l].do # "enter"
        BY <1>3, <2>2, <3>3
      <4>2. \A l \in m + 1 .. q : l \in h + 2 .. g
        BY <1>1, <3>3
      <4>3. \A l \in m + 1 .. q : w[l].do \notin {"body", "enter"}
        BY <1>3, <4>1, <4>2
      <4> QED
        BY <4>1, <4>3 DEF GateFits
    <3> QED
      BY <1>10, <3>1, <3>2, <3>3
  <2> QED
    BY <2>1, <2>2 DEF EntersFit
<1>15. LastFits(w, g, ts, n)
  <2>1. Deep(ts, n + 1) = Height(w, g) - (IF TakesOpener(w[g]) THEN 1 ELSE 0)
    BY <1>4, <1>7
  <2>2. ~ NeedsBreak(w[g])
    BY <1>3 DEF NeedsBreak
  <2> QED
    BY <1>9, <2>1, <2>2 DEF LastFits
<1>16. ReportsFit(w, g, ts, n, R)
  <2>1. /\ \A m \in 1 .. h : m \in 1 .. g /\ w[m] = z[m]
        /\ \A m \in 1 .. g : w[m].do = "after" => m = h + 1 \/ (m \in 1 .. h /\ w[m] = z[m])
    <3>1. \A m \in 1 .. h : m \in 1 .. g
      BY <1>1, <1>3
    <3> QED
      BY <1>1, <1>3, <1>10, <3>1
  <2>2. \A i \in 1 .. n : (\A m \in 1 .. g : w[m].do = "after" => w[m].at # i)
                          <=> (\A m \in 1 .. h : z[m].do = "after" => z[m].at # i)
    <3> TAKE i \in 1 .. n
    <3>1. w[h + 1].at # i
      BY <1>1, <1>2 DEF e
    <3> QED
      BY <2>1, <3>1
  <2> QED
    BY <2>2 DEF ReportsFit
<1>17. w[g].do # "body"
  BY <1>3
<1> QED
  BY <1>4, <1>11, <1>13, <1>14, <1>15, <1>16, <1>17 DEF InStep

--------------------------------------------------------------------------------
(* The productions: what statements consist of, and what follows each question *)

\* Tokens that go on with a statement, and those that something may come after.
InnerWords == {"each", "in", "=", "to", ",", "(", "async", "var", "return", "raise", "break",
               "continue", "goto", "~", "execute", "addhandler"}
OuterWords == {":", ")", "then", "do"}

\* What these and the keywords of blocks are, and are not.
LEMMA WordsDiffer ==
    /\ \A k : k \in InnerWords => k \notin Openers \cup Ends \cup Middles \cup NoStart \cup Breaks
    /\ \A k : k \in OuterWords => k \notin Openers \cup Ends \cup Middles \cup NoStart /\ k \in Breaks
    /\ \A k : k \in {"if", "while", "for"} => k \in Openers /\ k \notin Breaks
    /\ "try" \in Openers /\ "try" \in Breaks
    /\ \A k : k \in {"else", "except"} => k \in Middles /\ k \in Breaks
    /\ "elsif" \in Middles /\ "elsif" \notin Breaks
    /\ \A k : k \in {"endif", "enddo", "endtry"} => k \in Ends /\ k \notin Breaks
    /\ \A k : k \in {"endprocedure", "endfunction"} => k \in Ends /\ k \in Breaks
    /\ \A k : k \in MethodKinds => k \in Openers /\ k \notin Breaks
<1>1. \A k : k \in InnerWords => k \notin Openers \cup Ends \cup Middles
  BY DEF InnerWords, Openers, MethodKinds, Ends, Middles
<1>2. \A k : k \in InnerWords => k \notin NoStart
  BY DEF InnerWords, NoStart, Closers, Ends, Middles
<1>3. \A k : k \in InnerWords => k \notin Breaks
  BY DEF InnerWords, Breaks
<1>4. \A k : k \in OuterWords => k \notin Openers \cup Ends \cup Middles
  BY DEF OuterWords, Openers, MethodKinds, Ends, Middles
<1>5. \A k : k \in OuterWords => k \notin NoStart /\ k \in Breaks
  BY DEF OuterWords, NoStart, Closers, Ends, Middles, Breaks
<1>6. /\ \A k : k \in {"if", "while", "for"} => k \in Openers /\ k \notin Breaks
      /\ "try" \in Openers /\ "try" \in Breaks
      /\ \A k : k \in MethodKinds => k \in Openers /\ k \notin Breaks
  BY DEF Openers, MethodKinds, Breaks
<1>7. /\ \A k : k \in {"else", "except"} => k \in Middles /\ k \in Breaks
      /\ "elsif" \in Middles /\ "elsif" \notin Breaks
  BY DEF Middles, Breaks
<1>8. /\ \A k : k \in {"endif", "enddo", "endtry"} => k \in Ends /\ k \notin Breaks
      /\ \A k : k \in {"endprocedure", "endfunction"} => k \in Ends /\ k \in Breaks
  BY DEF Ends, Breaks
<1> QED
  BY <1>1, <1>2, <1>3, <1>4, <1>5, <1>6, <1>7, <1>8

\* A token to take.
LEMMA TakeIs ==
    ASSUME NEW d, d.do = "take"
    PROVE  /\ TakesEnd(d) <=> d.kind \in Ends
           /\ TakesOpener(d) <=> d.kind \in Openers
           /\ TakesMiddle(d) <=> d.kind \in Middles
           /\ NeedsInside(d) <=> d.kind \notin NoStart
           /\ LeavesInside(d) <=> d.kind \notin Breaks
           /\ LeavesBreak(d) <=> d.kind \in Breaks
           /\ Continuing(d) <=> d.kind \in Openers \cup Middles
           /\ ~ AsksBranch(d) /\ ~ Begins(d) /\ ~ NeedsBreak(d) /\ Usual(d)
  BY DEF TakesEnd, TakesOpener, TakesMiddle, NeedsInside, LeavesInside, LeavesBreak, Continuing,
         Gating, AsksBranch, Begins, NeedsBreak, Usual

\* Things without blocks.
Flat(d) ==
    /\ Usual(d) /\ d.do \notin {"body", "after", "enter"} /\ ~ Continuing(d) /\ ~ AsksBranch(d)
    /\ ~ TakesOpener(d) /\ ~ TakesEnd(d) /\ ~ NeedsBreak(d)

\* Such things one after another.
Phrase(p) ==
    \A i \in 1 .. Len(p) :
       /\ Flat(p[i])
       /\ i < Len(p) => ~ Begins(p[i]) /\ (NeedsInside(p[i + 1]) => LeavesInside(p[i]))

\* Things one after another lie on each other as they should.
LEMMA PhraseFact ==
    ASSUME NEW p, Phrase(p), Len(p) \in Nat
    PROVE  \A i \in 1 .. Len(p) :
              /\ Usual(p[i]) /\ p[i].do \notin {"body", "after", "enter"} /\ ~ TakesOpener(p[i])
              /\ i < Len(p) => Adjoins(p[i], p[i + 1])
              /\ ~ Continuing(p[i]) /\ ~ TakesEnd(p[i]) /\ ~ AsksBranch(p[i])
<1> DEFINE k == Len(p)
<1> TAKE i \in 1 .. Len(p)
<1>1. Flat(p[i]) /\ (i < Len(p) => ~ Begins(p[i]) /\ (NeedsInside(p[i + 1]) => LeavesInside(p[i])))
  BY DEF Phrase
<1>2. i < Len(p) => Flat(p[i + 1])
  <2>1. i < Len(p) => i + 1 \in 1 .. Len(p)
    OBVIOUS
  <2> QED
    BY <2>1 DEF Phrase
<1> QED
  BY <1>1, <1>2 DEF Flat, Adjoins

\* Such things may take the place of what leaves the text as they do.
LEMMA PhraseYields ==
    ASSUME NEW d, d.do # "after", NEW p, Phrase(p), Len(p) \in Nat,
           p # <<>> => /\ LeavesBreak(d) => LeavesBreak(p[Len(p)])
                       /\ LeavesInside(d) => LeavesInside(p[Len(p)])
                       /\ Begins(p[Len(p)]) => Begins(d),
           p # <<>> => Len(p) > 0
    PROVE  Yields(d, p)
<1>1. \A i \in 1 .. Len(p) :
         /\ Usual(p[i]) /\ p[i].do \notin {"body", "after", "enter"} /\ ~ TakesOpener(p[i])
         /\ i < Len(p) => Adjoins(p[i], p[i + 1])
         /\ ~ Continuing(p[i]) /\ ~ TakesEnd(p[i]) /\ ~ AsksBranch(p[i])
  BY PhraseFact
<1>2. p # <<>> => Supplants(p[Len(p)], d)
  <2>1. p # <<>> => Len(p) \in 1 .. Len(p)
    OBVIOUS
  <2> QED
    BY <1>1, <2>1 DEF Supplants
<1> QED
  BY <1>1, <1>2 DEF Yields

\* A statement may consist of them.
LEMMA PhraseOpens ==
    ASSUME NEW e, NEW p, Phrase(p), Len(p) \in Nat, p # <<>>, Len(p) > 0,
           p[1].do \in {"take", "method", "target"}, NeedsInside(p[1]),
           NeedsBreak(e) => LeavesBreak(p[Len(p)])
    PROVE  OpensWith(e, p)
<1>1. \A i \in 1 .. Len(p) :
         /\ Usual(p[i]) /\ p[i].do \notin {"body", "after", "enter"} /\ ~ TakesOpener(p[i])
         /\ i < Len(p) => Adjoins(p[i], p[i + 1])
         /\ ~ Continuing(p[i]) /\ ~ TakesEnd(p[i]) /\ ~ AsksBranch(p[i])
  BY PhraseFact
<1>2. 1 \in 1 .. Len(p) /\ Len(p) \in 1 .. Len(p)
  OBVIOUS
<1> QED
  BY <1>1, <1>2 DEF OpensWith

\* b may come behind a in them.
Joined(a, b) == Flat(a) /\ Flat(b) /\ ~ Begins(a) /\ (NeedsInside(b) => LeavesInside(a))

\* Short lists are phrases if their neighbours go together.
LEMMA PhraseTuples ==
    /\ Phrase(<<>>)
    /\ \A a : Flat(a) => Phrase(<<a>>)
    /\ \A a, b : Joined(a, b) => Phrase(<<a, b>>)
    /\ \A a, b, c : Joined(a, b) /\ Joined(b, c) => Phrase(<<a, b, c>>)
    /\ \A a, b, c, d : Joined(a, b) /\ Joined(b, c) /\ Joined(c, d) => Phrase(<<a, b, c, d>>)
    /\ \A a, b, c, d, e : Joined(a, b) /\ Joined(b, c) /\ Joined(c, d) /\ Joined(d, e) =>
                             Phrase(<<a, b, c, d, e>>)
<1>1. Phrase(<<>>)
  BY DEF Phrase
<1>2. ASSUME NEW a, Flat(a) PROVE Phrase(<<a>>)
  <2> DEFINE p == <<a>>
  <2>1. Len(p) = 1 /\ p[1] = a
    OBVIOUS
  <2> HIDE DEF p
  <2>2. Phrase(p)
    BY <1>2, <2>1 DEF Phrase
  <2> QED
    BY <2>2 DEF p
<1>3. ASSUME NEW a, NEW b, Joined(a, b) PROVE Phrase(<<a, b>>)
  <2> DEFINE p == <<a, b>>
  <2>1. Len(p) = 2 /\ p[1] = a /\ p[2] = b
    OBVIOUS
  <2> HIDE DEF p
  <2>2. \A i \in 1 .. 2 : i = 1 \/ i = 2
    OBVIOUS
  <2>3. Phrase(p)
    BY <1>3, <2>1, <2>2 DEF Phrase, Joined
  <2> QED
    BY <2>3 DEF p
<1>4. ASSUME NEW a, NEW b, NEW c, Joined(a, b), Joined(b, c) PROVE Phrase(<<a, b, c>>)
  <2> DEFINE p == <<a, b, c>>
  <2>1. Len(p) = 3 /\ p[1] = a /\ p[2] = b /\ p[3] = c
    OBVIOUS
  <2> HIDE DEF p
  <2>2. \A i \in 1 .. 3 : i = 1 \/ i = 2 \/ i = 3
    OBVIOUS
  <2>3. Phrase(p)
    BY <1>4, <2>1, <2>2 DEF Phrase, Joined
  <2> QED
    BY <2>3 DEF p
<1>5. ASSUME NEW a, NEW b, NEW c, NEW d, Joined(a, b), Joined(b, c), Joined(c, d)
      PROVE  Phrase(<<a, b, c, d>>)
  <2> DEFINE p == <<a, b, c, d>>
  <2>1. Len(p) = 4 /\ p[1] = a /\ p[2] = b /\ p[3] = c /\ p[4] = d
    OBVIOUS
  <2> HIDE DEF p
  <2>2. \A i \in 1 .. 4 : i = 1 \/ i = 2 \/ i = 3 \/ i = 4
    OBVIOUS
  <2>3. Phrase(p)
    BY <1>5, <2>1, <2>2 DEF Phrase, Joined
  <2> QED
    BY <2>3 DEF p
<1>6. ASSUME NEW a, NEW b, NEW c, NEW d, NEW e,
             Joined(a, b), Joined(b, c), Joined(c, d), Joined(d, e)
      PROVE  Phrase(<<a, b, c, d, e>>)
  <2> DEFINE p == <<a, b, c, d, e>>
  <2>1. Len(p) = 5 /\ p[1] = a /\ p[2] = b /\ p[3] = c /\ p[4] = d /\ p[5] = e
    OBVIOUS
  <2> HIDE DEF p
  <2>2. \A i \in 1 .. 5 : i = 1 \/ i = 2 \/ i = 3 \/ i = 4 \/ i = 5
    OBVIOUS
  <2>3. Phrase(p)
    BY <1>6, <2>1, <2>2 DEF Phrase, Joined
  <2> QED
    BY <2>3 DEF p
<1> QED
  BY <1>1, <1>2, <1>3, <1>4, <1>5, <1>6

\* Inside of a statement, before and behind.
Within(d) == Flat(d) /\ NeedsInside(d) /\ LeavesInside(d) /\ ~ LeavesBreak(d) /\ ~ Begins(d)

\* The things that statements consist of.
LEMMA ThingsAre ==
    /\ \A k \in InnerWords : Within(Take(k)) /\ Take(k).do = "take"
    /\ \A k \in OuterWords :
          /\ Flat(Take(k)) /\ NeedsInside(Take(k)) /\ LeavesBreak(Take(k))
          /\ Flat(Opening(k)) /\ NeedsInside(Opening(k)) /\ LeavesBreak(Opening(k))
          /\ ~ Begins(Take(k)) /\ ~ Begins(Opening(k))
    /\ Within(Read) /\ Within(Ignore) /\ Within(Accept("val"))
    /\ \A what : Within(Name(what))
    /\ \A what : what # "branch" => Within(Choose(what))
    /\ Flat(Accept("export")) /\ ~ NeedsInside(Accept("export")) /\ ~ Begins(Accept("export"))
<1>1. ASSUME NEW k \in InnerWords PROVE Within(Take(k)) /\ Take(k).do = "take"
  <2>1. Take(k).do = "take" /\ Take(k).kind = k
    BY DEF Take
  <2> DEFINE t == Take(k)
  <2> HIDE DEF t
  <2>2. t.do = "take" /\ t.kind = k
    BY <2>1 DEF t
  <2>3. k \notin Openers \cup Ends \cup Middles \cup NoStart \cup Breaks
    BY WordsDiffer
  <2>4. Within(t)
    BY <2>2, <2>3, TakeIs DEF Within, Flat
  <2> QED
    BY <2>2, <2>4 DEF t
<1>2. ASSUME NEW k \in OuterWords, NEW t \in {Take(k), Opening(k)}
      PROVE  Flat(t) /\ NeedsInside(t) /\ LeavesBreak(t) /\ ~ Begins(t)
  <2>1. t.do = "take" /\ t.kind = k
    BY DEF Take, Opening
  <2>2. k \notin Openers \cup Ends \cup Middles \cup NoStart /\ k \in Breaks
    BY WordsDiffer
  <2> QED
    BY <2>1, <2>2, TakeIs DEF Flat
<1>3. ASSUME NEW d, d.do \in {"read", "ignore", "name"} PROVE Within(d)
  BY <1>3 DEF Within, Flat, Usual, Continuing, Gating, TakesOpener, TakesMiddle, TakesEnd,
              AsksBranch, NeedsBreak, NeedsInside, LeavesInside, LeavesBreak, Begins
<1>4. ASSUME NEW d, d.do = "choose", d.what # "branch" PROVE Within(d)
  BY <1>4 DEF Within, Flat, Usual, Continuing, Gating, TakesOpener, TakesMiddle, TakesEnd,
              AsksBranch, NeedsBreak, NeedsInside, LeavesInside, LeavesBreak, Begins
<1>5. ASSUME NEW d, d.do = "accept", d.kind = "val" PROVE Within(d)
  BY <1>5 DEF Within, Flat, Usual, Continuing, Gating, TakesOpener, TakesMiddle, TakesEnd,
              AsksBranch, NeedsBreak, NeedsInside, LeavesInside, LeavesBreak, Begins
<1>6. ASSUME NEW d, d.do = "accept", d.kind = "export"
      PROVE  Flat(d) /\ ~ NeedsInside(d) /\ ~ Begins(d)
  BY <1>6 DEF Within, Flat, Usual, Continuing, Gating, TakesOpener, TakesMiddle, TakesEnd,
              AsksBranch, NeedsBreak, NeedsInside, LeavesInside, LeavesBreak, Begins
<1>7. /\ Read.do = "read" /\ Ignore.do = "ignore" /\ \A what : Name(what).do = "name"
      /\ \A what : Choose(what).do = "choose" /\ Choose(what).what = what
      /\ \A k : Accept(k).do = "accept" /\ Accept(k).kind = k
  BY DEF Read, Ignore, Name, Choose, Accept
<1>8. Within(Read) /\ Within(Ignore) /\ \A what : Within(Name(what))
  BY <1>3, <1>7
<1>9. \A what : what # "branch" => Within(Choose(what))
  BY <1>4, <1>7
<1>10. Within(Accept("val")) /\ Flat(Accept("export")) /\ ~ NeedsInside(Accept("export"))
       /\ ~ Begins(Accept("export"))
  BY <1>5, <1>6, <1>7
<1> QED
  BY <1>1, <1>2, <1>8, <1>9, <1>10

\* Nothing but such things.
AllWithin(p) == p \in Seq(ToSet(p)) /\ \A i \in 1 .. Len(p) : Within(p[i])

\* A list of such things is a phrase.
LEMMA AllWithinFact ==
    ASSUME NEW p, AllWithin(p)
    PROVE  /\ Phrase(p) /\ Len(p) \in Nat
           /\ p # <<>> => Len(p) > 0 /\ LeavesInside(p[Len(p)]) /\ ~ Begins(p[Len(p)])
                          /\ ~ LeavesBreak(p[Len(p)])
<1>1. Len(p) \in Nat /\ (p # <<>> => Len(p) > 0)
  BY LenProperties, EmptySeq DEF AllWithin
<1>2. Phrase(p)
  <2> SUFFICES ASSUME NEW i \in 1 .. Len(p)
               PROVE  Flat(p[i]) /\ (i < Len(p) => ~ Begins(p[i]) /\ LeavesInside(p[i]))
    BY DEF Phrase
  <2> QED
    BY DEF AllWithin, Within
<1>3. p # <<>> => Len(p) \in 1 .. Len(p)
  BY <1>1
<1> QED
  BY <1>1, <1>2, <1>3 DEF AllWithin, Within

\* Short lists of such things.
LEMMA WithinTuples ==
    /\ AllWithin(<<>>)
    /\ \A a : Within(a) => AllWithin(<<a>>)
    /\ \A a, b : Within(a) /\ Within(b) => AllWithin(<<a, b>>)
    /\ \A a, b, c : Within(a) /\ Within(b) /\ Within(c) => AllWithin(<<a, b, c>>)
    /\ \A a, b, c, d : Within(a) /\ Within(b) /\ Within(c) /\ Within(d) => AllWithin(<<a, b, c, d>>)
    /\ \A a, b, c, d, e : Within(a) /\ Within(b) /\ Within(c) /\ Within(d) /\ Within(e) =>
                             AllWithin(<<a, b, c, d, e>>)
<1>1. AllWithin(<<>>)
  BY DEF AllWithin, ToSet
<1>2. ASSUME NEW a, Within(a) PROVE AllWithin(<<a>>)
  <2>1. <<a>> \in Seq(ToSet(<<a>>)) /\ Len(<<a>>) = 1 /\ <<a>>[1] = a
    BY DEF ToSet
  <2> QED
    BY <1>2, <2>1 DEF AllWithin
<1>3. ASSUME NEW S, NEW q \in Seq(S), NEW m \in Nat, Len(q) = m, \A i \in 1 .. m : Within(q[i])
      PROVE  AllWithin(q)
  BY <1>3, OwnValues DEF AllWithin
<1>4. ASSUME NEW a, NEW b, Within(a), Within(b) PROVE AllWithin(<<a, b>>)
  <2> DEFINE p == <<a, b>>
  <2>1. p \in Seq({a, b}) /\ Len(p) = 2 /\ p[1] = a /\ p[2] = b
    OBVIOUS
  <2> HIDE DEF p
  <2>2. \A i \in 1 .. 2 : Within(p[i])
    BY <1>4, <2>1
  <2>3. AllWithin(p)
    BY <1>3, <2>1, <2>2
  <2> QED
    BY <2>3 DEF p
<1>5. ASSUME NEW a, NEW b, NEW c, Within(a), Within(b), Within(c) PROVE AllWithin(<<a, b, c>>)
  <2> DEFINE p == <<a, b, c>>
  <2>1. p \in Seq({a, b, c}) /\ Len(p) = 3 /\ p[1] = a /\ p[2] = b /\ p[3] = c
    OBVIOUS
  <2> HIDE DEF p
  <2>2. \A i \in 1 .. 3 : Within(p[i])
    BY <1>5, <2>1
  <2>3. AllWithin(p)
    BY <1>3, <2>1, <2>2
  <2> QED
    BY <2>3 DEF p
<1>6. ASSUME NEW a, NEW b, NEW c, NEW d, Within(a), Within(b), Within(c), Within(d)
      PROVE  AllWithin(<<a, b, c, d>>)
  <2> DEFINE p == <<a, b, c, d>>
  <2>1. p \in Seq({a, b, c, d}) /\ Len(p) = 4 /\ p[1] = a /\ p[2] = b /\ p[3] = c /\ p[4] = d
    OBVIOUS
  <2> HIDE DEF p
  <2>2. \A i \in 1 .. 4 : Within(p[i])
    BY <1>6, <2>1
  <2>3. AllWithin(p)
    BY <1>3, <2>1, <2>2
  <2> QED
    BY <2>3 DEF p
<1>7. ASSUME NEW a, NEW b, NEW c, NEW d, NEW e, Within(a), Within(b), Within(c), Within(d), Within(e)
      PROVE  AllWithin(<<a, b, c, d, e>>)
  <2> DEFINE p == <<a, b, c, d, e>>
  <2>1. p \in Seq({a, b, c, d, e}) /\ Len(p) = 5
        /\ p[1] = a /\ p[2] = b /\ p[3] = c /\ p[4] = d /\ p[5] = e
    OBVIOUS
  <2> HIDE DEF p
  <2>2. \A i \in 1 .. 5 : Within(p[i])
    BY <1>7, <2>1
  <2>3. AllWithin(p)
    BY <1>3, <2>1, <2>2
  <2> QED
    BY <2>3 DEF p
<1> QED
  BY <1>1, <1>2, <1>4, <1>5, <1>6, <1>7

\* What two lists make, one before the other.
LEMMA JoinedUp ==
    ASSUME NEW S, NEW p \in Seq(S), NEW q \in Seq(S), NEW r \in Seq(S), Len(r) = Len(p) + Len(q),
           \A n \in 1 .. Len(p) : r[n] = p[n], \A n \in 1 .. Len(q) : r[Len(p) + n] = q[n]
    PROVE  p \o q = r
<1> DEFINE s == p \o q
<1>1. /\ s \in Seq(S) /\ Len(s) = Len(p) + Len(q)
      /\ \A n \in 1 .. Len(p) + Len(q) : s[n] = IF n <= Len(p) THEN p[n] ELSE q[n - Len(p)]
  BY ConcatProperties
<1> HIDE DEF s
<1>2. Len(p) \in Nat /\ Len(q) \in Nat
  BY LenProperties
<1>3. ASSUME NEW n \in 1 .. Len(s) PROVE s[n] = r[n]
  <2>1. CASE n <= Len(p)
    BY <1>1, <1>2, <2>1
  <2>2. CASE ~ (n <= Len(p))
    <3>1. n - Len(p) \in 1 .. Len(q) /\ Len(p) + (n - Len(p)) = n
      BY <1>1, <1>2, <2>2
    <3>2. r[n] = q[n - Len(p)]
      BY <3>1
    <3> QED
      BY <1>1, <2>2, <3>2
  <2> QED
    BY <2>1, <2>2
<1>4. s = r
  BY <1>1, <1>3, SeqEqual
<1> QED
  BY <1>4 DEF s

\* Lists that are written out, one before the other.
LEMMA WrittenOut ==
    /\ \A a, b, c, d, e : <<a>> \o <<b, c, d, e>> = <<a, b, c, d, e>>
    /\ \A a, b, c, d, e : <<a, b>> \o <<c, d, e>> = <<a, b, c, d, e>>
    /\ \A a, b, c, d, e, f : <<a, b, c, d, e>> \o <<f>> = <<a, b, c, d, e, f>>
<1>1. ASSUME NEW a, NEW b, NEW c, NEW d, NEW e
      PROVE  <<a>> \o <<b, c, d, e>> = <<a, b, c, d, e>>
  <2> DEFINE S == {a, b, c, d, e}
             p == <<a>>
             q == <<b, c, d, e>>
             r == <<a, b, c, d, e>>
  <2>1. p \in Seq(S) /\ Len(p) = 1 /\ p[1] = a
    OBVIOUS
  <2>2. q \in Seq(S) /\ Len(q) = 4 /\ q[1] = b /\ q[2] = c /\ q[3] = d /\ q[4] = e
    OBVIOUS
  <2>3. r \in Seq(S) /\ Len(r) = 5 /\ r[1] = a /\ r[2] = b /\ r[3] = c /\ r[4] = d /\ r[5] = e
    OBVIOUS
  <2> HIDE DEF S, p, q, r
  <2>4. \A n \in 1 .. 1 : n = 1
    OBVIOUS
  <2>5. \A n \in 1 .. 4 : n = 1 \/ n = 2 \/ n = 3 \/ n = 4
    OBVIOUS
  <2>6. \A n \in 1 .. Len(p) : r[n] = p[n]
    BY <2>1, <2>3, <2>4
  <2>7. \A n \in 1 .. Len(q) : r[Len(p) + n] = q[n]
    BY <2>1, <2>2, <2>3, <2>5
  <2>8. Len(r) = Len(p) + Len(q) /\ p \in Seq(S) /\ q \in Seq(S) /\ r \in Seq(S)
    BY <2>1, <2>2, <2>3
  <2>9. p \o q = r
    BY <2>6, <2>7, <2>8, JoinedUp
  <2> QED
    BY <2>9 DEF p, q, r
<1>2. ASSUME NEW a, NEW b, NEW c, NEW d, NEW e
      PROVE  <<a, b>> \o <<c, d, e>> = <<a, b, c, d, e>>
  <2> DEFINE S == {a, b, c, d, e}
             p == <<a, b>>
             q == <<c, d, e>>
             r == <<a, b, c, d, e>>
  <2>1. p \in Seq(S) /\ Len(p) = 2 /\ p[1] = a /\ p[2] = b
    OBVIOUS
  <2>2. q \in Seq(S) /\ Len(q) = 3 /\ q[1] = c /\ q[2] = d /\ q[3] = e
    OBVIOUS
  <2>3. r \in Seq(S) /\ Len(r) = 5 /\ r[1] = a /\ r[2] = b /\ r[3] = c /\ r[4] = d /\ r[5] = e
    OBVIOUS
  <2> HIDE DEF S, p, q, r
  <2>4. \A n \in 1 .. 2 : n = 1 \/ n = 2
    OBVIOUS
  <2>5. \A n \in 1 .. 3 : n = 1 \/ n = 2 \/ n = 3
    OBVIOUS
  <2>6. \A n \in 1 .. Len(p) : r[n] = p[n]
    BY <2>1, <2>3, <2>4
  <2>7. \A n \in 1 .. Len(q) : r[Len(p) + n] = q[n]
    BY <2>1, <2>2, <2>3, <2>5
  <2>8. Len(r) = Len(p) + Len(q) /\ p \in Seq(S) /\ q \in Seq(S) /\ r \in Seq(S)
    BY <2>1, <2>2, <2>3
  <2>9. p \o q = r
    BY <2>6, <2>7, <2>8, JoinedUp
  <2> QED
    BY <2>9 DEF p, q, r
<1>3. ASSUME NEW a, NEW b, NEW c, NEW d, NEW e, NEW f
      PROVE  <<a, b, c, d, e>> \o <<f>> = <<a, b, c, d, e, f>>
  <2> DEFINE S == {a, b, c, d, e, f}
             p == <<a, b, c, d, e>>
             q == <<f>>
             r == <<a, b, c, d, e, f>>
  <2>1. p \in Seq(S) /\ Len(p) = 5 /\ p[1] = a /\ p[2] = b /\ p[3] = c /\ p[4] = d /\ p[5] = e
    OBVIOUS
  <2>2. q \in Seq(S) /\ Len(q) = 1 /\ q[1] = f
    OBVIOUS
  <2>3. r \in Seq(S) /\ Len(r) = 6 /\ r[1] = a /\ r[2] = b /\ r[3] = c /\ r[4] = d /\ r[5] = e /\ r[6] = f
    OBVIOUS
  <2> HIDE DEF S, p, q, r
  <2>4. \A n \in 1 .. 5 : n = 1 \/ n = 2 \/ n = 3 \/ n = 4 \/ n = 5
    OBVIOUS
  <2>5. \A n \in 1 .. 1 : n = 1
    OBVIOUS
  <2>6. \A n \in 1 .. Len(p) : r[n] = p[n]
    BY <2>1, <2>3, <2>4
  <2>7. \A n \in 1 .. Len(q) : r[Len(p) + n] = q[n]
    BY <2>1, <2>2, <2>3, <2>5
  <2>8. Len(r) = Len(p) + Len(q) /\ p \in Seq(S) /\ q \in Seq(S) /\ r \in Seq(S)
    BY <2>1, <2>2, <2>3
  <2>9. p \o q = r
    BY <2>6, <2>7, <2>8, JoinedUp
  <2> QED
    BY <2>9 DEF p, q, r
<1> QED
  BY <1>1, <1>2, <1>3

\* The answers, but for the one about branches, are of this kind.
LEMMA ChosenIsWithin ==
    ASSUME NEW what \in Decisions \ {"branch"}, NEW kind
    PROVE  AllWithin(Chosen(what, kind))
<1> DEFINE first == IF kind = ")" THEN <<>> ELSE Parameter
           next == IF kind = "," THEN <<Take(",")>> \o Parameter ELSE <<>>
           default == IF kind = "=" THEN <<Take("="), Ignore>> ELSE <<>>
           local == IF kind = "," THEN <<Take(","), Name("local"), Choose("local")>> ELSE <<>>
<1>1. /\ Within(Read) /\ Within(Ignore) /\ Within(Accept("val"))
      /\ Within(Name("other")) /\ Within(Name("local")) /\ Within(Name("parameter"))
  BY ThingsAre
<1>2. Within(Choose("default")) /\ Within(Choose("parameter")) /\ Within(Choose("local"))
  BY ThingsAre
<1>3. /\ Within(Take("each")) /\ Within(Take("in")) /\ Within(Take("=")) /\ Within(Take("to"))
      /\ Within(Take(","))
  BY ThingsAre DEF InnerWords
<1>4. AllWithin(ForRange(kind))
  <2>1. AllWithin(<<Take("each"), Name("other"), Take("in"), Read>>)
    BY <1>1, <1>3, WithinTuples
  <2>2. AllWithin(<<Name("other"), Take("="), Read, Take("to"), Read>>)
    BY <1>1, <1>3, WithinTuples
  <2> QED
    BY <2>1, <2>2 DEF ForRange
<1>5. AllWithin(first)
  <2>1. AllWithin(Parameter)
    BY <1>1, <1>2, WithinTuples DEF Parameter
  <2> QED
    BY <2>1, WithinTuples
<1>6. AllWithin(next)
  <2>1. \A a, b, c, d, e : <<a>> \o <<b, c, d, e>> = <<a, b, c, d, e>>
    BY WrittenOut
  <2>2. <<Take(",")>> \o Parameter =
           <<Take(","), Accept("val"), Name("parameter"), Choose("default"), Choose("parameter")>>
    BY <2>1 DEF Parameter
  <2>3. AllWithin(<<Take(","), Accept("val"), Name("parameter"), Choose("default"), Choose("parameter")>>)
    BY <1>1, <1>2, <1>3, WithinTuples
  <2> QED
    BY <2>2, <2>3, WithinTuples
<1>7. AllWithin(default) /\ AllWithin(local) /\ AllWithin(Value(what, kind))
  BY <1>1, <1>2, <1>3, WithinTuples DEF Value
<1>8. /\ what = "range" => Chosen(what, kind) = ForRange(kind)
      /\ what = "first parameter" => Chosen(what, kind) = first
      /\ what = "parameter" => Chosen(what, kind) = next
      /\ what = "default" => Chosen(what, kind) = default
      /\ what = "local" => Chosen(what, kind) = local
      /\ what \in {"return", "raise"} => Chosen(what, kind) = Value(what, kind)
  <2> HIDE DEF first, next, default, local
  <2> QED
    BY DEF Chosen, first, next, default, local
<1> HIDE DEF first, next, default, local
<1> QED
  BY <1>4, <1>5, <1>6, <1>7, <1>8 DEF Decisions

\* A block to come, and the question whether another branch follows.
LEMMA BlocksAre ==
    /\ \A d : d.do = "enter" =>
          /\ NeedsBreak(d) /\ Continuing(d) /\ ~ NeedsInside(d) /\ ~ LeavesBreak(d) /\ ~ LeavesInside(d)
          /\ ~ TakesEnd(d) /\ ~ TakesOpener(d) /\ ~ Begins(d) /\ ~ AsksBranch(d)
          /\ ("eof" \notin d.stop => Usual(d))
    /\ \A d : AsksBranch(d) =>
          /\ Usual(d) /\ Continuing(d) /\ ~ NeedsBreak(d) /\ ~ NeedsInside(d) /\ ~ LeavesBreak(d)
          /\ ~ LeavesInside(d) /\ ~ TakesEnd(d) /\ ~ TakesOpener(d) /\ ~ Begins(d)
          /\ d.do \notin {"body", "after", "enter"}
    /\ \A d : d.do = "header end" =>
          /\ Usual(d) /\ NeedsBreak(d) /\ LeavesBreak(d) /\ ~ NeedsInside(d) /\ ~ LeavesInside(d)
          /\ ~ Continuing(d) /\ ~ TakesEnd(d) /\ ~ TakesOpener(d) /\ ~ Begins(d) /\ ~ AsksBranch(d)
    /\ \A d : d.do = "method" =>
          /\ Flat(d) /\ Begins(d) /\ NeedsInside(d) /\ LeavesBreak(d) /\ ~ LeavesInside(d)
    /\ \A d : d.do = "target" =>
          /\ Flat(d) /\ Begins(d) /\ NeedsInside(d) /\ ~ LeavesBreak(d) /\ ~ LeavesInside(d)
    /\ \A d : d.do = "assign" =>
          /\ Flat(d) /\ Begins(d) /\ NeedsInside(d) /\ ~ LeavesBreak(d) /\ LeavesInside(d)
  BY DEF Flat, Usual, Continuing, Gating, TakesOpener, TakesMiddle, TakesEnd, AsksBranch, NeedsBreak,
         NeedsInside, LeavesInside, LeavesBreak, Begins

\* A block to come, under a name of its own.
LEMMA EntersAre ==
    \A stop : "eof" \notin stop =>
        LET d == Enter(stop)
        IN /\ d.do = "enter" /\ Usual(d) /\ NeedsBreak(d) /\ Continuing(d) /\ ~ NeedsInside(d)
           /\ ~ TakesEnd(d) /\ ~ TakesOpener(d) /\ ~ Begins(d) /\ ~ AsksBranch(d)
<1> SUFFICES ASSUME NEW stop, "eof" \notin stop, NEW d, d = Enter(stop)
             PROVE  /\ d.do = "enter" /\ Usual(d) /\ NeedsBreak(d) /\ Continuing(d) /\ ~ NeedsInside(d)
                    /\ ~ TakesEnd(d) /\ ~ TakesOpener(d) /\ ~ Begins(d) /\ ~ AsksBranch(d)
  OBVIOUS
<1>1. d.do = "enter" /\ d.stop = stop
  BY DEF Enter
<1> QED
  BY <1>1, BlocksAre

\* Another branch, or the last one.
LEMMA BranchYields ==
    ASSUME NEW kind, NEW d, AsksBranch(d)
    PROVE  Yields(d, NextBranch(kind))
<1>1. Yields(d, <<>>)
  BY DEF Yields
<1>2. Yields(d, <<Take("else"), Enter({"endif"})>>)
  <2> DEFINE a == Take("else")
             b == Enter({"endif"})
             p == <<a, b>>
  <2>1. a.do = "take" /\ a.kind = "else" /\ "else" \in Middles /\ "else" \in Breaks
    BY WordsDiffer DEF Take
  <2>2. /\ b.do = "enter" /\ Usual(b) /\ NeedsBreak(b) /\ Continuing(b) /\ ~ NeedsInside(b)
        /\ ~ TakesEnd(b) /\ ~ TakesOpener(b) /\ ~ Begins(b) /\ ~ AsksBranch(b)
    BY EntersAre
  <2>3. Len(p) = 2 /\ p[1] = a /\ p[2] = b
    OBVIOUS
  <2> HIDE DEF a, b, p
  <2>4. /\ Usual(a) /\ TakesMiddle(a) /\ Gating(a) /\ ~ TakesOpener(a) /\ ~ TakesEnd(a) /\ ~ Begins(a)
        /\ ~ AsksBranch(a) /\ LeavesBreak(a)
    BY <2>1, TakeIs, KindsDiffer DEF Gating
  <2>5. Adjoins(a, b)
    BY <2>1, <2>2, <2>4 DEF Adjoins
  <2>6. /\ ~ LeavesBreak(d) /\ ~ LeavesInside(d) /\ Continuing(d)
        /\ d.do # "after"
    BY BlocksAre
  <2>7. Supplants(b, d)
    BY <2>2, <2>6 DEF Supplants
  <2>8. \A i \in 1 .. 2 : i = 1 \/ i = 2
    OBVIOUS
  <2>9. \E j \in 1 .. 2 - 1 : Gating(p[j]) /\ \A l \in j .. 2 - 1 : p[l].do # "enter"
    <3>1. 1 \in 1 .. 2 - 1 /\ \A l \in 1 .. 2 - 1 : l = 1
      OBVIOUS
    <3>2. Gating(p[1]) /\ p[1].do # "enter"
      BY <2>1, <2>3, <2>4
    <3> QED
      BY <3>1, <3>2
  <2>10. Yields(d, p)
    BY <2>1, <2>2, <2>3, <2>4, <2>5, <2>6, <2>7, <2>8, <2>9 DEF Yields
  <2> QED
    BY <2>10 DEF a, b, p
<1>3. Yields(d, <<Closing("elsif"), Read, Opening("then"), Enter({"elsif", "else", "endif"}),
                  Choose("branch")>>)
  <2> DEFINE a == Closing("elsif")
             b == Read
             c == Opening("then")
             e == Enter({"elsif", "else", "endif"})
             f == Choose("branch")
             p == <<a, b, c, e, f>>
  <2>1. a.do = "take" /\ a.kind = "elsif" /\ "elsif" \in Middles /\ "elsif" \notin Breaks
    BY WordsDiffer DEF Closing
  <2>2. Within(b)
    BY ThingsAre
  <2>3. Flat(c) /\ NeedsInside(c) /\ LeavesBreak(c) /\ ~ Begins(c)
    BY ThingsAre DEF OuterWords
  <2>4. /\ e.do = "enter" /\ Usual(e) /\ NeedsBreak(e) /\ Continuing(e) /\ ~ NeedsInside(e)
        /\ ~ TakesEnd(e) /\ ~ TakesOpener(e) /\ ~ Begins(e) /\ ~ AsksBranch(e)
    BY EntersAre
  <2>5. AsksBranch(f)
    BY DEF Choose, AsksBranch
  <2>6. Len(p) = 5 /\ p[1] = a /\ p[2] = b /\ p[3] = c /\ p[4] = e /\ p[5] = f
    OBVIOUS
  <2> HIDE DEF a, b, c, e, f, p
  <2>7. /\ Usual(a) /\ TakesMiddle(a) /\ Gating(a) /\ ~ TakesOpener(a) /\ ~ TakesEnd(a) /\ ~ Begins(a)
        /\ ~ AsksBranch(a) /\ LeavesInside(a)
    BY <2>1, TakeIs, KindsDiffer DEF Gating
  <2>8. /\ \A x \in {d, f} : /\ ~ LeavesBreak(x) /\ ~ LeavesInside(x) /\ Continuing(x)
                             /\ ~ NeedsBreak(x) /\ ~ NeedsInside(x) /\ Usual(x) /\ ~ TakesOpener(x)
                             /\ ~ TakesEnd(x) /\ ~ Begins(x)
                             /\ x.do \notin {"body", "after", "enter"}
    BY <2>5, BlocksAre
  <2>9. Supplants(f, d)
    BY <2>8 DEF Supplants
  <2>10. Adjoins(a, b) /\ Adjoins(b, c)
    BY <2>1, <2>2, <2>3, <2>7 DEF Adjoins, Within, Flat
  <2>11. Adjoins(c, e) /\ Adjoins(e, f)
    BY <2>3, <2>4, <2>8 DEF Adjoins, Flat
  <2>12. \A i \in 1 .. 5 : i = 1 \/ i = 2 \/ i = 3 \/ i = 4 \/ i = 5
    OBVIOUS
  <2>13. \E j \in 1 .. 4 - 1 : Gating(p[j]) /\ \A l \in j .. 4 - 1 : p[l].do # "enter"
    <3>1. 1 \in 1 .. 4 - 1 /\ \A l \in 1 .. 4 - 1 : l = 1 \/ l = 2 \/ l = 3
      OBVIOUS
    <3>2. Gating(p[1]) /\ p[1].do # "enter" /\ p[2].do # "enter" /\ p[3].do # "enter"
      BY <2>1, <2>2, <2>3, <2>6, <2>7 DEF Within, Flat
    <3> QED
      BY <3>1, <3>2
  <2>14. ASSUME NEW x \in {a, b, c, e, f}
         PROVE  Usual(x) /\ x.do \notin {"body", "after"} /\ ~ TakesOpener(x) /\ (x.do = "enter" => x = e)
    BY <2>1, <2>2, <2>3, <2>4, <2>7, <2>8 DEF Within, Flat
  <2>15. ASSUME NEW i \in 1 .. 5
         PROVE  /\ Usual(p[i]) /\ p[i].do \notin {"body", "after"} /\ ~ TakesOpener(p[i])
                /\ i < 5 => Adjoins(p[i], p[i + 1])
                /\ p[i].do = "enter" => i = 4
    <3>1. p[i] \in {a, b, c, e, f}
      BY <2>6, <2>12
    <3>2. i < 5 => Adjoins(p[i], p[i + 1])
      BY <2>6, <2>10, <2>11, <2>12
    <3>3. p[i].do = "enter" => i = 4
      BY <2>1, <2>2, <2>3, <2>6, <2>8, <2>12 DEF Within, Flat
    <3> QED
      BY <2>14, <3>1, <3>2, <3>3
  <2>16. Continuing(d)
    BY BlocksAre
  <2>17. Yields(d, p)
    BY <2>6, <2>9, <2>13, <2>15, <2>16 DEF Yields
  <2> QED
    BY <2>17 DEF a, b, c, e, f, p
<1>4. <<Closing("elsif")>> \o Branch = <<Closing("elsif"), Read, Opening("then"),
                                         Enter({"elsif", "else", "endif"}), Choose("branch")>>
  BY WrittenOut DEF Branch
<1>5. Yields(d, <<Closing("elsif")>> \o Branch)
  BY <1>3, <1>4
<1> DEFINE more == <<Closing("elsif")>> \o Branch
           last == <<Take("else"), Enter({"endif"})>>
<1> HIDE DEF more, last
<1>6. NextBranch(kind) \in {more, last, <<>>}
  BY DEF NextBranch, more, last
<1> QED
  BY <1>1, <1>2, <1>5, <1>6 DEF more, last

\* The rest of a method takes the place of what begins one.
LEMMA MethodYields ==
    ASSUME NEW kind, NEW d, d.do = "method", NEW p, p = MethodRest(kind)
    PROVE  /\ Yields(d, p) /\ p # <<>> /\ p \in Seq(ToSet(p))
           /\ ~ NeedsBreak(p[1]) /\ TakesEnd(p[Len(p)])
<1> DEFINE end == IF kind = "procedure" THEN "endprocedure" ELSE "endfunction"
           a == Name("other")
           b == Take("(")
           c == Choose("first parameter")
           e == Take(")")
           f == [do |-> "header end"]
           k == Enter({end})
           l == Closing(end)
           q == <<a, b, c, e, f, k, l>>
<1>1. p = q
  BY DEF MethodRest
<1>2. end \in {"endprocedure", "endfunction"} /\ "eof" \notin {end}
  OBVIOUS
<1>3. Within(a) /\ Within(b) /\ Within(c)
  <2>1. Within(a) /\ Within(c)
    BY ThingsAre
  <2>2. Within(b)
    BY ThingsAre DEF InnerWords
  <2> QED
    BY <2>1, <2>2
<1>4. Flat(e) /\ NeedsInside(e) /\ LeavesBreak(e) /\ ~ Begins(e)
  BY ThingsAre DEF OuterWords
<1>5. f.do = "header end"
  OBVIOUS
<1>6. /\ k.do = "enter" /\ Usual(k) /\ NeedsBreak(k) /\ Continuing(k) /\ ~ NeedsInside(k)
      /\ ~ TakesEnd(k) /\ ~ TakesOpener(k) /\ ~ Begins(k) /\ ~ AsksBranch(k)
  <2> HIDE DEF end
  <2> QED
    BY <1>2, EntersAre
<1>7. l.do = "take" /\ l.kind = end /\ end \in Ends /\ end \in Breaks
  <2>1. end \in Ends /\ end \in Breaks
    <3> HIDE DEF end
    <3> QED
      BY <1>2, WordsDiffer
  <2>2. l.do = "take" /\ l.kind = end
    BY DEF Closing
  <2> QED
    BY <2>1, <2>2
<1>8. /\ Len(q) = 7 /\ q # <<>> /\ q[1] = a /\ q[2] = b /\ q[3] = c /\ q[4] = e /\ q[5] = f
      /\ q[6] = k /\ q[7] = l
  OBVIOUS
<1>9. q \in Seq({a, b, c, e, f, k, l})
  OBVIOUS
<1> HIDE DEF end, a, b, c, e, f, k, l, q
<1>10. q \in Seq(ToSet(q))
  BY <1>9, OwnValues
<1>11. /\ Usual(f) /\ NeedsBreak(f) /\ LeavesBreak(f) /\ ~ NeedsInside(f) /\ ~ Continuing(f)
       /\ ~ TakesEnd(f) /\ ~ TakesOpener(f) /\ ~ Begins(f) /\ ~ AsksBranch(f)
  BY <1>5, BlocksAre
<1>12. /\ Usual(l) /\ TakesEnd(l) /\ LeavesBreak(l) /\ ~ NeedsInside(l) /\ ~ Continuing(l)
       /\ ~ TakesOpener(l) /\ ~ Begins(l) /\ ~ AsksBranch(l) /\ ~ NeedsBreak(l)
  BY <1>7, TakeIs, KindsDiffer
<1>13. Adjoins(a, b) /\ Adjoins(b, c) /\ Adjoins(c, e)
  BY <1>3, <1>4 DEF Adjoins, Within, Flat
<1>14. Adjoins(e, f) /\ Adjoins(f, k) /\ Adjoins(k, l)
  BY <1>4, <1>5, <1>6, <1>7, <1>11, <1>12 DEF Adjoins, Flat
<1>15. \A i \in 1 .. 7 : i = 1 \/ i = 2 \/ i = 3 \/ i = 4 \/ i = 5 \/ i = 6 \/ i = 7
  OBVIOUS
<1>16. ASSUME NEW i \in 1 .. 7, i < 7 PROVE Adjoins(q[i], q[i + 1])
  BY <1>8, <1>13, <1>14, <1>15, <1>16
<1>17. ASSUME NEW i \in 1 .. 7
       PROVE  /\ Usual(q[i]) /\ q[i].do \notin {"body", "after"} /\ ~ TakesOpener(q[i])
              /\ Continuing(q[i]) => i < 7
              /\ q[i].do = "enter" => i = 6
  <2>1. CASE i \in {1, 2, 3, 4}
    <3>1. Flat(q[i])
      BY <1>3, <1>4, <1>8, <2>1 DEF Within
    <3> QED
      BY <3>1 DEF Flat
  <2>2. CASE i \in {5, 6, 7}
    <3>1. CASE i = 5
      BY <1>5, <1>8, <1>11, <3>1
    <3>2. CASE i = 6
      BY <1>6, <1>8, <3>2
    <3>3. CASE i = 7
      BY <1>7, <1>8, <1>12, <3>3
    <3> QED
      BY <2>2, <3>1, <3>2, <3>3
  <2> QED
    BY <1>15, <2>1, <2>2
<1>18. \A j \in 1 .. 6 - 1 : q[j].do # "enter"
  <2>1. \A j \in 1 .. 6 - 1 : j \in 1 .. 7 /\ j # 6
    OBVIOUS
  <2> QED
    BY <1>17, <2>1
<1>19. Supplants(l, d)
  <2>1. Begins(d) /\ ~ LeavesInside(d)
    BY BlocksAre
  <2> QED
    BY <1>7, <1>12, <2>1 DEF Supplants
<1>20. Yields(d, q)
  BY <1>8, <1>12, <1>16, <1>17, <1>18, <1>19 DEF Yields
<1> QED
  BY <1>1, <1>3, <1>8, <1>10, <1>12, <1>20 DEF Within, Flat

\* What takes the place of an expression at the beginning, and of what is behind it.
LEMMA TargetYields ==
    ASSUME NEW d, NEW e, (d.do = "target" /\ e.do = "assign") \/ (d.do = "assign" /\ e = Read),
           NEW p, p = <<e>>
    PROVE  /\ Yields(d, p) /\ p # <<>> /\ p \in Seq(ToSet(p)) /\ Len(p) = 1 /\ p[1] = e
           /\ Flat(e)
<1>1. Len(p) = 1 /\ p # <<>> /\ p[1] = e /\ p \in Seq({e})
  OBVIOUS
<1>2. p \in Seq(ToSet(p))
  BY <1>1, OwnValues
<1>3. Flat(e)
  BY BlocksAre, ThingsAre DEF Within
<1>4. Phrase(p)
  BY <1>3, PhraseTuples
<1>5. /\ LeavesBreak(d) => LeavesBreak(e)
      /\ LeavesInside(d) => LeavesInside(e)
      /\ Begins(e) => Begins(d)
  BY BlocksAre, ThingsAre DEF Within
<1>6. Yields(d, p)
  BY <1>1, <1>4, <1>5, PhraseYields
<1> QED
  BY <1>1, <1>2, <1>3, <1>6

\* What is next takes the place of the question for it.
LEMMA ChosenYields ==
    ASSUME NEW kind, NEW d, d.do = "choose", d.what \in Decisions,
           NEW p, p = Chosen(d.what, kind)
    PROVE  /\ Yields(d, p)
           /\ p # <<>> => /\ NeedsInside(p[1]) => NeedsInside(d)
                          /\ ~ NeedsBreak(p[1]) /\ ~ TakesEnd(p[Len(p)])
<1>1. CASE d.what # "branch"
  <2>1. AllWithin(p)
    BY <1>1, ChosenIsWithin
  <2>2. NeedsInside(d) /\ ~ LeavesBreak(d)
    BY <1>1 DEF NeedsInside, LeavesBreak
  <2>3. Yields(d, p)
    BY <2>1, <2>2, AllWithinFact, PhraseYields
  <2>4. p # <<>> => Within(p[1]) /\ Within(p[Len(p)])
    <3>1. p # <<>> => 1 \in 1 .. Len(p) /\ Len(p) \in 1 .. Len(p)
      BY <2>1, AllWithinFact
    <3> QED
      BY <2>1, <3>1 DEF AllWithin
  <2> QED
    BY <2>2, <2>3, <2>4 DEF Within, Flat
<1>2. CASE d.what = "branch"
  <2>1. p = NextBranch(kind)
    BY <1>2 DEF Chosen
  <2>2. Yields(d, p)
    BY <1>2, <2>1, BranchYields DEF AsksBranch
  <2>3. p # <<>> => /\ p[1].do = "take" /\ p[1].kind \in {"elsif", "else"}
                    /\ p[Len(p)].do \in {"choose", "enter"}
    <3>1. <<Closing("elsif")>> \o Branch = <<Closing("elsif"), Read, Opening("then"),
                                         Enter({"elsif", "else", "endif"}), Choose("branch")>>
      BY WrittenOut DEF Branch
    <3> DEFINE more == <<Closing("elsif"), Read, Opening("then"),
                         Enter({"elsif", "else", "endif"}), Choose("branch")>>
               last == <<Take("else"), Enter({"endif"})>>
    <3>2. p \in {more, last, <<>>}
      <4> HIDE DEF more, last
      <4>1. <<Closing("elsif")>> \o Branch = more
        BY <3>1 DEF more
      <4> QED
        BY <2>1, <4>1 DEF NextBranch, last
    <3>3. more[1] = Closing("elsif") /\ Len(more) = 5 /\ more[5] = Choose("branch")
      OBVIOUS
    <3>4. last[1] = Take("else") /\ Len(last) = 2 /\ last[2] = Enter({"endif"})
      OBVIOUS
    <3> HIDE DEF more, last
    <3>5. Closing("elsif").do = "take" /\ Closing("elsif").kind = "elsif" /\ Choose("branch").do = "choose"
      BY DEF Closing, Choose
    <3>6. Take("else").do = "take" /\ Take("else").kind = "else" /\ Enter({"endif"}).do = "enter"
      BY DEF Take, Enter
    <3>7. CASE p = more
      BY <3>3, <3>5, <3>7
    <3>8. CASE p = last
      BY <3>4, <3>6, <3>8
    <3> QED
      BY <3>2, <3>7, <3>8
  <2>4. "elsif" \in NoStart /\ "else" \in NoStart
    BY WordsDiffer, KindsDiffer
  <2>5. p # <<>> => ~ NeedsInside(p[1]) /\ ~ NeedsBreak(p[1])
    BY <2>3, <2>4, TakeIs
  <2>6. p # <<>> => ~ TakesEnd(p[Len(p)])
    BY <2>3 DEF TakesEnd
  <2> QED
    BY <2>2, <2>5, <2>6
<1> QED
  BY <1>1, <1>2

\* What is known of the first token of a statement with blocks, of one that a block
\* comes after, and of the last one.
LEMMA WordsAre ==
    /\ \A a : a.do = "take" /\ a.kind \in Openers =>
          /\ Usual(a) /\ NeedsInside(a) /\ TakesOpener(a) /\ Gating(a) /\ Continuing(a) /\ ~ TakesEnd(a)
          /\ ~ Begins(a) /\ ~ AsksBranch(a) /\ ~ NeedsBreak(a)
          /\ (a.kind \notin Breaks => LeavesInside(a)) /\ (a.kind \in Breaks => LeavesBreak(a))
    /\ \A a : a.do = "take" /\ a.kind \in Middles =>
          /\ Usual(a) /\ ~ NeedsInside(a) /\ ~ TakesOpener(a) /\ Gating(a) /\ Continuing(a)
          /\ ~ TakesEnd(a) /\ ~ Begins(a) /\ ~ AsksBranch(a) /\ ~ NeedsBreak(a)
          /\ (a.kind \in Breaks => LeavesBreak(a))
    /\ \A a : a.do = "take" /\ a.kind \in Ends =>
          /\ Usual(a) /\ ~ NeedsInside(a) /\ ~ TakesOpener(a) /\ ~ Continuing(a)
          /\ TakesEnd(a) /\ ~ Begins(a) /\ ~ AsksBranch(a) /\ ~ NeedsBreak(a)
<1>1. ASSUME NEW a, a.do = "take", a.kind \in Openers
      PROVE  /\ Usual(a) /\ NeedsInside(a) /\ TakesOpener(a) /\ Gating(a) /\ Continuing(a) /\ ~ TakesEnd(a)
             /\ ~ Begins(a) /\ ~ AsksBranch(a) /\ ~ NeedsBreak(a)
             /\ (a.kind \notin Breaks => LeavesInside(a)) /\ (a.kind \in Breaks => LeavesBreak(a))
  BY <1>1, TakeIs, KindsDiffer DEF Gating
<1>2. ASSUME NEW a, a.do = "take", a.kind \in Middles
      PROVE  /\ Usual(a) /\ ~ NeedsInside(a) /\ ~ TakesOpener(a) /\ Gating(a) /\ Continuing(a)
             /\ ~ TakesEnd(a) /\ ~ Begins(a) /\ ~ AsksBranch(a) /\ ~ NeedsBreak(a)
             /\ (a.kind \in Breaks => LeavesBreak(a))
  BY <1>2, TakeIs, KindsDiffer DEF Gating
<1>3. ASSUME NEW a, a.do = "take", a.kind \in Ends
      PROVE  /\ Usual(a) /\ ~ NeedsInside(a) /\ ~ TakesOpener(a) /\ ~ Continuing(a)
             /\ TakesEnd(a) /\ ~ Begins(a) /\ ~ AsksBranch(a) /\ ~ NeedsBreak(a)
  BY <1>3, TakeIs, KindsDiffer
<1> QED
  BY <1>1, <1>2, <1>3

\* A loop is a statement.
LEMMA LoopOpens ==
    ASSUME NEW x, ~ NeedsBreak(x), NEW a, NEW b, NEW c, NEW e, NEW f,
           a.do = "take", a.kind \in Openers, a.kind \notin Breaks, Within(b),
           Flat(c), NeedsInside(c), LeavesBreak(c), ~ Begins(c),
           e.do = "enter", Usual(e), f.do = "take", f.kind \in Ends
    PROVE  OpensWith(x, <<a, b, c, e, f>>) /\ <<a, b, c, e, f>> \in Seq(ToSet(<<a, b, c, e, f>>))
<1> DEFINE p == <<a, b, c, e, f>>
<1>1. /\ Len(p) = 5 /\ p # <<>> /\ p[1] = a /\ p[2] = b /\ p[3] = c /\ p[4] = e /\ p[5] = f
      /\ p \in Seq({a, b, c, e, f})
  OBVIOUS
<1> HIDE DEF p
<1>2. p \in Seq(ToSet(p))
  BY <1>1, OwnValues
<1>3. /\ Usual(a) /\ NeedsInside(a) /\ TakesOpener(a) /\ Gating(a) /\ ~ TakesEnd(a)
      /\ ~ Begins(a) /\ ~ AsksBranch(a) /\ LeavesInside(a)
  BY WordsAre
<1>4. /\ Usual(f) /\ ~ NeedsInside(f) /\ ~ TakesOpener(f) /\ ~ Continuing(f)
      /\ TakesEnd(f) /\ ~ AsksBranch(f) /\ ~ NeedsBreak(f)
  BY WordsAre
<1>5. ~ TakesEnd(e) /\ ~ TakesOpener(e) /\ ~ Begins(e) /\ ~ AsksBranch(e) /\ ~ NeedsInside(e)
  BY BlocksAre
<1>6. Adjoins(a, b) /\ Adjoins(b, c)
  BY <1>3 DEF Adjoins, Within, Flat
<1>7. Adjoins(c, e) /\ Adjoins(e, f)
  BY <1>4, <1>5 DEF Adjoins, Flat
<1>8. \A i \in 1 .. 5 : i = 1 \/ i = 2 \/ i = 3 \/ i = 4 \/ i = 5
  OBVIOUS
<1>9. ASSUME NEW i \in 1 .. 5, i < 5 PROVE Adjoins(p[i], p[i + 1])
  BY <1>1, <1>6, <1>7, <1>8, <1>9
<1>10. Flat(b) /\ Flat(c)
  BY DEF Within
<1>11. /\ Usual(b) /\ b.do \notin {"body", "after", "enter"} /\ ~ TakesOpener(b)
       /\ Usual(c) /\ c.do \notin {"body", "after", "enter"} /\ ~ TakesOpener(c)
  BY <1>10 DEF Flat
<1>12. ASSUME NEW i \in 1 .. 5
       PROVE  /\ Usual(p[i]) /\ p[i].do \notin {"body", "after"}
              /\ i > 1 => ~ TakesOpener(p[i])
              /\ Continuing(p[i]) => i < 5
              /\ p[i].do = "enter" => i = 4
  <2>1. CASE i = 1
    BY <1>1, <1>3, <2>1
  <2>2. CASE i \in {2, 3}
    BY <1>1, <1>11, <2>2
  <2>3. CASE i = 4
    BY <1>1, <1>5, <2>3
  <2>4. CASE i = 5
    BY <1>1, <1>4, <2>4
  <2> QED
    BY <1>8, <2>1, <2>2, <2>3, <2>4
<1>13. \E j \in 1 .. 4 - 1 : Gating(p[j]) /\ \A l \in j .. 4 - 1 : p[l].do # "enter"
  <2>1. 1 \in 1 .. 4 - 1 /\ \A l \in 1 .. 4 - 1 : l \in 1 .. 5 /\ l # 4
    OBVIOUS
  <2> QED
    BY <1>1, <1>3, <1>12, <2>1
<1>14. OpensWith(x, p)
  BY <1>1, <1>3, <1>4, <1>9, <1>12, <1>13 DEF OpensWith
<1> QED
  BY <1>2, <1>14 DEF p

\* A condition is a statement.
LEMMA ConditionOpens ==
    ASSUME NEW x, ~ NeedsBreak(x), NEW a, NEW b, NEW c, NEW e, NEW q, NEW f,
           a.do = "take", a.kind \in Openers, a.kind \notin Breaks, Within(b),
           Flat(c), NeedsInside(c), LeavesBreak(c), ~ Begins(c),
           e.do = "enter", Usual(e), AsksBranch(q), f.do = "take", f.kind \in Ends
    PROVE  OpensWith(x, <<a, b, c, e, q, f>>) /\ <<a, b, c, e, q, f>> \in Seq(ToSet(<<a, b, c, e, q, f>>))
<1> DEFINE p == <<a, b, c, e, q, f>>
<1>1. /\ Len(p) = 6 /\ p # <<>> /\ p[1] = a /\ p[2] = b /\ p[3] = c /\ p[4] = e /\ p[5] = q
      /\ p[6] = f /\ p \in Seq({a, b, c, e, q, f})
  OBVIOUS
<1> HIDE DEF p
<1>2. p \in Seq(ToSet(p))
  BY <1>1, OwnValues
<1>3. /\ Usual(a) /\ NeedsInside(a) /\ TakesOpener(a) /\ Gating(a) /\ ~ TakesEnd(a)
      /\ ~ Begins(a) /\ ~ AsksBranch(a) /\ LeavesInside(a)
  BY WordsAre
<1>4. /\ Usual(f) /\ ~ NeedsInside(f) /\ ~ TakesOpener(f) /\ ~ Continuing(f)
      /\ TakesEnd(f) /\ ~ AsksBranch(f) /\ ~ NeedsBreak(f)
  BY WordsAre
<1>5. ~ TakesEnd(e) /\ ~ TakesOpener(e) /\ ~ Begins(e) /\ ~ AsksBranch(e) /\ ~ NeedsInside(e)
  BY BlocksAre
<1>6. /\ Usual(q) /\ ~ NeedsBreak(q) /\ ~ NeedsInside(q) /\ ~ TakesOpener(q) /\ ~ TakesEnd(q)
      /\ ~ Begins(q) /\ q.do \notin {"body", "after", "enter"}
  BY BlocksAre
<1>7. Adjoins(a, b) /\ Adjoins(b, c)
  BY <1>3 DEF Adjoins, Within, Flat
<1>8. Adjoins(c, e) /\ Adjoins(e, q) /\ Adjoins(q, f)
  BY <1>4, <1>5, <1>6 DEF Adjoins, Flat
<1>9. \A i \in 1 .. 6 : i = 1 \/ i = 2 \/ i = 3 \/ i = 4 \/ i = 5 \/ i = 6
  OBVIOUS
<1>10. ASSUME NEW i \in 1 .. 6, i < 6 PROVE Adjoins(p[i], p[i + 1])
  BY <1>1, <1>7, <1>8, <1>9, <1>10
<1>11. Flat(b) /\ Flat(c)
  BY DEF Within
<1>12. /\ Usual(b) /\ b.do \notin {"body", "after", "enter"} /\ ~ TakesOpener(b)
       /\ Usual(c) /\ c.do \notin {"body", "after", "enter"} /\ ~ TakesOpener(c)
  BY <1>11 DEF Flat
<1>13. ASSUME NEW i \in 1 .. 6
       PROVE  /\ Usual(p[i]) /\ p[i].do \notin {"body", "after"}
              /\ i > 1 => ~ TakesOpener(p[i])
              /\ Continuing(p[i]) => i < 6
              /\ p[i].do = "enter" => i = 4
  <2>1. CASE i = 1
    BY <1>1, <1>3, <2>1
  <2>2. CASE i \in {2, 3}
    BY <1>1, <1>12, <2>2
  <2>3. CASE i = 4
    BY <1>1, <1>5, <2>3
  <2>4. CASE i = 5
    BY <1>1, <1>6, <2>4
  <2>5. CASE i = 6
    BY <1>1, <1>4, <2>5
  <2> QED
    BY <1>9, <2>1, <2>2, <2>3, <2>4, <2>5
<1>14. \E j \in 1 .. 4 - 1 : Gating(p[j]) /\ \A l \in j .. 4 - 1 : p[l].do # "enter"
  <2>1. 1 \in 1 .. 4 - 1 /\ \A l \in 1 .. 4 - 1 : l \in 1 .. 6 /\ l # 4
    OBVIOUS
  <2> QED
    BY <1>1, <1>3, <1>13, <2>1
<1>15. OpensWith(x, p)
  BY <1>1, <1>3, <1>4, <1>10, <1>13, <1>14 DEF OpensWith
<1> QED
  BY <1>2, <1>15 DEF p

\* An attempt with its handler is a statement.
LEMMA AttemptOpens ==
    ASSUME NEW x, ~ NeedsBreak(x), NEW a, NEW b, NEW c, NEW e, NEW f,
           a.do = "take", a.kind \in Openers, a.kind \in Breaks, b.do = "enter", Usual(b),
           c.do = "take", c.kind \in Middles, c.kind \in Breaks,
           e.do = "enter", Usual(e), f.do = "take", f.kind \in Ends
    PROVE  OpensWith(x, <<a, b, c, e, f>>) /\ <<a, b, c, e, f>> \in Seq(ToSet(<<a, b, c, e, f>>))
<1> DEFINE p == <<a, b, c, e, f>>
<1>1. /\ Len(p) = 5 /\ p # <<>> /\ p[1] = a /\ p[2] = b /\ p[3] = c /\ p[4] = e /\ p[5] = f
      /\ p \in Seq({a, b, c, e, f})
  OBVIOUS
<1> HIDE DEF p
<1>2. p \in Seq(ToSet(p))
  BY <1>1, OwnValues
<1>3. /\ Usual(a) /\ NeedsInside(a) /\ TakesOpener(a) /\ Gating(a) /\ ~ TakesEnd(a)
      /\ ~ Begins(a) /\ ~ AsksBranch(a) /\ LeavesBreak(a)
  BY WordsAre
<1>4. /\ Usual(c) /\ ~ NeedsInside(c) /\ ~ TakesOpener(c) /\ Gating(c) /\ ~ TakesEnd(c)
      /\ ~ Begins(c) /\ ~ AsksBranch(c) /\ ~ NeedsBreak(c) /\ LeavesBreak(c)
  BY WordsAre
<1>5. /\ Usual(f) /\ ~ NeedsInside(f) /\ ~ TakesOpener(f) /\ ~ Continuing(f)
      /\ TakesEnd(f) /\ ~ AsksBranch(f) /\ ~ NeedsBreak(f)
  BY WordsAre
<1>6. /\ ~ TakesEnd(e) /\ ~ TakesOpener(e) /\ ~ Begins(e) /\ ~ AsksBranch(e) /\ ~ NeedsInside(e)
      /\ ~ TakesEnd(b) /\ ~ TakesOpener(b) /\ ~ Begins(b) /\ ~ AsksBranch(b) /\ ~ NeedsInside(b)
  BY BlocksAre
<1>7. Adjoins(a, b) /\ Adjoins(b, c)
  BY <1>3, <1>4, <1>6 DEF Adjoins
<1>8. Adjoins(c, e) /\ Adjoins(e, f)
  BY <1>4, <1>5, <1>6 DEF Adjoins
<1>9. \A i \in 1 .. 5 : i = 1 \/ i = 2 \/ i = 3 \/ i = 4 \/ i = 5
  OBVIOUS
<1>10. ASSUME NEW i \in 1 .. 5, i < 5 PROVE Adjoins(p[i], p[i + 1])
  BY <1>1, <1>7, <1>8, <1>9, <1>10
<1>11. ASSUME NEW i \in 1 .. 5
       PROVE  /\ Usual(p[i]) /\ p[i].do \notin {"body", "after"}
              /\ i > 1 => ~ TakesOpener(p[i])
              /\ Continuing(p[i]) => i < 5
              /\ p[i].do = "enter" => i = 2 \/ i = 4
  <2>1. CASE i = 1
    BY <1>1, <1>3, <2>1
  <2>2. CASE i = 2
    BY <1>1, <1>6, <2>2
  <2>3. CASE i = 3
    BY <1>1, <1>4, <2>3
  <2>4. CASE i = 4
    BY <1>1, <1>6, <2>4
  <2>5. CASE i = 5
    BY <1>1, <1>5, <2>5
  <2> QED
    BY <1>9, <2>1, <2>2, <2>3, <2>4, <2>5
<1>12. \E j \in 1 .. 4 - 1 : Gating(p[j]) /\ \A l \in j .. 4 - 1 : p[l].do # "enter"
  <2>1. 3 \in 1 .. 4 - 1 /\ \A l \in 3 .. 4 - 1 : l = 3
    OBVIOUS
  <2> QED
    BY <1>1, <1>4, <2>1
<1>13. \E j \in 1 .. 2 - 1 : Gating(p[j]) /\ \A l \in j .. 2 - 1 : p[l].do # "enter"
  <2>1. 1 \in 1 .. 2 - 1 /\ \A l \in 1 .. 2 - 1 : l = 1
    OBVIOUS
  <2> QED
    BY <1>1, <1>3, <2>1
<1>14. OpensWith(x, p)
  BY <1>1, <1>3, <1>5, <1>10, <1>11, <1>12, <1>13 DEF OpensWith
<1> QED
  BY <1>2, <1>14 DEF p

\* Every statement may begin where its end is to come.
LEMMA StatementOpens ==
    ASSUME NEW kind, NEW x, x.do = "after", x.kind = kind
    PROVE  OpensWith(x, Statement(kind)) /\ Statement(kind) \in Seq(ToSet(Statement(kind)))
<1> DEFINE Fit(p) == OpensWith(x, p) /\ p \in Seq(ToSet(p))
           hard == kind \in MethodKinds \cup {"async", "~"}
           method == [do |-> "method"]
           try == <<Opening("try"), Enter({"except"}), Take("except"), Enter({"endtry"}), Closing("endtry")>>
           if == <<Take("if")>> \o Branch \o <<Closing("endif")>>
           while == <<Take("while"), Read>> \o Loop
           for == <<Take("for"), Choose("range")>> \o Loop
<1>1. ~ hard => ~ NeedsBreak(x)
  BY DEF NeedsBreak
<1>2. ASSUME NEW S, NEW p \in Seq(S), Phrase(p), Len(p) > 0,
             p[1].do \in {"take", "method", "target"}, NeedsInside(p[1]),
             NeedsBreak(x) => LeavesBreak(p[Len(p)])
      PROVE  Fit(p)
  <2>1. p \in Seq(ToSet(p)) /\ Len(p) \in Nat
    BY OwnValues, LenProperties
  <2>2. p # <<>>
    BY <1>2, <2>1, EmptySeq
  <2> QED
    BY <1>2, <2>1, <2>2, PhraseOpens
<1>3. method.do = "method"
  OBVIOUS
<1>4. Within(Read) /\ Within(Name("local")) /\ Within(Name("other"))
  BY ThingsAre
<1>5. Within(Choose("local")) /\ Within(Choose("range"))
  BY ThingsAre
<1>6. ASSUME NEW k \in InnerWords PROVE Within(Take(k)) /\ Take(k).do = "take"
  BY ThingsAre
<1>7. {"async", "var", "return", "raise", "break", "continue", "goto", "~", "execute",
       "addhandler", ","} \subseteq InnerWords
  BY DEF InnerWords
<1> HIDE DEF method
<1>8. Flat(method) /\ Begins(method) /\ NeedsInside(method) /\ LeavesBreak(method)
  BY <1>3, BlocksAre
<1>9. ASSUME NEW a, Flat(a), NeedsInside(a), a.do \in {"take", "method", "target"},
             NeedsBreak(x) => LeavesBreak(a)
      PROVE  Fit(<<a>>)
  <2> DEFINE p == <<a>>
  <2>1. p \in Seq({a}) /\ Len(p) = 1 /\ p[1] = a
    OBVIOUS
  <2>2. Phrase(p)
    BY <1>9, PhraseTuples
  <2>3. Len(p) > 0 /\ p[Len(p)] = a
    BY <2>1
  <2> HIDE DEF p, Fit
  <2>4. Fit(p)
    BY <1>2, <1>9, <2>1, <2>2, <2>3
  <2> QED
    BY <2>4 DEF p
<1>10. ASSUME NEW a, NEW b, Within(a), a.do = "take", Flat(b), NeedsBreak(x) => LeavesBreak(b)
       PROVE  Fit(<<a, b>>)
  <2> DEFINE p == <<a, b>>
  <2>1. p \in Seq({a, b}) /\ Len(p) = 2 /\ p[1] = a /\ p[2] = b
    OBVIOUS
  <2>2. Joined(a, b) /\ NeedsInside(a)
    BY <1>10 DEF Joined, Within
  <2>3. Phrase(p)
    BY <2>2, PhraseTuples
  <2> HIDE DEF p, Fit
  <2>4. Fit(p)
    BY <1>2, <1>10, <2>1, <2>2, <2>3
  <2> QED
    BY <2>4 DEF p
<1>11. ASSUME NEW a, NEW b, NEW c, Within(a), a.do = "take", Within(b), Flat(c),
              NeedsBreak(x) => LeavesBreak(c)
       PROVE  Fit(<<a, b, c>>)
  <2> DEFINE p == <<a, b, c>>
  <2>1. p \in Seq({a, b, c}) /\ Len(p) = 3 /\ p[1] = a /\ p[3] = c
    OBVIOUS
  <2>2. Joined(a, b) /\ Joined(b, c) /\ NeedsInside(a)
    BY <1>11 DEF Joined, Within
  <2>3. Phrase(p) /\ Len(p) > 0 /\ p[Len(p)] = c
    BY <2>1, <2>2, PhraseTuples
  <2> HIDE DEF p, Fit
  <2>4. Fit(p)
    BY <1>2, <1>11, <2>1, <2>2, <2>3
  <2> QED
    BY <2>4 DEF p
<1>12. ASSUME NEW a, NEW b, NEW c, NEW d, Within(a), a.do = "take", Within(b), Within(c), Flat(d),
              ~ NeedsBreak(x)
       PROVE  Fit(<<a, b, c, d>>)
  <2> DEFINE p == <<a, b, c, d>>
  <2>1. p \in Seq({a, b, c, d}) /\ Len(p) = 4 /\ p[1] = a
    OBVIOUS
  <2>2. Joined(a, b) /\ Joined(b, c) /\ Joined(c, d) /\ NeedsInside(a)
    BY <1>12 DEF Joined, Within
  <2>3. Phrase(p)
    BY <2>2, PhraseTuples
  <2> HIDE DEF p, Fit
  <2>4. Fit(p)
    BY <1>2, <1>12, <2>1, <2>2, <2>3
  <2> QED
    BY <2>4 DEF p
<1> HIDE DEF Fit, hard
<1>13. Fit(<<Take("async"), method>>) /\ Fit(<<method>>)
  BY <1>3, <1>6, <1>7, <1>8, <1>9, <1>10
<1>14. ~ hard => Fit(<<Take("var"), Name("local"), Choose("local"), Accept("export")>>)
  <2>1. Flat(Accept("export")) /\ Within(Take("var")) /\ Take("var").do = "take"
    BY <1>6, <1>7, ThingsAre
  <2> QED
    BY <1>1, <1>4, <1>5, <1>12, <2>1
<1>15. ASSUME NEW k \in {"return", "raise"} PROVE ~ hard => Fit(<<Take(k), Choose(k)>>)
  <2>1. Within(Take(k)) /\ Take(k).do = "take"
    BY <1>6, <1>7
  <2>2. Within(Choose(k))
    <3>1. k # "branch"
      OBVIOUS
    <3> QED
      BY <3>1, ThingsAre
  <2> QED
    BY <1>1, <1>10, <2>1, <2>2 DEF Within
<1>16. ASSUME NEW k \in {"break", "continue"} PROVE ~ hard => Fit(<<Take(k)>>)
  <2>1. Within(Take(k)) /\ Take(k).do = "take"
    BY <1>6, <1>7
  <2> QED
    BY <1>1, <1>9, <2>1 DEF Within
<1>17. /\ ~ hard => Fit(<<Take("goto"), Take("~"), Name("other")>>)
       /\ ~ hard => Fit(<<Take("execute"), Read>>)
       /\ Fit(<<Take("~"), Name("other"), Take(":")>>)
  <2>1. /\ Within(Take("goto")) /\ Take("goto").do = "take" /\ Within(Take("~")) /\ Take("~").do = "take"
        /\ Within(Take("execute")) /\ Take("execute").do = "take"
    BY <1>6, <1>7
  <2>2. Flat(Take(":")) /\ LeavesBreak(Take(":"))
    BY ThingsAre DEF OuterWords
  <2>3. Flat(Read) /\ Flat(Name("other"))
    BY <1>4 DEF Within
  <2> QED
    BY <1>1, <1>4, <1>10, <1>11, <2>1, <2>2, <2>3
<1>18. kind = "addhandler" => ~ hard /\ Fit(Handler(kind))
  <2>1. kind = "addhandler" => ~ hard
    BY DEF hard, MethodKinds
  <2>2. Within(Take("addhandler")) /\ Take("addhandler").do = "take" /\ Within(Take(","))
    BY <1>6, <1>7
  <2>3. ~ hard => Fit(<<Take("addhandler"), Read, Take(","), Read>>)
    BY <1>1, <1>4, <1>12, <2>2 DEF Within
  <2> QED
    BY <2>1, <2>3 DEF Handler
<1>19. ~ hard => Fit(<<Target>>)
  <2>1. Target.do = "target"
    BY DEF Target
  <2>2. Flat(Target) /\ NeedsInside(Target)
    BY <2>1, BlocksAre
  <2> QED
    BY <1>1, <1>9, <2>1, <2>2
<1>20. Flat(Opening("then")) /\ NeedsInside(Opening("then")) /\ LeavesBreak(Opening("then"))
       /\ ~ Begins(Opening("then"))
  BY ThingsAre DEF OuterWords
<1>21. Flat(Opening("do")) /\ NeedsInside(Opening("do")) /\ LeavesBreak(Opening("do"))
       /\ ~ Begins(Opening("do"))
  BY ThingsAre DEF OuterWords
<1>22. ASSUME NEW stop, "eof" \notin stop PROVE Enter(stop).do = "enter" /\ Usual(Enter(stop))
  BY <1>22, EntersAre
<1>23. ASSUME NEW k \in {"if", "while", "for"}
       PROVE  Take(k).do = "take" /\ Take(k).kind \in Openers /\ Take(k).kind \notin Breaks
  BY WordsDiffer DEF Take
<1>24. ASSUME NEW k \in {"endif", "enddo", "endtry"}
       PROVE  Closing(k).do = "take" /\ Closing(k).kind \in Ends
  BY WordsDiffer DEF Closing
<1>25. ~ hard => Fit(while) /\ Fit(for)
  <2>1. /\ while = <<Take("while"), Read, Opening("do"), Enter({"enddo"}), Closing("enddo")>>
        /\ for = <<Take("for"), Choose("range"), Opening("do"), Enter({"enddo"}), Closing("enddo")>>
    BY WrittenOut DEF Loop
  <2> HIDE DEF while, for
  <2>2. "eof" \notin {"enddo"}
    OBVIOUS
  <2> QED
    BY <1>1, <1>4, <1>5, <1>21, <1>22, <1>23, <1>24, <2>1, <2>2, LoopOpens DEF Fit
<1>26. ~ hard => Fit(if)
  <2> DEFINE front == <<Take("if")>> \o Branch
  <2>1. front = <<Take("if"), Read, Opening("then"), Enter({"elsif", "else", "endif"}), Choose("branch")>>
    BY WrittenOut DEF Branch
  <2>2. if = <<Take("if"), Read, Opening("then"), Enter({"elsif", "else", "endif"}), Choose("branch"),
               Closing("endif")>>
    <3>1. if = front \o <<Closing("endif")>>
      OBVIOUS
    <3> HIDE DEF if, front
    <3> QED
      BY <2>1, <3>1, WrittenOut
  <2> HIDE DEF if
  <2>3. "eof" \notin {"elsif", "else", "endif"}
    OBVIOUS
  <2>4. AsksBranch(Choose("branch"))
    BY DEF Choose, AsksBranch
  <2> QED
    BY <1>1, <1>4, <1>20, <1>22, <1>23, <1>24, <2>2, <2>3, <2>4, ConditionOpens DEF Fit
<1>27. ~ hard => Fit(try)
  <2>1. Opening("try").do = "take" /\ Opening("try").kind \in Openers /\ Opening("try").kind \in Breaks
    BY WordsDiffer DEF Opening
  <2>2. Take("except").do = "take" /\ Take("except").kind \in Middles /\ Take("except").kind \in Breaks
    BY WordsDiffer DEF Take
  <2>3. "eof" \notin {"except"} /\ "eof" \notin {"endtry"}
    OBVIOUS
  <2> QED
    BY <1>1, <1>22, <1>24, <2>1, <2>2, <2>3, AttemptOpens DEF Fit
<1> HIDE DEF if, while, for, try
<1>28. \/ Statement(kind) \in {<<Take("async"), method>>, <<method>>,
                               <<Take("~"), Name("other"), Take(":")>>}
       \/ kind \in {"return", "raise"} /\ Statement(kind) = <<Take(kind), Choose(kind)>>
       \/ kind \in {"break", "continue"} /\ Statement(kind) = <<Take(kind)>>
       \/ kind = "addhandler" /\ Statement(kind) = Handler(kind)
       \/ /\ kind \notin MethodKinds /\ kind \notin {"async", "~"}
          /\ Statement(kind) \in
               {<<Take("var"), Name("local"), Choose("local"), Accept("export")>>,
                if, while, for, try, <<Target>>,
                <<Take("goto"), Take("~"), Name("other")>>, <<Take("execute"), Read>>}
  <2>1. \/ kind \in MethodKinds \cup {"async", "~"}
           /\ Statement(kind) \in {<<Take("async"), method>>, <<method>>,
                                  <<Take("~"), Name("other"), Take(":")>>}
        \/ kind \in {"return", "raise"} /\ Statement(kind) = <<Take(kind), Choose(kind)>>
        \/ kind \in {"break", "continue"} /\ Statement(kind) = <<Take(kind)>>
        \/ kind = "addhandler" /\ Statement(kind) = Handler(kind)
        \/ /\ kind \in {"var", "if", "while", "for", "try", "goto", "execute"}
           /\ Statement(kind) \in
               {<<Take("var"), Name("local"), Choose("local"), Accept("export")>>,
                if, while, for, try, <<Take("goto"), Take("~"), Name("other")>>,
                <<Take("execute"), Read>>}
        \/ kind \notin MethodKinds \cup {"async", "~"} /\ Statement(kind) = <<Target>>
    BY DEF Statement, if, while, for, try, method
  <2>2. \A k \in {"var", "if", "while", "for", "try", "goto", "execute"} :
           k \notin MethodKinds /\ k \notin {"async", "~"}
    BY DEF MethodKinds
  <2> QED
    BY <2>1, <2>2
<1>29. kind \in {"return", "raise"} \cup {"break", "continue"} => ~ hard
  BY DEF hard, MethodKinds
<1>30. kind \notin MethodKinds /\ kind \notin {"async", "~"} => ~ hard
  BY DEF hard
<1>31. Fit(Statement(kind))
  BY <1>13, <1>14, <1>15, <1>16, <1>17, <1>18, <1>19, <1>25, <1>26, <1>27, <1>28, <1>29, <1>30
<1> QED
  BY <1>31 DEF Fit

--------------------------------------------------------------------------------
(* The list of things to do as a pile *)

\* The list of things to do, the last thing first.
Pile(s) == [m \in 1 .. Len(s) |-> s[Len(s) + 1 - m]]

\* What takes the place of the first thing of a list, said of the piles.
LEMMA PileFact ==
    ASSUME NEW a, a \in Seq(ToSet(a)), a # <<>>, NEW p, p \in Seq(ToSet(p)),
           NEW b, b = p \o Tail(a) \/ (p = <<>> /\ b = Tail(a))
    PROVE  /\ Len(a) \in Nat \ {0} /\ Len(p) \in Nat /\ Len(b) = Len(a) - 1 + Len(p)
           /\ Swapped(Pile(a), Len(a), Pile(b), p) /\ Pile(a)[Len(a)] = a[1]
           /\ p # <<>> => Len(p) > 0 /\ Pile(b)[Len(b)] = p[1] /\ Pile(b)[Len(a)] = p[Len(p)]
<1> DEFINE t == Tail(a)
           h == Len(a)
           k == Len(p)
           g == Len(b)
<1>1. /\ t \in Seq(ToSet(t)) /\ h \in Nat \ {0} /\ Len(t) = h - 1 /\ DOMAIN t = 1 .. h - 1
      /\ \A n \in 1 .. h - 1 : t[n] = a[n + 1]
  BY RestFact
<1>2. k \in Nat /\ (p # <<>> => k > 0)
  BY LenProperties, EmptySeq
<1>3. /\ g = k + (h - 1) /\ \A n \in 1 .. k : b[n] = p[n]
      /\ \A n \in 1 .. h - 1 : b[k + n] = t[n]
  <2>1. CASE b = p \o t
    <3>1. /\ Len(p \o t) = Len(p) + Len(t) /\ DOMAIN p = 1 .. Len(p)
          /\ \A n \in DOMAIN p : (p \o t)[n] = p[n]
          /\ \A n \in DOMAIN t : (p \o t)[Len(p) + n] = t[n]
      <4>1. p \in Seq(ToSet(p)) /\ t \in Seq(ToSet(t))
        BY <1>1
      <4> HIDE DEF t, h, k, g
      <4> QED
        BY ONLY <4>1, JoinFact
    <3> QED
      BY <1>1, <2>1, <3>1
  <2>2. CASE p = <<>> /\ b = t
    <3>1. k = 0
      BY <2>2
    <3> HIDE DEF k
    <3> QED
      BY <1>1, <2>2, <3>1
  <2> QED
    BY <2>1, <2>2
<1> HIDE DEF t, h, k, g
<1>4. \A m \in 1 .. h : Pile(a)[m] = a[h + 1 - m]
  BY DEF Pile, h
<1>5. \A m \in 1 .. g : Pile(b)[m] = b[g + 1 - m]
  BY DEF Pile, g
<1>6. ASSUME NEW m \in 1 .. h - 1 PROVE Pile(b)[m] = Pile(a)[m]
  <2> DEFINE n == h - m
  <2>1. n \in 1 .. h - 1 /\ g + 1 - m = k + n /\ h + 1 - m = n + 1 /\ m \in 1 .. g /\ m \in 1 .. h
    BY <1>1, <1>2, <1>3
  <2> HIDE DEF n
  <2>2. Pile(b)[m] = t[n] /\ Pile(a)[m] = a[n + 1]
    BY <1>3, <1>4, <1>5, <2>1
  <2> QED
    BY <1>1, <2>1, <2>2
<1>7. ASSUME NEW i \in 1 .. k PROVE Pile(b)[h + k - i] = p[i]
  <2> DEFINE m == h + k - i
  <2>1. m \in 1 .. g /\ g + 1 - m = i
    BY <1>1, <1>2, <1>3
  <2>2. Pile(b)[m] = p[i]
    <3> HIDE DEF m
    <3> QED
      BY <1>3, <1>5, <2>1
  <2> QED
    BY <2>2
<1>8. Swapped(Pile(a), h, Pile(b), p)
  BY <1>6, <1>7 DEF Swapped, k
<1>9. Pile(a)[h] = a[1]
  <2>1. h \in 1 .. h /\ h + 1 - h = 1
    BY <1>1
  <2> QED
    BY <1>4, <2>1
<1>10. p # <<>> => Pile(b)[g] = p[1] /\ Pile(b)[h] = p[k]
  <2> SUFFICES ASSUME p # <<>> PROVE Pile(b)[g] = p[1] /\ Pile(b)[h] = p[k]
    OBVIOUS
  <2>1. 1 \in 1 .. k /\ k \in 1 .. k /\ h + k - 1 = g /\ h + k - k = h
    BY <1>1, <1>2, <1>3
  <2> QED
    BY <1>7, <2>1
<1>11. g = h - 1 + k
  BY <1>1, <1>2, <1>3
<1> QED
  BY <1>1, <1>2, <1>8, <1>9, <1>10, <1>11 DEF h, k, g

\* What a token has to be that is taken for d, when p takes the place of d.
FitsFor(d, p, peek) ==
    /\ NeedsInside(d) \/ peek.kind \in NoStart
    /\ peek.kind \in Ends <=> TakesEnd(d)
    /\ peek.kind \in Openers <=> TakesOpener(d) \/ d.do = "method"
    /\ peek.kind \in Middles <=> TakesMiddle(d)
    /\ NeedsInside(d) /\ d.do \in {"take", "method", "target"} => peek.kind \notin NoStart
    /\ p = <<>> => /\ LeavesInside(d) => peek.kind \notin Breaks
                   /\ LeavesBreak(d) => peek.kind \in Breaks
                   /\ d.do # "method"
    /\ p # <<>> => /\ NeedsInside(p[1]) => peek.kind \notin Breaks
                   /\ ~ NeedsBreak(p[1])
                   /\ TakesEnd(p[Len(p)]) <=> d.do = "method"
                   /\ ~ Gating(d)

\* When p may take the place of d without a token.
SkipsFor(d, p) ==
    /\ d.do \notin {"take", "method", "target"}
    /\ p = <<>> => /\ LeavesInside(d) => NeedsInside(d)
                   /\ LeavesBreak(d) => NeedsBreak(d)
    /\ p # <<>> => /\ NeedsInside(p[1]) => NeedsInside(d)
                   /\ ~ NeedsBreak(p[1]) /\ ~ TakesEnd(p[Len(p)])

\* The first thing of a list in step is replaced.
LEMMA PileReplaced ==
    ASSUME NEW a, a \in Seq(ToSet(a)), a # <<>>, a[1].do \notin {"body", "after", "enter"},
           NEW p, p \in Seq(ToSet(p)), Yields(a[1], p),
           NEW b, b = p \o Tail(a) \/ (p = <<>> /\ b = Tail(a)),
           StackFits(Pile(a), Len(a))
    PROVE  /\ Replacing(Pile(a), Len(a), Pile(b), Len(b)) /\ Pile(a)[Len(a)] = a[1]
           /\ Len(b) < Len(a) => p = <<>>
           /\ Len(b) >= Len(a) => p # <<>> /\ Pile(b)[Len(b)] = p[1] /\ Pile(b)[Len(a)] = p[Len(p)]
<1> DEFINE z == Pile(a)
           w == Pile(b)
           h == Len(a)
           k == Len(p)
           g == Len(b)
<1>1. /\ h \in Nat \ {0} /\ k \in Nat /\ g = h - 1 + k
      /\ Swapped(z, h, w, p) /\ z[h] = a[1]
      /\ p # <<>> => k > 0 /\ w[g] = p[1] /\ w[h] = p[k]
  BY PileFact
<1>2. p = <<>> => k = 0
  OBVIOUS
<1> HIDE DEF z, w, h, k, g
<1>3. h > 1
  <2>1. z[1].do \in {"enter", "body"}
    BY DEF StackFits, z
  <2>2. h # 1
    BY <1>1, <2>1
  <2> QED
    BY <1>1, <2>2
<1>4. Raised(z[h], w, h, g)
  <2>1. h \in Nat /\ Yields(z[h], p)
    BY <1>1
  <2> QED
    BY <1>1, <2>1, RaisedFact DEF k
<1>5. g \in Nat /\ g >= h - 1 /\ (g < h => p = <<>>) /\ (g >= h => p # <<>>)
  BY <1>1, <1>2, <1>3
<1>6. \A m \in 1 .. h - 1 : w[m] = z[m]
  BY <1>1 DEF Swapped
<1>7. Replacing(z, h, w, g)
  BY <1>1, <1>3, <1>4, <1>5, <1>6 DEF Replacing
<1> QED
  BY <1>1, <1>5, <1>7 DEF z, w, h, k, g

--------------------------------------------------------------------------------
(* The parser: BslParser *)

\* What is left to do, the text, the token that is looked at and the reports go
\* together; a statement may begin if one is next.
SyncedAt(a, ts, peek, R) ==
    /\ InStep(Pile(a), Len(a), ts, Len(ts), peek)
    /\ ReportsFit(Pile(a), Len(a), ts, Len(ts), R)
    /\ a[1].do = "body" => Len(ts) = 0 \/ ts[Len(ts)].kind \in Breaks \/ peek.kind \in a[1].stop

\* Nothing is said, or taken back, of what is reached.
SameReports(R, S) == \A i \in Nat : <<"UnreachableCode", i>> \in S <=> <<"UnreachableCode", i>> \in R

\* The first thing to do is on top of the pile.
LEMMA PileTop ==
    ASSUME NEW a, a \in Seq(ToSet(a)), a # <<>>
    PROVE  Len(a) \in Nat \ {0} /\ Pile(a)[Len(a)] = a[1]
<1>1. <<>> \in Seq(ToSet(<<>>))
  BY DEF ToSet
<1> QED
  BY <1>1, PileFact

\* A text with one more token.
LEMMA TextLonger ==
    ASSUME NEW ts, ts \in Seq(ToSet(ts)), NEW peek, NEW us, us = Append(ts, peek)
    PROVE  Len(ts) \in Nat /\ Len(us) = Len(ts) + 1 /\ Appended(us, ts, Len(ts), peek)
<1> DEFINE S == ToSet(ts) \cup {peek}
           r == Append(ts, peek)
<1>1. ts \in Seq(S) /\ peek \in S
  BY SeqMonotonic
<1> HIDE DEF S
<1>2. /\ Len(r) = Len(ts) + 1 /\ r[Len(ts) + 1] = peek /\ \A i \in 1 .. Len(ts) : r[i] = ts[i]
      /\ Len(ts) \in Nat
  BY <1>1, AppendProperties, LenProperties
<1> HIDE DEF r
<1>3. us = r
  BY DEF r
<1> QED
  BY <1>2, <1>3 DEF Appended

\* A token is taken for the first thing to do.
LEMMA TokenTaken ==
    ASSUME NEW a, a \in Seq(ToSet(a)), a # <<>>, a[1].do \notin {"body", "after", "enter"},
           NEW p, p \in Seq(ToSet(p)), Yields(a[1], p),
           NEW b, b = p \o Tail(a) \/ (p = <<>> /\ b = Tail(a)), b \in Seq(ToSet(b)), b # <<>>,
           NEW ts, ts \in Seq(ToSet(ts)), NEW peek, NEW us, us = Append(ts, peek), NEW next,
           FitsFor(a[1], p, peek), NEW R, NEW S, SameReports(R, S), SyncedAt(a, ts, peek, R)
    PROVE  SyncedAt(b, us, next, S)
<1> DEFINE z == Pile(a)
           w == Pile(b)
           h == Len(a)
           g == Len(b)
           n == Len(ts)
           d == a[1]
<1>1. InStep(z, h, ts, n, peek) /\ ReportsFit(z, h, ts, n, R) /\ StackFits(z, h)
  BY DEF SyncedAt, InStep
<1>2. /\ Replacing(z, h, w, g) /\ z[h] = d
      /\ g < h => p = <<>>
      /\ g >= h => p # <<>> /\ w[g] = p[1] /\ w[h] = p[Len(p)]
  BY <1>1, PileReplaced
<1>3. n \in Nat /\ Len(us) = n + 1 /\ Appended(us, ts, n, peek)
  BY TextLonger
<1>4. w[g] = b[1]
  BY PileTop
<1> HIDE DEF z, w, h, g, n, d
<1>5. FitsFor(d, p, peek)
  BY DEF d
<1>6. Fitting(d, w, h, g, peek)
  <2>1. g >= h => /\ NeedsInside(w[g]) => peek.kind \notin Breaks
                  /\ ~ NeedsBreak(w[g])
                  /\ TakesEnd(w[h]) <=> d.do = "method"
                  /\ ~ Gating(d)
    BY <1>2, <1>5 DEF FitsFor
  <2>2. g < h => /\ LeavesInside(d) => peek.kind \notin Breaks
                 /\ LeavesBreak(d) => peek.kind \in Breaks
                 /\ d.do # "method"
    BY <1>2, <1>5 DEF FitsFor
  <2>3. /\ NeedsInside(d) \/ peek.kind \in NoStart
        /\ peek.kind \in Ends <=> TakesEnd(d)
        /\ peek.kind \in Openers <=> TakesOpener(d) \/ d.do = "method"
        /\ peek.kind \in Middles <=> TakesMiddle(d)
        /\ NeedsInside(d) /\ d.do \in {"take", "method", "target"} => peek.kind \notin NoStart
    BY <1>5 DEF FitsFor
  <2> QED
    BY <2>1, <2>2, <2>3 DEF Fitting
<1>7. Taking(z, h, w, g, ts, us, n, peek)
  BY <1>1, <1>2, <1>3, <1>6 DEF Taking, Appended
<1>8. InStep(w, g, us, n + 1, next) /\ ReportsFit(w, g, us, n + 1, R) /\ w[g].do # "body"
  BY <1>1, <1>7, TakeKeeps
<1>9. ReportsFit(w, g, us, n + 1, S)
  BY <1>8 DEF ReportsFit, SameReports
<1>10. /\ InStep(w, g, us, Len(us), next) /\ ReportsFit(w, g, us, Len(us), S) /\ b[1].do # "body"
  BY <1>3, <1>4, <1>8, <1>9
<1> QED
  BY <1>10 DEF SyncedAt, w, g

\* The first thing to do is replaced without a token.
LEMMA NothingTaken ==
    ASSUME NEW a, a \in Seq(ToSet(a)), a # <<>>, a[1].do \notin {"body", "after", "enter"},
           NEW p, p \in Seq(ToSet(p)), Yields(a[1], p),
           NEW b, b = p \o Tail(a) \/ (p = <<>> /\ b = Tail(a)), b \in Seq(ToSet(b)), b # <<>>,
           NEW ts, ts \in Seq(ToSet(ts)), NEW peek,
           SkipsFor(a[1], p), NEW R, NEW S, SameReports(R, S), SyncedAt(a, ts, peek, R)
    PROVE  SyncedAt(b, ts, peek, S)
<1> DEFINE z == Pile(a)
           w == Pile(b)
           h == Len(a)
           g == Len(b)
           n == Len(ts)
           d == a[1]
<1>1. InStep(z, h, ts, n, peek) /\ ReportsFit(z, h, ts, n, R) /\ StackFits(z, h)
  BY DEF SyncedAt, InStep
<1>2. /\ Replacing(z, h, w, g) /\ z[h] = d
      /\ g < h => p = <<>>
      /\ g >= h => p # <<>> /\ w[g] = p[1] /\ w[h] = p[Len(p)]
  BY <1>1, PileReplaced
<1>3. n \in Nat
  BY LenProperties
<1>4. w[g] = b[1]
  BY PileTop
<1> HIDE DEF z, w, h, g, n, d
<1>5. SkipsFor(d, p)
  BY DEF d
<1>6. /\ g < h => /\ LeavesInside(d) => NeedsInside(d)
                  /\ LeavesBreak(d) => NeedsBreak(d)
      /\ g >= h => /\ NeedsInside(w[g]) => NeedsInside(d)
                   /\ ~ NeedsBreak(w[g]) /\ ~ TakesEnd(w[h])
  BY <1>2, <1>5 DEF SkipsFor
<1>7. Skipping(z, h, w, g, ts, n, peek)
  BY <1>1, <1>2, <1>3, <1>5, <1>6 DEF Skipping, SkipsFor
<1>8. InStep(w, g, ts, n, peek) /\ ReportsFit(w, g, ts, n, R) /\ w[g].do # "body"
  BY <1>1, <1>7, SkipKeeps
<1>9. ReportsFit(w, g, ts, n, S)
  BY <1>8 DEF ReportsFit, SameReports
<1>10. b[1].do # "body"
  BY <1>4, <1>8
<1> QED
  BY <1>8, <1>9, <1>10 DEF SyncedAt, w, g, n

\* A block is entered.
LEMMA BlockEntered ==
    ASSUME NEW a, a \in Seq(ToSet(a)), a # <<>>, a[1].do = "enter",
           NEW ts, ts \in Seq(ToSet(ts)), NEW peek, NEW R, SyncedAt(a, ts, peek, R),
           NEW b, b = <<Block(a[1].stop, Len(ts))>> \o Tail(a), b \in Seq(ToSet(b)), b # <<>>
    PROVE  SyncedAt(b, ts, peek, R)
<1> DEFINE e == Block(a[1].stop, Len(ts))
           p == <<e>>
           z == Pile(a)
           w == Pile(b)
           h == Len(a)
           n == Len(ts)
<1>1. p \in Seq(ToSet(p)) /\ Len(p) = 1 /\ p[1] = e /\ p # <<>>
  BY DEF ToSet
<1>2. e.do = "body" /\ e.stop = a[1].stop /\ e.at = n /\ e.terminated = FALSE
  BY DEF Block
<1> HIDE DEF e
<1>3. b = p \o Tail(a)
  BY DEF e
<1> HIDE DEF p
<1>4. /\ h \in Nat \ {0} /\ Len(b) = h - 1 + 1 /\ Swapped(z, h, w, p) /\ z[h] = a[1]
      /\ w[h] = e
  <2>1. b = p \o Tail(a) \/ (p = <<>> /\ b = Tail(a))
    BY <1>3
  <2>2. /\ h \in Nat \ {0} /\ Len(b) = h - 1 + Len(p) /\ Swapped(z, h, w, p) /\ z[h] = a[1]
        /\ p # <<>> => w[h] = p[Len(p)]
    <3>1. a \in Seq(ToSet(a)) /\ a # <<>> /\ p \in Seq(ToSet(p))
      BY <1>1
    <3> QED
      BY ONLY <2>1, <3>1, PileFact
  <2> QED
    BY <1>1, <2>2
<1>5. n \in Nat
  BY LenProperties
<1>6. w[Len(b)] = b[1]
  BY PileTop
<1> HIDE DEF z, w, h, n
<1>7. Len(b) = h /\ b[1] = e
  BY <1>4, <1>6
<1>8. InStep(z, h, ts, n, peek) /\ ReportsFit(z, h, ts, n, R)
  BY DEF SyncedAt, z, h, n
<1>9. /\ InStep(w, h, ts, n, peek) /\ ReportsFit(w, h, ts, n, R)
      /\ n = 0 \/ ts[n].kind \in Breaks
  <2>1. z[h].do = "enter" /\ w[h].do = "body" /\ w[h].stop = z[h].stop /\ w[h].at = n /\ w[h].terminated = FALSE
    BY <1>2, <1>4
  <2>2. \A m \in 1 .. h - 1 : w[m] = z[m]
    BY <1>4 DEF Swapped
  <2> QED
    BY <1>4, <1>5, <1>8, <2>1, <2>2, EnterKeeps
<1> QED
  BY <1>7, <1>9 DEF SyncedAt, w, n

\* A block is left that is not the whole text.
LEMMA BlockLeft ==
    ASSUME NEW a, a \in Seq(ToSet(a)), Len(a) > 1, a[1].do = "body",
           NEW ts, ts \in Seq(ToSet(ts)), NEW peek, NEW R, NEW S, SameReports(R, S),
           SyncedAt(a, ts, peek, R),
           NEW b, b = Tail(a), b \in Seq(ToSet(b)), b # <<>>
    PROVE  SyncedAt(b, ts, peek, S)
<1> DEFINE z == Pile(a)
           w == Pile(b)
           h == Len(a)
           n == Len(ts)
           p == <<>>
<1>1. p \in Seq(ToSet(p)) /\ Len(p) = 0
  BY DEF ToSet
<1>2. a # <<>>
  OBVIOUS
<1> HIDE DEF p
<1>3. /\ h \in Nat \ {0} /\ Len(b) = h - 1 + 0 /\ Swapped(z, h, w, p) /\ z[h] = a[1]
  BY <1>1, <1>2, PileFact DEF p
<1>4. n \in Nat
  BY LenProperties
<1>5. w[Len(b)] = b[1]
  BY PileTop
<1>6. h > 1
  OBVIOUS
<1> HIDE DEF z, w, h, n
<1>7. Len(b) = h - 1 /\ \A m \in 1 .. h - 1 : w[m] = z[m]
  BY <1>3 DEF Swapped
<1>8. InStep(z, h, ts, n, peek) /\ ReportsFit(z, h, ts, n, R)
  BY DEF SyncedAt, z, h, n
<1>9. InStep(w, h - 1, ts, n, peek) /\ ReportsFit(w, h - 1, ts, n, R) /\ w[h - 1].do # "body"
  <2>1. h \in Nat /\ h > 1 /\ z[h].do = "body"
    BY <1>3, <1>6
  <2>2. \A m \in 1 .. h - 1 : w[m] = z[m]
    BY <1>7
  <2> QED
    BY <1>4, <1>8, <2>1, <2>2, LeaveKeeps
<1>10. ReportsFit(w, h - 1, ts, n, S)
  BY <1>9 DEF ReportsFit, SameReports
<1>11. b[1].do # "body" /\ InStep(w, Len(b), ts, n, peek) /\ ReportsFit(w, Len(b), ts, n, S)
  BY <1>5, <1>7, <1>9, <1>10
<1> QED
  BY <1>11 DEF SyncedAt, w, n

\* The block that is the whole text is left at the end of it.
LEMMA TextEnds ==
    ASSUME NEW a, a \in Seq(ToSet(a)), a # <<>>, a[1].do = "body", "eof" \in a[1].stop,
           NEW ts, NEW peek, NEW R, NEW S, SameReports(R, S), SyncedAt(a, ts, peek, R)
    PROVE  \A i \in Nat : <<"UnreachableCode", i>> \in S <=> i \in 1 .. Len(ts) /\ BehindJump(ts, i)
<1> DEFINE z == Pile(a)
           h == Len(a)
           n == Len(ts)
<1>1. h \in Nat \ {0} /\ z[h] = a[1]
  BY PileTop
<1> HIDE DEF z, h, n
<1>2. StackFits(z, h) /\ ReportsFit(z, h, ts, n, R)
  BY DEF SyncedAt, InStep, z, h, n
<1>3. h = 1
  <2>1. h > 1 => h \in 2 .. h
    BY <1>1
  <2>2. h > 1 => Usual(z[h])
    BY <1>2, <2>1 DEF StackFits
  <2> QED
    BY <1>1, <2>2 DEF Usual
<1>4. \A m \in 1 .. h : z[m].do # "after"
  BY <1>1, <1>3
<1>5. \A i \in Nat : <<"UnreachableCode", i>> \in R <=> i \in 1 .. n /\ BehindJump(ts, i)
  BY <1>2, <1>4 DEF ReportsFit
<1> QED
  BY <1>5 DEF SameReports, n

\* The kinds of a token between two statements.
Semicolons == {";"}

\* What is known of it.
LEMMA SemicolonIs ==
    \A k \in Semicolons : /\ k \in Breaks /\ k \in NoStart
                          /\ k \notin Openers \cup Ends \cup Middles
  BY Zenon DEF Semicolons, Breaks, NoStart, Openers, MethodKinds, Ends, Middles

\* One is skipped.
LEMMA SemicolonSkipped ==
    ASSUME NEW a, a \in Seq(ToSet(a)), a # <<>>, a[1].do = "body",
           NEW ts, ts \in Seq(ToSet(ts)), NEW peek, peek.kind \in Semicolons,
           NEW us, us = Append(ts, peek), NEW next, NEW R,
           InStep(Pile(a), Len(a), ts, Len(ts), peek),
           ReportsFit(Pile(a), Len(a), ts, Len(ts), R)
    PROVE  SyncedAt(a, us, next, R)
<1> DEFINE z == Pile(a)
           h == Len(a)
           n == Len(ts)
<1>1. h \in Nat \ {0} /\ z[h] = a[1]
  BY PileTop
<1>2. n \in Nat /\ Len(us) = n + 1 /\ Appended(us, ts, n, peek)
  BY TextLonger
<1>3. InStep(z, h, ts, n, peek) /\ ReportsFit(z, h, ts, n, R)
  OBVIOUS
<1> HIDE DEF z, h, n
<1>4. /\ peek.kind \in Breaks /\ peek.kind \in NoStart
      /\ peek.kind \notin Openers \cup Ends \cup Middles
  BY SemicolonIs
<1>5. /\ InStep(z, h, us, n + 1, next) /\ ReportsFit(z, h, us, n + 1, R)
      /\ us[n + 1].kind \in Breaks
  <2>1. z[h].do = "body"
    BY <1>1
  <2> QED
    BY <1>1, <1>2, <1>3, <1>4, <2>1, SemicolonKeeps
<1> QED
  BY <1>2, <1>5 DEF SyncedAt, z, h

\* On the pile of a there are x, and p in its order.
Started(a, x, p, b) ==
    /\ Len(a) \in Nat \ {0} /\ Len(p) \in Nat /\ Len(b) = Len(a) + 1 + Len(p)
    /\ \A m \in 1 .. Len(a) : Pile(b)[m] = Pile(a)[m]
    /\ Pile(b)[Len(a) + 1] = x /\ Swapped(Pile(b), Len(a) + 2, Pile(b), p)

\* A list with a statement and the end of it before what there was, said of the piles.
LEMMA PileStarted ==
    ASSUME NEW a, a \in Seq(ToSet(a)), a # <<>>, NEW x, NEW p, p \in Seq(ToSet(p)),
           NEW b, b = p \o <<x>> \o a
    PROVE  Started(a, x, p, b)
<1> DEFINE h == Len(a)
           k == Len(p)
           g == Len(b)
           l == <<x>>
           q == p \o l
<1>1. h \in Nat \ {0} /\ k \in Nat
  BY PileTop, LenProperties
<1>2. l \in Seq(ToSet(l)) /\ Len(l) = 1 /\ l[1] = x /\ DOMAIN l = {1}
  BY DEF ToSet
<1> HIDE DEF l
<1>3. /\ q \in Seq(ToSet(q)) /\ Len(q) = k + 1 /\ q[k + 1] = x /\ \A i \in 1 .. k : q[i] = p[i]
  <2>1. p \in Seq(ToSet(p)) /\ l \in Seq(ToSet(l))
    BY <1>2
  <2>2. /\ q \in Seq(ToSet(q)) /\ Len(q) = Len(p) + Len(l) /\ DOMAIN p = 1 .. Len(p)
        /\ \A i \in DOMAIN p : q[i] = p[i]
        /\ \A i \in DOMAIN l : q[Len(p) + i] = l[i]
    BY ONLY <2>1, JoinFact DEF q
  <2> HIDE DEF q
  <2> QED
    BY <1>2, <2>2
<1>4. b = q \o a
  BY DEF l
<1> HIDE DEF q
<1>5. /\ g = k + 1 + h /\ \A i \in 1 .. k + 1 : b[i] = q[i]
      /\ \A i \in 1 .. h : b[k + 1 + i] = a[i]
  <2>1. q \in Seq(ToSet(q)) /\ a \in Seq(ToSet(a))
    BY <1>3
  <2> DEFINE c == q \o a
  <2>2. /\ Len(c) = Len(q) + Len(a) /\ DOMAIN q = 1 .. Len(q) /\ DOMAIN a = 1 .. Len(a)
        /\ \A i \in DOMAIN q : c[i] = q[i]
        /\ \A i \in DOMAIN a : c[Len(q) + i] = a[i]
    BY ONLY <2>1, JoinFact
  <2>3. b = c
    BY <1>4
  <2> HIDE DEF c
  <2> QED
    BY <1>3, <2>2, <2>3
<1> HIDE DEF h, k, g
<1>6. \A m \in 1 .. h : Pile(a)[m] = a[h + 1 - m]
  BY DEF Pile, h
<1>7. \A m \in 1 .. g : Pile(b)[m] = b[g + 1 - m]
  BY DEF Pile, g
<1>8. ASSUME NEW m \in 1 .. h PROVE Pile(b)[m] = Pile(a)[m]
  <2> DEFINE n == h + 1 - m
  <2>1. n \in 1 .. h /\ g + 1 - m = k + 1 + n /\ m \in 1 .. g
    BY <1>1, <1>5
  <2>2. Pile(a)[m] = a[n]
    BY <1>6
  <2> HIDE DEF n
  <2> QED
    BY <1>5, <1>7, <2>1, <2>2
<1>9. Pile(b)[h + 1] = x
  <2>1. h + 1 \in 1 .. g /\ g + 1 - (h + 1) = k + 1 /\ k + 1 \in 1 .. k + 1
    BY <1>1, <1>5
  <2> QED
    BY <1>3, <1>5, <1>7, <2>1
<1>10. ASSUME NEW i \in 1 .. k PROVE Pile(b)[h + 2 + k - i] = p[i]
  <2> DEFINE m == h + 2 + k - i
  <2>1. m \in 1 .. g /\ g + 1 - m = i /\ i \in 1 .. k + 1
    BY <1>1, <1>5
  <2>2. Pile(b)[m] = p[i]
    <3> HIDE DEF m
    <3> QED
      BY <1>3, <1>5, <1>7, <2>1
  <2> QED
    BY <2>2
<1>11. Swapped(Pile(b), h + 2, Pile(b), p)
  BY <1>10 DEF Swapped, k
<1>12. g = h + 1 + k
  BY <1>1, <1>5
<1> QED
  BY <1>1, <1>8, <1>9, <1>11, <1>12 DEF h, k, g, Started

\* A statement begins.
LEMMA StatementStarted ==
    ASSUME NEW a, a \in Seq(ToSet(a)), a # <<>>, a[1].do = "body",
           NEW ts, ts \in Seq(ToSet(ts)), NEW peek, peek.kind \notin a[1].stop,
           NEW R, NEW S, SameReports(R, S), SyncedAt(a, ts, peek, R),
           NEW x, x.do = "after", x.kind = peek.kind, x.at = Len(ts) + 1,
           x.terminated <=> a[1].terminated /\ peek.after = "no",
           NEW b, b = Statement(peek.kind) \o <<x>> \o a, b \in Seq(ToSet(b)), b # <<>>
    PROVE  SyncedAt(b, ts, peek, S)
<1> DEFINE p == Statement(peek.kind)
           z == Pile(a)
           w == Pile(b)
           h == Len(a)
           g == Len(b)
           n == Len(ts)
<1>1. OpensWith(x, p) /\ p \in Seq(ToSet(p))
  BY StatementOpens
<1> HIDE DEF p
<1>2. b = p \o <<x>> \o a
  BY DEF p
<1>3. /\ h \in Nat \ {0} /\ Len(p) \in Nat /\ g = h + 1 + Len(p)
      /\ \A m \in 1 .. h : w[m] = z[m]
      /\ w[h + 1] = x /\ Swapped(w, h + 2, w, p)
  <2>1. a \in Seq(ToSet(a)) /\ a # <<>> /\ p \in Seq(ToSet(p)) /\ b = p \o <<x>> \o a
    BY <1>1, <1>2
  <2> QED
    <3>1. Started(a, x, p, b)
      BY ONLY <2>1, PileStarted
    <3> QED
      BY <3>1 DEF Started
<1>4. n \in Nat /\ z[h] = a[1] /\ w[g] = b[1]
  BY LenProperties, PileTop
<1>5. x.at = n + 1
  OBVIOUS
<1> HIDE DEF z, w, h, g, n
<1>6. InStep(z, h, ts, n, peek) /\ ReportsFit(z, h, ts, n, R)
  BY DEF SyncedAt, z, h, n
<1>7. n = 0 \/ ts[n].kind \in Breaks
  BY DEF SyncedAt, n
<1>8. Laid(x, w, h + 2, g)
  <2>1. h + 2 \in Nat /\ h + 2 - 1 + Len(p) = g
    BY <1>3
  <2>2. Laid(x, w, h + 2, h + 2 - 1 + Len(p))
    BY <1>1, <1>3, <2>1, LaidFact
  <2> QED
    BY <2>1, <2>2
<1>9. g \in Nat
  BY <1>3
<1>10. Beginning(z, h, w, g, ts, n, peek)
  BY <1>3, <1>4, <1>5, <1>6, <1>7, <1>8, <1>9 DEF Beginning
<1>11. InStep(w, g, ts, n, peek) /\ ReportsFit(w, g, ts, n, R) /\ w[g].do # "body"
  BY <1>6, <1>10, StartKeeps
<1>12. ReportsFit(w, g, ts, n, S)
  BY <1>11 DEF ReportsFit, SameReports
<1>13. b[1].do # "body"
  BY <1>4, <1>11
<1> QED
  BY <1>11, <1>12, <1>13 DEF SyncedAt, w, g, n

\* A statement ends.
LEMMA StatementEnded ==
    ASSUME NEW a, a \in Seq(ToSet(a)), Len(a) > 1, a[1].do = "after",
           NEW ts, ts \in Seq(ToSet(ts)), NEW peek, NEW R, SyncedAt(a, ts, peek, R),
           NEW b, b \in Seq(ToSet(b)), b # <<>>, Len(b) = Len(a) - 1,
           \A m \in 2 .. Len(a) - 1 : b[m] = a[m + 1],
           b[1].do = "body", b[1].stop = a[2].stop, b[1].at = a[2].at,
           b[1].terminated <=> a[1].kind # "~" /\ (a[1].terminated \/ a[1].kind \in Jumps),
           NEW S,
           \A i \in Nat : <<"UnreachableCode", i>> \in S <=>
                             \/ <<"UnreachableCode", i>> \in R
                             \/ i = a[1].at /\ a[1].terminated /\ a[1].kind # "~"
    PROVE  /\ InStep(Pile(b), Len(b), ts, Len(ts), peek) /\ ReportsFit(Pile(b), Len(b), ts, Len(ts), S)
           /\ peek.kind \in b[1].stop \/ NeedsBreak(a[1]) => SyncedAt(b, ts, peek, S)
           /\ peek.kind \in Semicolons => \A next : SyncedAt(b, Append(ts, peek), next, S)
<1> DEFINE z == Pile(a)
           w == Pile(b)
           h == Len(a)
           g == Len(b)
           n == Len(ts)
<1>1. a # <<>>
  OBVIOUS
<1>2. h \in Nat \ {0} /\ n \in Nat /\ z[h] = a[1] /\ w[g] = b[1] /\ h > 1 /\ g = h - 1
  BY <1>1, LenProperties, PileTop
<1>3. \A m \in 2 .. h - 1 : b[m] = a[m + 1]
  OBVIOUS
<1> HIDE DEF z, w, h, g, n
<1>4. InStep(z, h, ts, n, peek) /\ ReportsFit(z, h, ts, n, R)
  BY DEF SyncedAt, z, h, n
<1>5. \A m \in 1 .. h : z[m] = a[h + 1 - m]
  BY DEF Pile, z, h
<1>6. \A m \in 1 .. g : w[m] = b[g + 1 - m]
  BY DEF Pile, w, g
<1>7. ASSUME NEW m \in 1 .. h - 2 PROVE w[m] = z[m]
  <2> DEFINE i == h - m
  <2>1. i \in 2 .. h - 1 /\ g + 1 - m = i /\ h + 1 - m = i + 1 /\ m \in 1 .. g /\ m \in 1 .. h
    BY <1>2
  <2> HIDE DEF i
  <2>2. w[m] = b[i] /\ z[m] = a[i + 1]
    BY <1>5, <1>6, <2>1
  <2> QED
    BY <1>3, <2>1, <2>2
<1>8. w[h - 1] = b[1] /\ z[h - 1] = a[2]
  <2>1. h - 1 \in 1 .. h /\ h + 1 - (h - 1) = 2
    BY <1>2
  <2> QED
    BY <1>2, <1>5, <2>1
<1>9. /\ InStep(w, h - 1, ts, n, peek) /\ ReportsFit(w, h - 1, ts, n, S)
      /\ NeedsBreak(z[h]) => n = 0 \/ ts[n].kind \in Breaks
  <2>1. /\ h \in Nat /\ h > 1 /\ z[h].do = "after" /\ w[h - 1].do = "body"
        /\ w[h - 1].stop = z[h - 1].stop /\ w[h - 1].at = z[h - 1].at
    BY <1>2, <1>8
  <2>2. w[h - 1].terminated <=> z[h].kind # "~" /\ (z[h].terminated \/ z[h].kind \in Jumps)
    BY <1>2, <1>8
  <2>3. \A i \in Nat : <<"UnreachableCode", i>> \in S <=>
                          \/ <<"UnreachableCode", i>> \in R
                          \/ i = z[h].at /\ z[h].terminated /\ z[h].kind # "~"
    BY <1>2
  <2>4. /\ n \in Nat /\ InStep(z, h, ts, n, peek) /\ ReportsFit(z, h, ts, n, R)
        /\ \A m \in 1 .. h - 2 : w[m] = z[m]
    BY <1>2, <1>4, <1>7
  <2> QED
    BY ONLY <2>1, <2>2, <2>3, <2>4, EndKeeps
<1>10. InStep(w, g, ts, n, peek) /\ ReportsFit(w, g, ts, n, S)
  BY <1>2, <1>9
<1>11. ASSUME peek.kind \in b[1].stop \/ NeedsBreak(a[1]) PROVE SyncedAt(b, ts, peek, S)
  <2>1. n = 0 \/ ts[n].kind \in Breaks \/ peek.kind \in b[1].stop
    BY <1>2, <1>9, <1>11
  <2> QED
    BY <1>10, <2>1 DEF SyncedAt, w, g, n
<1>12. ASSUME peek.kind \in Semicolons, NEW next PROVE SyncedAt(b, Append(ts, peek), next, S)
  BY <1>10, <1>12, SemicolonSkipped DEF w, g, n
<1> QED
  BY <1>10, <1>11, <1>12 DEF w, g, n

\* The inductive invariant of the reports: while a text is parsed, what is left to do is
\* in step with what has been taken; when it is parsed, the reports are those of the text.
StackInv ==
    /\ ParserInv
    /\ verdict = "parsing" => SyncedAt(agenda, tokens, look, reports)
    /\ verdict = "parsed" =>
          /\ tokens \in Seq(ToSet(tokens))
          /\ \A i \in Nat : <<"UnreachableCode", i>> \in reports <=>
                               i \in 1 .. Len(tokens) /\ BehindJump(tokens, i)

\* Kinds of tokens that are neither keywords of blocks nor separators.
LEMMA OtherWords ==
    \A k \in {"expr", "val", "="} : /\ k \notin Openers /\ k \notin Ends /\ k \notin Middles
                                   /\ k \notin NoStart /\ k \notin Breaks
<1>1. \A k \in {"expr", "val", "="} : k \notin Openers /\ k \notin Ends /\ k \notin Middles
  BY DEF Openers, MethodKinds, Ends, Middles
<1>2. \A k \in {"expr", "val", "="} : k \notin NoStart
  BY Zenon DEF NoStart, Closers, Ends, Middles
<1>3. \A k \in {"expr", "val", "="} : k \notin Breaks
  BY Zenon DEF Breaks
<1> QED
  BY <1>1, <1>2, <1>3

\* Nothing takes the place of what is done.
LEMMA NothingLeft ==
    ASSUME NEW d
    PROVE  Yields(d, <<>>) /\ <<>> \in Seq(ToSet(<<>>))
  BY DEF Yields, ToSet

\* Such a token is taken inside of a statement.
LEMMA WordFits ==
    ASSUME NEW d, Flat(d), NeedsInside(d), ~ LeavesBreak(d), d.do # "method",
           NEW peek, peek.kind \in {"expr", "val", "="}, NEW p,
           p # <<>> => ~ NeedsBreak(p[1]) /\ ~ TakesEnd(p[Len(p)])
    PROVE  FitsFor(d, p, peek)
<1>1. /\ peek.kind \notin Openers /\ peek.kind \notin Ends /\ peek.kind \notin Middles
      /\ peek.kind \notin NoStart /\ peek.kind \notin Breaks
  BY OtherWords
<1>2. ~ TakesEnd(d) /\ ~ TakesOpener(d) /\ ~ TakesMiddle(d) /\ ~ Gating(d)
  BY DEF Flat, Continuing, Gating
<1> QED
  BY <1>1, <1>2 DEF FitsFor

\* The token that is to be taken is taken.
LEMMA TokenFits ==
    ASSUME NEW d, d.do = "take", NEW peek, peek.kind = d.kind
    PROVE  FitsFor(d, <<>>, peek)
<1>1. /\ TakesEnd(d) <=> d.kind \in Ends
      /\ TakesOpener(d) <=> d.kind \in Openers
      /\ TakesMiddle(d) <=> d.kind \in Middles
      /\ NeedsInside(d) <=> d.kind \notin NoStart
      /\ LeavesInside(d) <=> d.kind \notin Breaks
      /\ LeavesBreak(d) <=> d.kind \in Breaks
  BY TakeIs
<1> DEFINE p == <<>>
<1>2. p = <<>>
  OBVIOUS
<1> HIDE DEF p
<1>3. FitsFor(d, p, peek)
  BY <1>1, <1>2 DEF FitsFor
<1> QED
  BY <1>3 DEF p

\* The parser goes on after a token, or without one.
LEMMA StackGoesOn ==
    ASSUME StackInv, ParserInv', verdict = "parsing", verdict' = verdict,
           agenda[1].do \notin {"body", "after", "enter"},
           NEW p, p \in Seq(ToSet(p)), Yields(agenda[1], p),
           NEW b, b = p \o Tail(agenda) \/ (p = <<>> /\ b = Tail(agenda)),
           SameReports(reports, reports'),
           \/ Consume(b) /\ FitsFor(agenda[1], p, look)
           \/ agenda' = b /\ UNCHANGED <<tokens, look>> /\ SkipsFor(agenda[1], p)
    PROVE  StackInv'
<1>1. /\ SyncedAt(agenda, tokens, look, reports) /\ agenda \in Seq(ToSet(agenda)) /\ agenda # <<>>
      /\ tokens \in Seq(ToSet(tokens))
  BY DEF StackInv, ParserInv, ListFits, TextFits
<1>2. agenda' \in Seq(ToSet(agenda')) /\ agenda' # <<>>
  BY DEF ParserInv, ListFits
<1>3. agenda' = b
  BY DEF Consume
<1>4. CASE Consume(b) /\ FitsFor(agenda[1], p, look)
  <2>1. tokens' = Append(tokens, look)
    BY <1>4 DEF Consume
  <2>2. \A next : SyncedAt(b, Append(tokens, look), next, reports')
    BY <1>1, <1>2, <1>3, <1>4, TokenTaken
  <2>3. SyncedAt(agenda', tokens', look', reports')
    BY <1>3, <2>1, <2>2
  <2> QED
    BY <2>3 DEF StackInv
<1>5. CASE agenda' = b /\ UNCHANGED <<tokens, look>> /\ SkipsFor(agenda[1], p)
  <2>1. SyncedAt(b, tokens, look, reports')
    BY <1>1, <1>2, <1>3, <1>5, NothingTaken
  <2>2. SyncedAt(agenda', tokens', look', reports')
    BY <1>3, <1>5, <2>1
  <2> QED
    BY <2>2 DEF StackInv
<1> QED
  BY <1>4, <1>5

\* What stands inside of a statement, and what stands at the beginning of one.
LEMMA WithinWord ==
    \A d : d.do \in {"read", "ignore", "name"} => Flat(d) /\ NeedsInside(d) /\ ~ LeavesBreak(d)
  BY DEF Flat, Usual, Continuing, Gating, TakesOpener, TakesMiddle, TakesEnd, AsksBranch, NeedsBreak,
         NeedsInside, LeavesBreak

\* An expression at the beginning of a statement, and what is behind it.
LEMMA BeginningWord ==
    \A d : d.do \in {"target", "assign"} => Flat(d) /\ NeedsInside(d) /\ ~ LeavesBreak(d)
  BY BlocksAre

\* It is taken there, if it is there.
TakesExport(d) == d.do = "header end" \/ (d.do = "accept" /\ d.kind = "export")

\* The export of a variable, and of a method.
LEMMA ExportFits ==
    ASSUME NEW d, TakesExport(d), NEW peek, peek.kind = "export"
    PROVE  FitsFor(d, <<>>, peek)
<1> DEFINE p == <<>>
<1>1. p = <<>>
  OBVIOUS
<1>2. "export" \notin Openers /\ "export" \notin Ends /\ "export" \notin Middles
  BY DEF Openers, MethodKinds, Ends, Middles
<1>3. "export" \in NoStart /\ "export" \in Breaks
  BY Zenon DEF NoStart, Breaks
<1>4. /\ ~ TakesEnd(d) /\ ~ TakesOpener(d) /\ ~ TakesMiddle(d) /\ ~ NeedsInside(d) /\ ~ LeavesInside(d)
  BY DEF TakesExport, TakesEnd, TakesOpener, TakesMiddle, NeedsInside, LeavesInside
<1> HIDE DEF p
<1>5. FitsFor(d, p, peek)
  BY <1>1, <1>2, <1>3, <1>4 DEF FitsFor, TakesExport
<1> QED
  BY <1>5 DEF p

\* The keyword of a method.
LEMMA MethodFits ==
    ASSUME NEW d, d.do = "method", NEW peek, peek.kind \in MethodKinds,
           NEW p, p # <<>>, ~ NeedsBreak(p[1]), TakesEnd(p[Len(p)])
    PROVE  FitsFor(d, p, peek)
<1>1. peek.kind \in Openers /\ peek.kind \notin Breaks
  BY WordsDiffer
<1>2. peek.kind \notin Ends /\ peek.kind \notin Middles /\ peek.kind \notin NoStart
  BY <1>1, KindsDiffer
<1>3. NeedsInside(d) /\ ~ TakesEnd(d) /\ ~ TakesOpener(d) /\ ~ TakesMiddle(d) /\ ~ Gating(d)
  BY DEF NeedsInside, TakesEnd, TakesOpener, TakesMiddle, Gating
<1> QED
  BY <1>1, <1>2, <1>3 DEF FitsFor

\* The list of things after the end of a statement, under a name of its own.
LEMMA RestOfEnd ==
    ASSUME NEW s, ListFits(s), s[1].do = "after", NEW terminated,
           NEW b, b = [s[2] EXCEPT !.empty = FALSE, !.terminated = terminated],
           NEW r, r = <<b>> \o SubSeq(s, 3, Len(s))
    PROVE  ListFits(r) /\ LaidBack(s, terminated, r)
<1> DEFINE c == [s[2] EXCEPT !.empty = FALSE, !.terminated = terminated]
           q == <<c>> \o SubSeq(s, 3, Len(s))
<1>1. ListFits(q) /\ LaidBack(s, terminated, q)
  BY ONLY ListFits(s), s[1].do = "after", EndFits
<1>2. r = q
  OBVIOUS
<1> HIDE DEF q
<1> QED
  BY ONLY <1>1, <1>2

\* What EndStatement does: it fails, or the block under the statement is the first thing again,
\* behind the semicolon if there is one.
LEMMA EndDoes ==
    ASSUME EndStatement
    PROVE  \/ Fail
           \/ \E block, rest :
                 /\ block = [agenda[2] EXCEPT !.empty = FALSE,
                                  !.terminated = Terminated(Head1.kind, Head1.terminated)]
                 /\ rest = <<block>> \o SubSeq(agenda, 3, Len(agenda))
                 /\ look.kind \in Semicolons \/ look.kind \in block.stop \/ NeedsBreak(agenda[1])
                 /\ \/ look.kind \in Semicolons /\ Consume(rest)
                    \/ look.kind \notin Semicolons /\ agenda' = rest /\ UNCHANGED <<tokens, look>>
                 /\ reports' = reports \cup IF Head1.terminated /\ Head1.kind # "~"
                                            THEN {<<"UnreachableCode", Head1.at>>} ELSE {}
                 /\ verdict' = verdict
  BY Zenon DEF EndStatement, Doing, Head1, Semicolons, NeedsBreak

\* A statement ends, or the parsing does.
LEMMA EndKeepsStack ==
    ASSUME StackInv, ParserInv', verdict = "parsing", EndStatement
    PROVE  StackInv'
<1>1. /\ SyncedAt(agenda, tokens, look, reports) /\ ListFits(agenda) /\ agenda \in Seq(ToSet(agenda))
      /\ agenda # <<>> /\ tokens \in Seq(ToSet(tokens))
  BY DEF StackInv, ParserInv, ListFits, TextFits
<1>2. agenda[1].do = "after" /\ Head1 = agenda[1]
  BY DEF EndStatement, Doing, Head1
<1>3. Len(agenda) > 1
  <2>1. DOMAIN agenda = 1 .. Len(agenda) /\ Len(agenda) \in Nat \ {0}
    BY <1>1, RestFact
  <2>2. 1 \in DOMAIN agenda
    BY <2>1
  <2>3. 1 + 1 \in DOMAIN agenda
    BY <1>1, <1>2, <2>2 DEF ListFits
  <2> QED
    BY <2>1, <2>3
<1>4. CASE Fail
  BY <1>4 DEF Fail, StackInv
<1>5. ASSUME NEW block, NEW rest, NEW t, t = Terminated(Head1.kind, Head1.terminated),
             block = [agenda[2] EXCEPT !.empty = FALSE, !.terminated = t],
             rest = <<block>> \o SubSeq(agenda, 3, Len(agenda)),
             look.kind \in Semicolons \/ look.kind \in block.stop \/ NeedsBreak(agenda[1]),
             \/ look.kind \in Semicolons /\ Consume(rest)
             \/ look.kind \notin Semicolons /\ agenda' = rest /\ UNCHANGED <<tokens, look>>,
             reports' = reports \cup IF Head1.terminated /\ Head1.kind # "~"
                                     THEN {<<"UnreachableCode", Head1.at>>} ELSE {},
             verdict' = verdict
      PROVE  StackInv'
  <2>1. /\ ListFits(rest) /\ rest \in Seq(ToSet(rest)) /\ rest # <<>>
        /\ Len(rest) = Len(agenda) - 1 /\ rest[1].do = "body"
        /\ rest[1].stop = agenda[2].stop /\ rest[1].at = agenda[2].at /\ rest[1].terminated = t
        /\ \A n \in 2 .. Len(agenda) - 1 : rest[n] = agenda[n + 1]
    <3>1. ListFits(agenda) /\ agenda[1].do = "after"
      BY <1>1, <1>2
    <3>2. /\ block = [agenda[2] EXCEPT !.empty = FALSE, !.terminated = t]
          /\ rest = <<block>> \o SubSeq(agenda, 3, Len(agenda))
      BY <1>5
    <3>3. ListFits(rest) /\ LaidBack(agenda, t, rest)
      BY ONLY <3>1, <3>2, RestOfEnd
    <3> QED
      BY ONLY <3>3 DEF ListFits, LaidBack
  <2>2. block.stop = rest[1].stop
    <3>1. rest[1] = block
      <4> DEFINE q == SubSeq(agenda, 3, Len(agenda))
      <4>1. rest = <<block>> \o q /\ q \in Seq(ToSet(agenda))
        BY <1>1, <1>3, <1>5
      <4> HIDE DEF q
      <4> QED
        BY ONLY <4>1
    <3> QED
      BY <3>1
  <2>3. rest[1].terminated <=> agenda[1].kind # "~" /\ (agenda[1].terminated \/ agenda[1].kind \in Jumps)
    BY <1>2, <1>5, <2>1, Zenon DEF Terminated
  <2>4. \A i \in Nat : <<"UnreachableCode", i>> \in reports' <=>
                          \/ <<"UnreachableCode", i>> \in reports
                          \/ i = agenda[1].at /\ agenda[1].terminated /\ agenda[1].kind # "~"
    BY <1>2, <1>5
  <2>5. /\ look.kind \in rest[1].stop \/ NeedsBreak(agenda[1]) => SyncedAt(rest, tokens, look, reports')
        /\ look.kind \in Semicolons => \A next : SyncedAt(rest, Append(tokens, look), next, reports')
    BY ONLY <1>1, <1>2, <1>3, <2>1, <2>3, <2>4, StatementEnded
  <2>6. CASE look.kind \in Semicolons
    <3>1. agenda' = rest /\ tokens' = Append(tokens, look)
      BY <1>5, <2>6 DEF Consume
    <3>2. SyncedAt(agenda', tokens', look', reports')
      BY <2>5, <2>6, <3>1
    <3> QED
      BY <1>5, <3>2 DEF StackInv
  <2>7. CASE look.kind \notin Semicolons
    <3>1. agenda' = rest /\ UNCHANGED <<tokens, look>>
      BY <1>5, <2>7
    <3>2. SyncedAt(rest, tokens, look, reports')
      BY <1>5, <2>2, <2>5, <2>7
    <3>3. SyncedAt(agenda', tokens', look', reports')
      BY <3>1, <3>2
    <3> QED
      BY <1>5, <3>3 DEF StackInv
  <2> QED
    BY <2>6, <2>7
<1> QED
  BY <1>4, <1>5, EndDoes, Zenon

\* Every step of the parser that does not end the parsing keeps it.
LEMMA StackStep ==
    ASSUME StackInv, ParserNext
    PROVE  StackInv'
<1>1. verdict = "parsing" /\ agenda # <<>>
  BY DEF ParserNext, Doing, TakeToken, AcceptToken, Decide, Expression, TakeName, EnterBlock,
         LeaveBlock, EmptyStatement, StartStatement, EndStatement, StartMethod, EndHeader,
         StartExpression, AssignOrCall
<1>2. ParserInv /\ ParserInv'
  BY ParserStep DEF StackInv
<1>3. /\ SyncedAt(agenda, tokens, look, reports) /\ ListFits(agenda) /\ agenda \in Seq(ToSet(agenda))
      /\ tokens \in Seq(ToSet(tokens)) /\ Len(agenda) \in Nat \ {0} /\ 1 \in DOMAIN agenda
      /\ Sound(agenda[1])
  <2>1. /\ SyncedAt(agenda, tokens, look, reports) /\ ListFits(agenda) /\ agenda \in Seq(ToSet(agenda))
        /\ tokens \in Seq(ToSet(tokens))
    BY <1>1 DEF StackInv, ParserInv, ListFits, TextFits
  <2>2. DOMAIN agenda = 1 .. Len(agenda) /\ Len(agenda) \in Nat \ {0}
    BY <1>1, <2>1, RestFact
  <2>3. 1 \in DOMAIN agenda
    BY <2>2
  <2> QED
    BY <2>1, <2>2, <2>3 DEF ListFits
<1>4. verdict' = "parsing" => agenda' \in Seq(ToSet(agenda')) /\ agenda' # <<>>
  BY <1>2 DEF ParserInv, ListFits
<1>5. Fail => StackInv'
  BY <1>2 DEF Fail, StackInv
<1>6. SameReports(reports, reports)
  BY DEF SameReports
<1>7. ASSUME NEW r, r[1] # "UnreachableCode", reports' \in {reports, reports \cup {r}, reports \cup {}}
      PROVE  SameReports(reports, reports')
  BY <1>7 DEF SameReports
<1>8. Yields(agenda[1], <<>>) /\ <<>> \in Seq(ToSet(<<>>))
  BY NothingLeft
<1>9. ASSUME agenda[1].do \notin {"body", "after", "enter"}, verdict' = verdict,
             SameReports(reports, reports'),
             \/ Consume(Tail(agenda)) /\ FitsFor(agenda[1], <<>>, look)
             \/ agenda' = Tail(agenda) /\ UNCHANGED <<tokens, look>> /\ SkipsFor(agenda[1], <<>>)
      PROVE  StackInv'
  <2> DEFINE p == <<>>
             b == Tail(agenda)
  <2>1. p = <<>> /\ Yields(agenda[1], p) /\ p \in Seq(ToSet(p))
    BY <1>8
  <2>2. b = p \o Tail(agenda) \/ (p = <<>> /\ b = Tail(agenda))
    OBVIOUS
  <2>3. \/ Consume(b) /\ FitsFor(agenda[1], p, look)
        \/ agenda' = b /\ UNCHANGED <<tokens, look>> /\ SkipsFor(agenda[1], p)
    BY <1>9
  <2> HIDE DEF p, b
  <2> QED
    BY <1>1, <1>2, <1>9, <2>1, <2>2, <2>3, StackGoesOn
<1>10. CASE TakeToken
  <2>1. CASE look.kind # Head1.kind \/ look.kind = "eof"
    BY <1>5, <1>10, <2>1 DEF TakeToken
  <2>2. CASE ~ (look.kind # Head1.kind \/ look.kind = "eof")
    <3>1. /\ Consume(Tail(agenda)) /\ verdict' = verdict /\ reports' = reports
          /\ agenda[1].do = "take" /\ look.kind = agenda[1].kind
      BY <1>10, <2>2 DEF TakeToken, Doing, Head1
    <3>2. FitsFor(agenda[1], <<>>, look)
      BY <3>1, TokenFits
    <3> QED
      BY <1>6, <1>9, <3>1, <3>2
  <2> QED
    BY <2>1, <2>2
<1>11. CASE AcceptToken
  <2>1. agenda[1].do = "accept" /\ verdict' = verdict /\ reports' = reports
    BY <1>11 DEF AcceptToken, Doing, Head1
  <2>2. agenda[1].kind \in {"val", "export"}
    <3>1. StackFits(Pile(agenda), Len(agenda)) /\ Pile(agenda)[Len(agenda)] = agenda[1]
      BY <1>1, <1>3, PileTop DEF SyncedAt, InStep
    <3> DEFINE z == Pile(agenda)
               h == Len(agenda)
    <3>2. StackFits(z, h) /\ z[h] = agenda[1] /\ h \in Nat \ {0}
      BY <1>3, <3>1
    <3> HIDE DEF z, h
    <3>3. h # 1
      BY <2>1, <3>2 DEF StackFits
    <3>4. h \in 2 .. h
      BY <3>2, <3>3
    <3>5. Usual(z[h])
      BY <3>2, <3>4 DEF StackFits
    <3> QED
      BY <2>1, <3>2, <3>5 DEF Usual
  <2>3. CASE look.kind = agenda[1].kind
    <3>1. Consume(Tail(agenda))
      BY <1>11, <2>3 DEF AcceptToken, Head1
    <3>2. CASE agenda[1].kind = "val"
      <4>1. Flat(agenda[1]) /\ NeedsInside(agenda[1]) /\ ~ LeavesBreak(agenda[1])
        BY <2>1, <3>2 DEF Flat, Usual, Continuing, Gating, TakesOpener, TakesMiddle, TakesEnd,
                          AsksBranch, NeedsBreak, NeedsInside, LeavesBreak
      <4>2. FitsFor(agenda[1], <<>>, look)
        BY <2>1, <2>3, <3>2, <4>1, WordFits
      <4> QED
        BY <1>6, <1>9, <2>1, <3>1, <4>2
    <3>3. CASE agenda[1].kind = "export"
      <4>1. FitsFor(agenda[1], <<>>, look)
        <5>1. TakesExport(agenda[1]) /\ look.kind = "export"
          BY <2>1, <2>3, <3>3 DEF TakesExport
        <5> QED
          BY ONLY <5>1, ExportFits
      <4> QED
        BY <1>6, <1>9, <2>1, <3>1, <4>1
    <3> QED
      BY <2>2, <3>2, <3>3
  <2>4. CASE look.kind # agenda[1].kind
    <3>1. agenda' = Tail(agenda) /\ UNCHANGED <<tokens, look>>
      BY <1>11, <2>4 DEF AcceptToken, Head1
    <3>2. SkipsFor(agenda[1], <<>>)
      BY <2>1 DEF SkipsFor, LeavesInside, NeedsInside, LeavesBreak, NeedsBreak
    <3> QED
      BY <1>6, <1>9, <2>1, <3>1, <3>2
  <2> QED
    BY <2>3, <2>4
<1>12. CASE Decide
  <2> DEFINE p == Chosen(agenda[1].what, look.kind)
             b == p \o Tail(agenda)
  <2>1. /\ agenda[1].do = "choose" /\ agenda[1].what \in Decisions
        /\ agenda' = b /\ UNCHANGED <<tokens, look, verdict>>
    BY <1>3, <1>12 DEF Decide, Doing, Head1, Sound
  <2>2. SameReports(reports, reports')
    <3> DEFINE r == <<"ParseError", Len(tokens)>>
    <3>1. r[1] # "UnreachableCode"
      OBVIOUS
    <3>2. reports' \in {reports, reports \cup {r}, reports \cup {}}
      BY <1>12 DEF Decide
    <3> HIDE DEF r
    <3> QED
      BY <1>7, <3>1, <3>2
  <2>3. /\ Yields(agenda[1], p) /\ p \in Seq(ToSet(p))
        /\ p # <<>> => /\ NeedsInside(p[1]) => NeedsInside(agenda[1])
                       /\ ~ NeedsBreak(p[1]) /\ ~ TakesEnd(p[Len(p)])
    <3>1. p \in Seq(ToSet(p))
      BY <2>1, ChosenIsPlain DEF Plain
    <3> QED
      BY <2>1, <3>1, ChosenYields
  <2>4. b = p \o Tail(agenda) \/ (p = <<>> /\ b = Tail(agenda))
    OBVIOUS
  <2> HIDE DEF p, b
  <2>5. SkipsFor(agenda[1], p)
    <3>1. /\ LeavesInside(agenda[1]) => NeedsInside(agenda[1])
          /\ LeavesBreak(agenda[1]) => NeedsBreak(agenda[1])
      BY <2>1 DEF LeavesInside, NeedsInside, LeavesBreak, NeedsBreak
    <3> QED
      BY <2>1, <2>3, <3>1 DEF SkipsFor
  <2>6. agenda[1].do \notin {"body", "after", "enter"} /\ verdict' = verdict
    BY <2>1
  <2> QED
    BY <1>1, <1>2, <2>1, <2>2, <2>3, <2>4, <2>5, <2>6, StackGoesOn
<1>13. CASE Expression
  <2>1. CASE TooDeep \/ look.kind # "expr"
    BY <1>5, <1>13, <2>1 DEF Expression
  <2>2. CASE ~ (TooDeep \/ look.kind # "expr")
    <3>1. /\ Consume(Tail(agenda)) /\ verdict' = verdict /\ reports' = reports
          /\ agenda[1].do \in {"read", "ignore"} /\ look.kind \in {"expr", "val", "="}
      BY <1>13, <2>2 DEF Expression, Doing, Head1
    <3>2. FitsFor(agenda[1], <<>>, look)
      BY <3>1, WithinWord, WordFits
    <3> QED
      BY <1>6, <1>9, <3>1, <3>2
  <2> QED
    BY <2>1, <2>2
<1>14. CASE TakeName
  <2>1. CASE look.kind # "expr" \/ look.node # "identifier"
    BY <1>5, <1>14, <2>1 DEF TakeName
  <2>2. CASE ~ (look.kind # "expr" \/ look.node # "identifier")
    <3>1. /\ Consume(Tail(agenda)) /\ verdict' = verdict
          /\ agenda[1].do = "name" /\ look.kind \in {"expr", "val", "="}
      BY <1>14, <2>2 DEF TakeName, Doing, Head1
    <3>2. SameReports(reports, reports')
      <4> DEFINE r == <<"DuplicateParameter", Len(tokens) + 1>>
      <4>1. r[1] # "UnreachableCode"
        OBVIOUS
      <4>2. reports' \in {reports, reports \cup {r}, reports \cup {}}
        BY <1>14, <2>2 DEF TakeName
      <4> HIDE DEF r
      <4> QED
        BY <1>7, <4>1, <4>2
    <3>3. FitsFor(agenda[1], <<>>, look)
      BY <3>1, WithinWord, WordFits
    <3> QED
      BY <1>9, <3>1, <3>2, <3>3
  <2> QED
    BY <2>1, <2>2
<1>15. CASE EnterBlock
  <2>1. CASE TooDeep
    BY <1>5, <1>15, <2>1 DEF EnterBlock
  <2>2. CASE ~ TooDeep
    <3>1. /\ agenda[1].do = "enter"
          /\ agenda' = <<Block(agenda[1].stop, Len(tokens))>> \o Tail(agenda)
          /\ UNCHANGED <<tokens, look, reports, verdict>>
      BY <1>15, <2>2 DEF EnterBlock, Doing, Head1
    <3>2. agenda' \in Seq(ToSet(agenda')) /\ agenda' # <<>>
      BY <1>1, <1>4, <3>1
    <3>3. SyncedAt(agenda', tokens, look, reports)
      BY <1>1, <1>3, <3>1, <3>2, BlockEntered
    <3>4. SyncedAt(agenda', tokens', look', reports')
      BY <3>1, <3>3
    <3> QED
      BY <1>1, <1>2, <3>1, <3>4 DEF StackInv
  <2> QED
    BY <2>1, <2>2
<1>16. CASE LeaveBlock
  <2>1. /\ agenda[1].do = "body" /\ look.kind \in agenda[1].stop /\ agenda' = Tail(agenda)
        /\ verdict' = IF look.kind = "eof" THEN "parsed" ELSE verdict
        /\ UNCHANGED <<tokens, look>>
    BY <1>16 DEF LeaveBlock, Doing, Head1
  <2>2. SameReports(reports, reports')
    <3> DEFINE r == <<"EmptyExcept", agenda[1].at>>
    <3>1. r[1] # "UnreachableCode"
      OBVIOUS
    <3>2. reports' \in {reports, reports \cup {r}, reports \cup {}}
      BY <1>16 DEF LeaveBlock, Head1
    <3> HIDE DEF r
    <3> QED
      BY <1>7, <3>1, <3>2
  <2>3. CASE look.kind = "eof"
    <3>1. \A i \in Nat : <<"UnreachableCode", i>> \in reports' <=>
                            i \in 1 .. Len(tokens) /\ BehindJump(tokens, i)
      BY <1>1, <1>3, <2>1, <2>2, <2>3, TextEnds
    <3>2. \A i \in Nat : <<"UnreachableCode", i>> \in reports' <=>
                            i \in 1 .. Len(tokens') /\ BehindJump(tokens', i)
      BY <2>1, <3>1
    <3> QED
      BY <1>2, <1>3, <2>1, <2>3, <3>2 DEF StackInv
  <2>4. CASE look.kind # "eof"
    <3>1. Len(agenda) # 1
      <4>1. Len(agenda) = 1 => agenda[1].stop = {"eof"}
        BY <1>3 DEF ListFits
      <4> QED
        BY <2>1, <2>4, <4>1
    <3>2. Len(agenda) > 1
      <4> DEFINE k == Len(agenda)
      <4>1. k \in Nat \ {0} /\ k # 1
        BY <1>3, <3>1
      <4>2. k > 1
        <5> HIDE DEF k
        <5> QED
          BY ONLY <4>1
      <4> QED
        BY <4>2
    <3>3. agenda' \in Seq(ToSet(agenda')) /\ agenda' # <<>> /\ verdict' = "parsing"
      BY <1>1, <1>4, <2>1, <2>4
    <3>4. SyncedAt(agenda', tokens, look, reports')
      BY <1>3, <2>1, <2>2, <3>2, <3>3, BlockLeft
    <3>5. SyncedAt(agenda', tokens', look', reports')
      BY <2>1, <3>4
    <3> QED
      BY <1>2, <3>3, <3>5 DEF StackInv
  <2> QED
    BY <2>3, <2>4
<1>17. CASE EmptyStatement
  <2>1. look.kind \in Semicolons
    BY <1>17, Zenon DEF EmptyStatement, Semicolons
  <2>2. /\ agenda[1].do = "body" /\ Consume(agenda) /\ UNCHANGED <<reports, verdict>>
    BY <1>17, Zenon DEF EmptyStatement, Doing, Head1
  <2>3. tokens' = Append(tokens, look) /\ agenda' = agenda
    BY <2>2 DEF Consume
  <2>4. /\ InStep(Pile(agenda), Len(agenda), tokens, Len(tokens), look)
        /\ ReportsFit(Pile(agenda), Len(agenda), tokens, Len(tokens), reports)
    BY <1>3 DEF SyncedAt
  <2>5. \A next : SyncedAt(agenda, Append(tokens, look), next, reports)
    BY <1>1, <1>3, <2>1, <2>2, <2>4, SemicolonSkipped
  <2>6. SyncedAt(agenda', tokens', look', reports')
    BY <2>2, <2>3, <2>5
  <2> QED
    BY <1>1, <1>2, <2>2, <2>6 DEF StackInv
<1>18. CASE StartStatement
  <2>1. \/ Fail
        \/ /\ UNCHANGED <<tokens, look, verdict>>
           /\ agenda' = Statement(look.kind) \o <<AfterIt(look.kind)>> \o agenda
           /\ reports' = reports \cup IF Misplaced(look.kind)
                                      THEN {<<"ParseError", Len(tokens) + 1>>} ELSE {}
    BY <1>18, Zenon DEF StartStatement
  <2>2. agenda[1].do = "body" /\ look.kind \notin agenda[1].stop
    BY <1>18, Zenon DEF StartStatement, Doing, Head1
  <2>3. CASE /\ UNCHANGED <<tokens, look, verdict>>
             /\ agenda' = Statement(look.kind) \o <<AfterIt(look.kind)>> \o agenda
             /\ reports' = reports \cup IF Misplaced(look.kind)
                                        THEN {<<"ParseError", Len(tokens) + 1>>} ELSE {}
    <3>1. SameReports(reports, reports')
      <4> DEFINE r == <<"ParseError", Len(tokens) + 1>>
      <4>1. r[1] # "UnreachableCode"
        OBVIOUS
      <4>2. reports' \in {reports, reports \cup {r}, reports \cup {}}
        BY <2>3
      <4> HIDE DEF r
      <4> QED
        BY <1>7, <4>1, <4>2
    <3> DEFINE x == AfterIt(look.kind)
    <3>2. /\ x.do = "after" /\ x.kind = look.kind /\ x.at = Len(tokens) + 1
          /\ x.terminated <=> agenda[1].terminated /\ look.after = "no"
      BY DEF AfterIt, After, Head1
    <3>3. agenda' = Statement(look.kind) \o <<x>> \o agenda
      BY <2>3
    <3> HIDE DEF x
    <3>4. agenda' \in Seq(ToSet(agenda')) /\ agenda' # <<>>
      BY <1>1, <1>4, <2>3
    <3>5. SyncedAt(agenda', tokens, look, reports')
      BY <1>1, <1>3, <2>2, <3>1, <3>2, <3>3, <3>4, StatementStarted
    <3>6. SyncedAt(agenda', tokens', look', reports')
      BY <2>3, <3>5
    <3> QED
      BY <1>1, <1>2, <2>3, <3>6 DEF StackInv
  <2> QED
    BY <1>5, <2>1, <2>3
<1>19. CASE EndStatement
  BY <1>1, <1>2, <1>3, <1>4, <1>5, <1>19, EndKeepsStack
<1>20. CASE StartMethod
  <2>1. CASE look.kind \notin MethodKinds
    BY <1>5, <1>20, <2>1 DEF StartMethod
  <2>2. CASE look.kind \in MethodKinds
    <3> DEFINE p == MethodRest(look.kind)
               b == p \o Tail(agenda)
    <3>1. Consume(b) /\ UNCHANGED <<reports, verdict>> /\ agenda[1].do = "method"
      BY <1>20, <2>2 DEF StartMethod, Doing, Head1
    <3>2. /\ Yields(agenda[1], p) /\ p # <<>> /\ p \in Seq(ToSet(p))
          /\ ~ NeedsBreak(p[1]) /\ TakesEnd(p[Len(p)])
      BY <3>1, MethodYields
    <3>3. b = p \o Tail(agenda) \/ (p = <<>> /\ b = Tail(agenda))
      OBVIOUS
    <3> HIDE DEF p, b
    <3>4. FitsFor(agenda[1], p, look)
      BY <2>2, <3>1, <3>2, MethodFits
    <3>5. agenda[1].do \notin {"body", "after", "enter"} /\ verdict' = verdict /\ reports' = reports
      BY <3>1
    <3> QED
      BY <1>1, <1>2, <1>6, <3>1, <3>2, <3>3, <3>4, <3>5, StackGoesOn
  <2> QED
    BY <2>1, <2>2
<1>21. CASE EndHeader
  <2>1. agenda[1].do = "header end" /\ UNCHANGED <<reports, verdict>>
    BY <1>21 DEF EndHeader, Doing, Head1
  <2>2. CASE look.kind = "export"
    <3>1. Consume(Tail(agenda))
      BY <1>21, <2>2 DEF EndHeader
    <3>2. FitsFor(agenda[1], <<>>, look)
      <4>1. TakesExport(agenda[1]) /\ look.kind = "export"
        BY <2>1, <2>2 DEF TakesExport
      <4> QED
        BY ONLY <4>1, ExportFits
    <3> QED
      BY <1>6, <1>9, <2>1, <3>1, <3>2
  <2>3. CASE look.kind # "export"
    <3>1. agenda' = Tail(agenda) /\ UNCHANGED <<tokens, look>>
      BY <1>21, <2>3 DEF EndHeader
    <3>2. SkipsFor(agenda[1], <<>>)
      BY <2>1 DEF SkipsFor, LeavesInside, NeedsInside, LeavesBreak, NeedsBreak
    <3> QED
      BY <1>6, <1>9, <2>1, <3>1, <3>2
  <2> QED
    BY <2>2, <2>3
<1>22. CASE StartExpression
  <2> DEFINE e == [do |-> "assign", node |-> look.node, names |-> look.names]
             p == <<e>>
             b == p \o Tail(agenda)
  <2>1. CASE TooDeep \/ look.kind # "expr"
    BY <1>5, <1>22, <2>1 DEF StartExpression
  <2>2. CASE ~ (TooDeep \/ look.kind # "expr")
    <3>1. /\ Consume(b) /\ UNCHANGED <<reports, verdict>>
          /\ agenda[1].do = "target" /\ look.kind \in {"expr", "val", "="}
      BY <1>22, <2>2 DEF StartExpression, Doing, Head1
    <3>2. e.do = "assign"
      OBVIOUS
    <3>3. b = p \o Tail(agenda) \/ (p = <<>> /\ b = Tail(agenda))
      OBVIOUS
    <3> HIDE DEF e, b
    <3>4. /\ Yields(agenda[1], p) /\ p # <<>> /\ p \in Seq(ToSet(p)) /\ Len(p) = 1 /\ p[1] = e
          /\ Flat(e)
      BY <3>1, <3>2, TargetYields
    <3> HIDE DEF p
    <3>5. FitsFor(agenda[1], p, look)
      BY <3>1, <3>4, BeginningWord, WordFits DEF Flat
    <3>6. agenda[1].do \notin {"body", "after", "enter"} /\ verdict' = verdict /\ reports' = reports
      BY <3>1
    <3> QED
      BY <1>1, <1>2, <1>6, <3>1, <3>3, <3>4, <3>5, <3>6, StackGoesOn
  <2> QED
    BY <2>1, <2>2
<1>23. CASE AssignOrCall
  <2>1. agenda[1].do = "assign"
    BY <1>23 DEF AssignOrCall, Doing, Head1
  <2>2. \/ Fail
        \/ /\ look.kind = "=" /\ Consume(<<Read>> \o Tail(agenda)) /\ UNCHANGED <<reports, verdict>>
        \/ agenda' = Tail(agenda) /\ UNCHANGED <<tokens, look, reports, verdict>>
    BY <1>23 DEF AssignOrCall
  <2>3. CASE look.kind = "=" /\ Consume(<<Read>> \o Tail(agenda)) /\ UNCHANGED <<reports, verdict>>
    <3> DEFINE p == <<Read>>
               b == p \o Tail(agenda)
    <3>1. Consume(b) /\ look.kind \in {"expr", "val", "="}
      BY <2>3
    <3>2. b = p \o Tail(agenda) \/ (p = <<>> /\ b = Tail(agenda))
      OBVIOUS
    <3> HIDE DEF b
    <3>3. /\ Yields(agenda[1], p) /\ p # <<>> /\ p \in Seq(ToSet(p)) /\ Len(p) = 1 /\ p[1] = Read
          /\ Flat(Read)
      BY <2>1, TargetYields
    <3> HIDE DEF p
    <3>4. FitsFor(agenda[1], p, look)
      BY <2>1, <3>1, <3>3, BeginningWord, WordFits DEF Flat
    <3>5. agenda[1].do \notin {"body", "after", "enter"} /\ verdict' = verdict /\ reports' = reports
      BY <2>1, <2>3
    <3> QED
      BY <1>1, <1>2, <1>6, <3>1, <3>2, <3>3, <3>4, <3>5, StackGoesOn
  <2>4. CASE agenda' = Tail(agenda) /\ UNCHANGED <<tokens, look, reports, verdict>>
    <3>1. SkipsFor(agenda[1], <<>>)
      BY <2>1 DEF SkipsFor, LeavesInside, NeedsInside, LeavesBreak, NeedsBreak
    <3> QED
      BY <1>6, <1>9, <2>1, <2>4, <3>1
  <2> QED
    BY <1>5, <2>2, <2>3, <2>4
<1> QED
  BY <1>10, <1>11, <1>12, <1>13, <1>14, <1>15, <1>16, <1>17, <1>18, <1>19, <1>20, <1>21, <1>22,
     <1>23 DEF ParserNext

\* At the beginning there is nothing but the body of the text to read.
LEMMA StackBegins ==
    ASSUME ParserInit
    PROVE  StackInv
<1> DEFINE e == Enter({"eof"})
           z == Pile(agenda)
           h == Len(agenda)
           n == Len(tokens)
<1>1. /\ ParserInv /\ agenda = <<e>> /\ tokens = <<>> /\ reports = {} /\ verdict = "parsing"
  BY ParserBegins DEF ParserInit
<1>2. e.do = "enter"
  BY DEF Enter
<1>3. h = 1 /\ n = 0 /\ agenda[1] = e
  BY <1>1
<1>4. z[1] = e
  BY <1>3 DEF Pile
<1> HIDE DEF e, z, h, n
<1>5. /\ ~ NeedsInside(e) /\ ~ TakesOpener(e) /\ ~ TakesEnd(e)
  BY <1>2 DEF NeedsInside, TakesOpener, TakesEnd
<1>6. Height(z, 1) = 0
  <2>1. {l \in 1 .. 1 : TakesEnd(z[l])} = {}
    BY <1>4, <1>5
  <2> QED
    BY <2>1, FS_EmptySet DEF Height
<1>7. Deep(tokens, 0 + 1) = 0
  BY DeepFact
<1>8. StackFits(z, h)
  BY <1>2, <1>3, <1>4 DEF StackFits
<1>9. BlocksFit(z, h, tokens, n)
  BY <1>2, <1>3, <1>4 DEF BlocksFit
<1>10. StatementsFit(z, h, tokens, n, look)
  BY <1>3 DEF StatementsFit
<1>11. EntersFit(z, h, tokens, n)
  BY <1>3 DEF EntersFit
<1>12. LastFits(z, h, tokens, n)
  BY <1>3, <1>4, <1>5, <1>6, <1>7 DEF LastFits
<1>13. ReportsFit(z, h, tokens, n, reports)
  BY <1>1, <1>3 DEF ReportsFit
<1>14. InStep(z, h, tokens, n, look)
  BY <1>8, <1>9, <1>10, <1>11, <1>12 DEF InStep
<1>15. SyncedAt(agenda, tokens, look, reports)
  BY <1>2, <1>3, <1>13, <1>14 DEF SyncedAt, z, h, n
<1> QED
  BY <1>1, <1>15 DEF StackInv

\* What the run checks of the text is what is said of it here.
LEMMA SaidOfTexts ==
    /\ \A i : Nesting(i) = Deep(tokens, i)
    /\ \A i : Starts(i) <=> StartsAt(tokens, i)
    /\ \A i, j : SameBlock(j, i) <=> Together(tokens, j, i)
<1>1. \A i : Nesting(i) = Deep(tokens, i)
  BY Zenon DEF Nesting, Deep
<1>2. \A i : Starts(i) <=> StartsAt(tokens, i)
  BY Zenon DEF Starts, StartsAt, NoStart, Breaks
<1>3. \A i, j : SameBlock(j, i) <=> Together(tokens, j, i)
  BY <1>1, Zenon DEF SameBlock, Together
<1> QED
  BY <1>1, <1>2, <1>3

\* A text that is parsed has the reports it should have.
LEMMA StackSays ==
    ASSUME StackInv
    PROVE  UnreachableIsBehindJump
<1> SUFFICES ASSUME Parsed, NEW i \in DOMAIN tokens
             PROVE  <<"UnreachableCode", i>> \in reports <=>
                      /\ Starts(i)
                      /\ \E j \in 1 .. i - 1 :
                            /\ Starts(j) /\ tokens[j].kind \in Jumps /\ SameBlock(j, i)
                            /\ \A k \in j + 1 .. i :
                                  Starts(k) /\ SameBlock(k, i) =>
                                      tokens[k].kind # "~" /\ tokens[k].after = "no"
  BY Zenon DEF UnreachableIsBehindJump
<1>1. /\ tokens \in Seq(ToSet(tokens))
      /\ \A m \in Nat : <<"UnreachableCode", m>> \in reports <=>
                           m \in 1 .. Len(tokens) /\ BehindJump(tokens, m)
  BY DEF Parsed, StackInv
<1>2. i \in 1 .. Len(tokens) /\ i \in Nat
  <2>1. DOMAIN tokens = 1 .. Len(tokens) /\ Len(tokens) \in Nat
    BY <1>1, LenProperties
  <2> QED
    BY <2>1
<1>3. <<"UnreachableCode", i>> \in reports <=> BehindJump(tokens, i)
  BY <1>1, <1>2
<1>4. BehindJump(tokens, i) <=>
         /\ StartsAt(tokens, i)
         /\ \E j \in 1 .. i - 1 :
               /\ StartsAt(tokens, j) /\ tokens[j].kind \in Jumps /\ Together(tokens, j, i)
               /\ \A k \in j + 1 .. i : StartsAt(tokens, k) /\ Together(tokens, k, i) =>
                                          tokens[k].kind # "~" /\ tokens[k].after = "no"
  BY Zenon DEF BehindJump
<1> QED
  BY <1>3, <1>4, SaidOfTexts, Zenon

\* In every reachable state of the parser a text that is parsed has an UnreachableCode diagnostic
\* for exactly the statements that stand behind a Goto, Return, Raise, Break or Continue of their
\* own block, with no label in between (body() of parser.py, and what it calls).
THEOREM UnreachableStatementsExact == ParserSpec => []UnreachableIsBehindJump
<1>1. ParserInit => StackInv
  BY StackBegins
<1>2. StackInv /\ [ParserNext]_parserVars => StackInv'
  <2> SUFFICES ASSUME StackInv, [ParserNext]_parserVars PROVE StackInv'
    OBVIOUS
  <2>1. CASE ParserNext
    BY <2>1, StackStep
  <2>2. CASE UNCHANGED parserVars
    <3>1. ParserInv'
      BY <2>2 DEF StackInv, parserVars, ParserInv, ListFits, TextFits, Blocks
    <3>2. UNCHANGED <<agenda, tokens, look, reports, verdict>>
      BY <2>2 DEF parserVars
    <3>3. SyncedAt(agenda', tokens', look', reports') <=> SyncedAt(agenda, tokens, look, reports)
      BY <3>2
    <3> QED
      BY <3>1, <3>2, <3>3 DEF StackInv
  <2> QED
    BY <2>1, <2>2
<1>3. StackInv => UnreachableIsBehindJump
  BY StackSays
<1> QED
  BY <1>1, <1>2, <1>3, PTL DEF ParserSpec

================================================================================
