-------------------------------- MODULE DumpSearch --------------------------------
(***************************************************************************)
(* One search of the code of a dump: the tool search_code                  *)
(* (src/mcp_baf/tools/search_code.py), the search of a ready index         *)
(* (src/mcp_baf/dumpindex/index.py) and the synonyms it expands            *)
(* (src/mcp_baf/dumpindex/synonyms.py). When the index is ready, and what  *)
(* is in it, is the matter of DumpIndex.                                   *)
(*                                                                         *)
(* Abstractions.                                                           *)
(*  - A text is a sequence of letters (in lower case and NFC) and of the   *)
(*    separators Space and Dot, which stands for all that is no letter. A  *)
(*    token is the letters between two separators, and one token may be a  *)
(*    part of another. A module is its name, its two filter columns and    *)
(*    its lines.                                                           *)
(*  - The ranking of FTS5 is any order of the modules that match. Scores   *)
(*    and the layout of the answer are left out.                           *)
(*  - A pattern of mode regex is the same test as that of mode exact, or   *)
(*    it is invalid.                                                       *)
(***************************************************************************)
EXTENDS Integers, SequencesExt

CONSTANTS
    Dot, Space,
    KeywordPairs,   \* KEYWORD_PAIRS: [ru, en] records of tokens, each in one pair
    FunctionPairs,  \* the names of BUILTIN_FUNCTIONS, in the order of the list
    Dumps,          \* the indexes searched: sequences of modules
    Questions,      \* the arguments of the calls
    DefaultLimit, MaxLimit,  \* 50 and 500
    Window          \* CONTEXT_WINDOW

ASSUME SearchAssumption ==
    /\ DefaultLimit \in Nat \ {0} /\ MaxLimit \in Nat /\ DefaultLimit <= MaxLimit
    /\ Window \in Nat
    /\ Len(KeywordPairs) \in Nat /\ Len(FunctionPairs) \in Nat
    /\ \A i, j \in 1 .. Len(KeywordPairs) :
          {KeywordPairs[i].ru, KeywordPairs[i].en} \cap {KeywordPairs[j].ru, KeywordPairs[j].en} # {}
          => i = j
    /\ \A q \in Questions : q.limit \in Int /\ q.query \in Seq(ToSet(q.query))
    \* Modules have numbers for names, as only their order matters, and a text has at
    \* least one line.
    /\ \A ds \in Dumps :
          /\ ds \in Seq(ToSet(ds))
          /\ \A d \in DOMAIN ds :
                /\ ds[d].name \in Int
                /\ ds[d].lines \in Seq(ToSet(ds[d].lines)) /\ ds[d].lines # <<>>
                /\ \A i \in DOMAIN ds[d].lines : ds[d].lines[i] \in Seq(ToSet(ds[d].lines[i]))

VARIABLES
    progress, \* "asked", "scan", "hits" or "answered"
    docs,     \* the modules of the index
    question, \* [query, category, module, mode, limit]
    synonyms, \* build_synonym_map(), as far as it is built
    learned,  \* the pairs it is built of
    rows,     \* what the query of the database returned
    place,    \* the row and the line the search is at
    matches, counted,
    answer    \* "none", "matches", "nothing found", "empty index" or an error

searchVars == <<progress, docs, question, synonyms, learned, rows, place, matches, counted, answer>>

--------------------------------------------------------------------------------
(* Texts *)

IsIn(needle, text) ==
    \E i \in 0 .. Len(text) - Len(needle) : SubSeq(text, i + 1, i + Len(needle)) = needle

\* The first and the last place of each longest part of a text without a separator.
Words(text, separators) ==
    LET Free(i) == i \in DOMAIN text /\ text[i] \notin separators
    IN {w \in (DOMAIN text) \X (DOMAIN text) :
          /\ w[1] <= w[2] /\ \A k \in w[1] .. w[2] : Free(k)
          /\ ~ Free(w[1] - 1) /\ ~ Free(w[2] + 1)}

\* str.split(): what is between the spaces, each at its place.
PlainTokens(text) == [w \in Words(text, {Space}) |-> SubSeq(text, w[1], w[2])]

\* _TOKEN_RE.findall, and the words that FTS5 finds in a text. Their order and number
\* play no part in what is found.
Tokens(text) == {SubSeq(text, w[1], w[2]) : w \in Words(text, {Dot, Space})}

TokensOf(doc) == UNION {Tokens(doc.lines[i]) : i \in DOMAIN doc.lines}

Expanded(t) == {t} \cup {synonyms[s] : s \in {t} \cap DOMAIN synonyms}

--------------------------------------------------------------------------------
(* The tool and the dispatch of search() *)

SearchInit ==
    /\ progress = "asked" /\ docs \in Dumps /\ question \in Questions
    /\ synonyms = <<>> /\ learned = 0
    /\ rows = <<>> /\ place = <<1, 1>> /\ matches = <<>> /\ counted = 0 /\ answer = "none"

\* clamp_limit; search() repeats it, which changes nothing any more.
Clamp(n) == IF n <= 0 THEN DefaultLimit ELSE IF n < MaxLimit THEN n ELSE MaxLimit

Limit == Clamp(question.limit)

Filtered(doc) ==
    /\ question.category \in {"", doc.category}
    /\ question.module \in {"", doc.module}

Refuse(why) ==
    /\ progress' = "answered" /\ answer' = why
    /\ UNCHANGED <<docs, question, synonyms, learned, rows, place, matches, counted>>

\* format_search_result, or the note that there is nothing to search.
AnswerOf(ms, n) ==
    IF n = 0 /\ docs = <<>> THEN "empty index"
    ELSE IF ms = <<>> THEN "nothing found" ELSE "matches"

RefuseQuery ==
    /\ progress = "asked"
    /\ \/ question.query = <<>> /\ Refuse("query is required")
       \/ /\ question.query # <<>> /\ question.mode = "regex" /\ question.invalid
          /\ Refuse("invalid regex")

--------------------------------------------------------------------------------
(* _search_line_by_line: modes regex and exact *)

InOrder(r) == \A i, j \in DOMAIN r : i < j => docs[r[i]].name <= docs[r[j]].name

\* SELECT ... ORDER BY name: modules of one name come in any order.
SelectRows ==
    /\ progress = "asked" /\ question.query # <<>>
    /\ question.mode \in {"regex", "exact"} /\ ~ question.invalid
    /\ \E r \in SetToSeqs({d \in DOMAIN docs : Filtered(docs[d])}) :
          InOrder(r) /\ rows' = r
    /\ progress' = "scan"
    /\ UNCHANGED <<docs, question, synonyms, learned, place, matches, counted, answer>>

\* _extract_context
Context(lines, i) ==
    LET first == IF i - Window < 1 THEN 1 ELSE i - Window
        last == IF i + Window > Len(lines) THEN Len(lines) ELSE i + Window
    IN SubSeq(lines, first, last)

Match(d, i) == [doc |-> d, line |-> i, context |-> Context(docs[d].lines, i)]

\* Mutant: the search stops counting where it stops listing.
ScanUntilLimit ==
    /\ progress = "scan" /\ place[1] <= Len(rows)
    /\ LET d == rows[place[1]]
           hit == IsIn(question.query, docs[d].lines[place[2]])
       IN /\ counted' = IF hit /\ Len(matches) < Limit THEN counted + 1 ELSE counted
          /\ matches' = IF hit /\ Len(matches) < Limit
                        THEN Append(matches, Match(d, place[2])) ELSE matches
          /\ place' = IF place[2] < Len(docs[d].lines) THEN <<place[1], place[2] + 1>>
                      ELSE <<place[1] + 1, 1>>
    /\ UNCHANGED <<progress, docs, question, synonyms, learned, rows, answer>>

ScanLine ==
    /\ progress = "scan" /\ place[1] <= Len(rows)
    /\ LET d == rows[place[1]]
           hit == IsIn(question.query, docs[d].lines[place[2]])
       IN /\ counted' = IF hit THEN counted + 1 ELSE counted
          /\ matches' = IF hit /\ Len(matches) < Limit
                        THEN Append(matches, Match(d, place[2])) ELSE matches
          /\ place' = IF place[2] < Len(docs[d].lines) THEN <<place[1], place[2] + 1>>
                      ELSE <<place[1] + 1, 1>>
    /\ UNCHANGED <<progress, docs, question, synonyms, learned, rows, answer>>

ScanEnds ==
    /\ progress \in {"scan", "hits"} /\ place[1] > Len(rows)
    /\ progress' = "answered" /\ answer' = AnswerOf(matches, counted)
    /\ UNCHANGED <<docs, question, synonyms, learned, rows, place, matches, counted>>

--------------------------------------------------------------------------------
(* _search_smart *)

\* build_synonym_map: on the first call; later calls find its result.
Learning ==
    /\ progress = "asked" /\ question.mode = "smart" /\ Tokens(question.query) # {}
    /\ learned' = learned + 1
    /\ UNCHANGED <<progress, docs, question, rows, place, matches, counted, answer>>

Both(p) ==
    [t \in DOMAIN synonyms \cup {p.ru, p.en} |->
        IF t = p.ru THEN p.en ELSE IF t = p.en THEN p.ru ELSE synonyms[t]]

LearnKeywords ==
    /\ Learning /\ learned < Len(KeywordPairs)
    /\ LET p == KeywordPairs[learned + 1] IN
       synonyms' = IF p.ru = p.en THEN synonyms ELSE Both(p)

\* A pair of functions is skipped whole if one of its names is taken.
LearnFunctions ==
    /\ Learning
    /\ learned \in Len(KeywordPairs) .. Len(KeywordPairs) + Len(FunctionPairs) - 1
    /\ LET p == FunctionPairs[learned + 1 - Len(KeywordPairs)] IN
       synonyms' = IF p.ru = p.en \/ {p.ru, p.en} \cap DOMAIN synonyms # {}
                   THEN synonyms ELSE Both(p)

\* The expression: every token, or its synonym, is in the module.
FtsMatches(doc) ==
    \A t \in Tokens(question.query) : Expanded(t) \cap TokensOf(doc) # {}

NoTokens ==
    /\ progress = "asked" /\ question.mode = "smart" /\ question.query # <<>>
    /\ Tokens(question.query) = {} /\ Refuse(AnswerOf(<<>>, 0))

\* count(*) and the best hits, under one hold of the database lock.
SelectHits ==
    /\ progress = "asked" /\ question.mode = "smart" /\ Tokens(question.query) # {}
    /\ learned = Len(KeywordPairs) + Len(FunctionPairs)
    /\ LET hits == {d \in DOMAIN docs : Filtered(docs[d]) /\ FtsMatches(docs[d])} IN
          /\ counted' = Cardinality(hits)
          /\ \E r \in SetToSeqs(hits) :
                rows' = SubSeq(r, 1, IF Limit < Len(r) THEN Limit ELSE Len(r))
    /\ progress' = "hits"
    /\ UNCHANGED <<docs, question, synonyms, learned, place, matches, answer>>

\* _best_line: the first of the lines with the most words of the query in them, on
\* their own or as a part of a longer word; a word that the query repeats counts as
\* often. 0 if no line has any.
BestLine(lines, words) ==
    LET score == [i \in DOMAIN lines |-> Cardinality({n \in DOMAIN words : IsIn(words[n], lines[i])})]
        best == {i \in DOMAIN lines :
                    /\ score[i] > 0
                    /\ \A j \in DOMAIN lines : score[j] <= score[i] /\ (j < i => score[j] < score[i])}
    IN IF best = {} THEN 0 ELSE CHOOSE i \in best : TRUE

\* _first_line_with_any: as a part of a longer word, too.
FirstLineWithAny(lines, tokens) ==
    LET has == {i \in DOMAIN lines : \E t \in tokens : IsIn(t, lines[i])} IN
    IF has = {} THEN 0 ELSE Min(has)

\* Mutant: no second attempt with the synonyms.
LineWithoutSynonyms(lines) ==
    LET best == BestLine(lines, PlainTokens(question.query)) IN IF best > 0 THEN best ELSE 1

LineOf(lines) ==
    LET tokens == Tokens(question.query)
        expanded == UNION {Expanded(t) : t \in tokens}
        best == BestLine(lines, PlainTokens(question.query))
        second == FirstLineWithAny(lines, expanded)
    IN IF best > 0 THEN best
       ELSE IF tokens \cap DOMAIN synonyms # {} /\ second > 0 THEN second ELSE 1

ShowHit ==
    /\ progress = "hits" /\ place[1] <= Len(rows)
    /\ LET d == rows[place[1]]
       IN matches' = Append(matches, Match(d, LineOf(docs[d].lines)))
    /\ place' = <<place[1] + 1, 1>>
    /\ UNCHANGED <<progress, docs, question, synonyms, learned, rows, counted, answer>>

SearchNext ==
    RefuseQuery \/ SelectRows \/ ScanLine \/ ScanEnds \/ NoTokens
    \/ LearnKeywords \/ LearnFunctions \/ SelectHits \/ ShowHit

SearchSpec == SearchInit /\ [][SearchNext]_searchVars

--------------------------------------------------------------------------------
(* Properties *)

SearchTypeOK ==
    /\ progress \in {"asked", "scan", "hits", "answered"}
    /\ \A i \in DOMAIN rows : rows[i] \in DOMAIN docs /\ Filtered(docs[rows[i]])
    /\ counted \in Nat /\ Len(matches) <= counted /\ Len(rows) <= Len(docs)
    /\ question.mode = "smart" => Len(matches) <= Limit
    /\ answer \in {"none", "matches", "nothing found", "empty index",
                   "query is required", "invalid regex"}

Answered(mode) == progress = "answered" /\ question.mode \in mode
                  /\ answer \in {"matches", "nothing found", "empty index"}

\* regex and exact: the count is that of all lines of the filtered modules that
\* match, so that the reader sees when the list is cut; the list is the first of
\* them, as many as the limit, in the order of names and lines, none twice.
CountsAllShowsFirst ==
    LET hits == {h \in UNION {{d} \X DOMAIN docs[d].lines : d \in DOMAIN docs} :
                    /\ Filtered(docs[h[1]])
                    /\ IsIn(question.query, docs[h[1]].lines[h[2]])}
        shown == [n \in DOMAIN matches |-> <<matches[n].doc, matches[n].line>>]
        Before(g, h) == \/ docs[g[1]].name < docs[h[1]].name
                        \/ g[1] = h[1] /\ g[2] < h[2]
    IN Answered({"regex", "exact"}) =>
        /\ counted = Cardinality(hits) /\ ToSet(shown) \subseteq hits
        /\ Len(shown) = Cardinality(ToSet(shown))
        /\ Len(shown) = Min({counted, IF question.limit <= 0 THEN DefaultLimit
                                    ELSE Min({question.limit, MaxLimit})})
        /\ \A n \in DOMAIN shown :
              \A h \in hits : Before(h, shown[n]) => \E m \in 1 .. n - 1 : shown[m] = h

\* smart: what is shown of a module goes back to the query. Unless the query has
\* separators other than spaces, the line shown has one of its tokens in it or, if no
\* line of the module has, a synonym of one; in both cases on its own or as a part of
\* a longer word, see SynonymIsShown. The line is in the context that goes with it.
ShownLineExplains ==
    Answered({"smart"}) /\ Dot \notin ToSet(question.query) =>
        LET tokens == Tokens(question.query) IN
        \A n \in DOMAIN matches :
            LET lines == docs[matches[n].doc].lines
                Has(i, ts) == \E t \in ts : IsIn(t, lines[i])
                line == matches[n].line
            IN /\ lines[line] \in ToSet(matches[n].context)
               /\ IF \E i \in DOMAIN lines : Has(i, tokens) THEN Has(line, tokens)
                  ELSE Has(line, UNION {Expanded(t) : t \in tokens})

\* "If FTS5 has found a document by a synonym and the tokens of the query are not met
\* in the text, the search is repeated with the expanded set" (docs/search-and-index.md,
\* and the comment in _search_smart): of a module without a token of the query, the line
\* shown has a synonym. The code asks whether the tokens are parts of the text.
SynonymIsShown ==
    Answered({"smart"}) =>
        LET tokens == Tokens(question.query) IN
        \A n \in DOMAIN matches :
            LET doc == docs[matches[n].doc] IN
            tokens \cap TokensOf(doc) = {} =>
                \E t \in UNION {Expanded(u) : u \in tokens} : IsIn(t, doc.lines[matches[n].line])
                                                           /\ t \notin tokens

\* "A pair is skipped whole if one of its names is taken, or the two-way chains
\* break": the synonym of a synonym is the token itself, so that a search by
\* either name finds the same modules.
SynonymsAreMutual ==
    /\ \A t \in DOMAIN synonyms : synonyms[t] \in DOMAIN synonyms /\ synonyms[synonyms[t]] = t
    /\ \A t \in DOMAIN synonyms : Expanded(t) = Expanded(synonyms[t])

\* A hit of a smart search goes back to what was asked for: the line that is shown has
\* a word of the query or a synonym in it, and a search by either name is the same.
HitsAreExplained == ShownLineExplains /\ SynonymsAreMutual

================================================================================
