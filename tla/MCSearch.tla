-------------------------------- MODULE MCSearch --------------------------------
(* Model values for checking DumpSearch with TLC. *)
EXTENDS DumpSearch

\* Pairs of synonyms: one of keywords, a pair of functions, one with a name that is
\* taken, one of a name with itself.
MCKeywords == <<[ru |-> <<"a">>, en |-> <<"A">>]>>
MCFunctions ==
    <<[ru |-> <<"b">>, en |-> <<"B", "a">>], [ru |-> <<"c">>, en |-> <<"A">>],
      [ru |-> <<"d">>, en |-> <<"d">>]>>

\* The word "Ba" is the synonym of "b" and has another word, "a", as a part.
MCLines == {<<>>, <<"a">>, <<"A">>, <<"B", "a">>, <<"a", ".", "b">>, <<"b", " ", "a">>}
MCTexts == UNION {[1 .. n -> MCLines] : n \in 1 .. 2}
MCFewTexts ==
    {<<<<"a">>>>, <<<<"b">>, <<"a">>>>, <<<<>>, <<"A">>>>, <<<<"a", ".", "b">>, <<"a">>>>,
     <<<<"B", "a">>, <<"A">>>>}

ModuleOf(name, category, module, lines) ==
    [name |-> name, category |-> category, module |-> module, lines |-> lines]

\* No module; two, of one name or of different ones; one that is longer than the
\* context.
MCDumps ==
    {<<>>}
    \cup {<<ModuleOf(n, "y", "m", l), ModuleOf(1, "x", "f", k)>> :
              n \in {1, 2}, l \in MCTexts, k \in MCFewTexts}
    \cup {<<ModuleOf(1, "x", "m", <<<<>>, <<>>, <<"a">>, <<>>, <<"A", " ", "a">>, <<>>, <<"b">>>>)>>}

Question(query, category, module, mode, limit) ==
    [query |-> query, category |-> category, module |-> module, mode |-> mode,
     limit |-> limit, invalid |-> FALSE]

MCQuestions ==
    {Question(q, c, "", mode, l) :
        q \in {<<"a">>, <<"a", ".", "b">>, <<"b", " ", "A">>}, c \in {"", "y"},
        mode \in {"smart", "exact"}, l \in {0, 1, 9}}
    \cup {Question(<<"a">>, "", "f", "regex", 2), Question(<<>>, "", "", "smart", 2),
          Question(<<".">>, "", "", "smart", 1),
          [Question(<<"a">>, "", "", "regex", 1) EXCEPT !.invalid = TRUE]}
================================================================================
