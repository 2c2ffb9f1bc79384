------------------------------ MODULE MCComponents ------------------------------
(***************************************************************************)
(* What is made of files and texts, for TLC: the installer, the export and *)
(* the names of a dump, the help container, the search and the BSL parser. *)
(* They share no state, so that a behaviour is one of one of them: `part`  *)
(* says of which; the others stand still in one state.                     *)
(***************************************************************************)
EXTENDS Installer, DumpExport, HbkChain, ExtRoots, MCSearch, BslParser, BslExpression,
        BslDirectives

\* Extension names: two spellings of one, another one, and the name of the
\* standard directory Ext, which is refused.
MCNames == {"Pos", "POS", "Rep", "Ext"}
MCFold == [n \in MCNames |->
    CASE n \in {"Pos", "POS"} -> "pos" [] n = "Rep" -> "rep" [] OTHER -> "ext"]

MCTops == <<"a", "Catalogs", "b">>

\* Vocabularies: branches, handlers, jumps, loops, methods with variables, headers of
\* methods, labels; and, to see where a variable is read, the bodies of methods with
\* elsif, with else, with the loops, with handlers and Execute, with jumps and try.
X == [node |-> "identifier", names |-> {"x"}]
C == [node |-> "call", names |-> {}]
CX == [node |-> "call", names |-> {"x"}]
MX == [node |-> "member", names |-> {"x"}]

Vocabulary(kinds, expressions, length, lines) ==
    [kinds |-> kinds, expressions |-> expressions, tokens |-> length, lines |-> lines,
     start |-> <<>>]

\* The body of a method that has the variable x: `procedure x() var x;` comes first.
Token(kind) == [kind |-> kind, node |-> "none", names |-> {}]
NameX == [kind |-> "expr", node |-> "identifier", names |-> {"x"}]
BodyVocabulary(method, end, kinds, length) ==
    [kinds |-> kinds \cup {method, "(", ")", "var", "expr", ";", end},
     expressions |-> {X, C, CX}, tokens |-> 7 + length, lines |-> 1,
     start |-> <<Token(method), NameX, Token("("), Token(")"), Token("var"), NameX, Token(";")>>]

MCVocabularies == {
    Vocabulary({"if", "then", "elsif", "else", "endif", "expr", ";"}, {C}, 10, 2),
    Vocabulary({"try", "except", "endtry", "raise", "expr", "if", "then", "endif"}, {C}, 10, 2),
    Vocabulary({"return", "raise", "~", ":", ";", "expr", "#region"}, {X}, 8, 2),
    Vocabulary({"while", "for", "each", "in", "do", "enddo", "break", "continue", "expr",
                "=", "to", ";"}, {X, MX}, 9, 1),
    Vocabulary({"procedure", "(", ")", "var", "expr", ";", "=", "endprocedure", "#if"},
               {X, CX}, 11, 1),
    Vocabulary({"async", "function", "(", ")", ",", "val", "export", "expr", "=", "return",
                "endfunction"}, {X, C}, 9, 3),
    Vocabulary({"goto", "~", ":", ";", "expr"}, {X, C}, 7, 1),
    BodyVocabulary("procedure", "endprocedure", {"if", "then", "elsif", "endif"}, 9),
    BodyVocabulary("procedure", "endprocedure", {"if", "then", "else", "endif"}, 7),
    BodyVocabulary("procedure", "endprocedure", {"while", "for", "each", "in", "do", "enddo"}, 8),
    BodyVocabulary("procedure", "endprocedure", {"for", "=", "to", "do", "enddo"}, 9),
    BodyVocabulary("procedure", "endprocedure", {"addhandler", ",", "execute"}, 7),
    BodyVocabulary("function", "endfunction", {"return", "raise", "try", "except", "endtry"}, 6)}

--------------------------------------------------------------------------------
VARIABLE part

componentVars == <<part, vars, exportVars, hbkVars, extVars, searchVars, parserVars,
                   expressionVars, directiveVars>>

\* Where the variables of a component stand still, it has one initial state.
One(S) == CHOOSE s \in S : TRUE
InstallerIdle ==
    /\ version = "8.3.9" /\ reporting = "all" /\ stored = None
    /\ base = [refuses |-> {}, late |-> FALSE, modes |-> {}, keeps |-> FALSE] /\ Init
SearchIdle == docs = <<>> /\ question = One(Questions) /\ SearchInit
ParserIdle ==
    /\ words = One(Vocabularies) /\ look = One(Begun(Looks(1, words.kinds, {"no"}), 1)) /\ ParserInit
ExpressionIdle == seen = One(TokenKinds) /\ ExpressionInit

ComponentsInit ==
    /\ part \in {"install", "export", "hbk", "roots", "search", "parser", "expression",
                 "directives"}
    /\ IF part = "install" THEN Init ELSE InstallerIdle
    /\ IF part = "search" THEN SearchInit ELSE SearchIdle
    /\ IF part = "parser" THEN ParserInit ELSE ParserIdle
    /\ IF part = "expression" THEN ExpressionInit ELSE ExpressionIdle
    /\ ExportInit /\ HbkInit /\ ExtInit /\ DirectivesInit

ComponentsNext ==
    \/ /\ part = "install" /\ Next
       /\ UNCHANGED <<part, exportVars, hbkVars, extVars, searchVars, parserVars,
                      expressionVars, directiveVars>>
    \/ /\ part = "export" /\ ExportNext
       /\ UNCHANGED <<part, vars, hbkVars, extVars, searchVars, parserVars,
                      expressionVars, directiveVars>>
    \/ /\ part = "hbk" /\ Reading
       /\ UNCHANGED <<part, vars, exportVars, extVars, searchVars, parserVars,
                      expressionVars, directiveVars>>
    \/ /\ part = "roots" /\ ExtNext
       /\ UNCHANGED <<part, vars, exportVars, hbkVars, searchVars, parserVars,
                      expressionVars, directiveVars>>
    \/ /\ part = "search" /\ SearchNext
       /\ UNCHANGED <<part, vars, exportVars, hbkVars, extVars, parserVars,
                      expressionVars, directiveVars>>
    \/ /\ part = "parser" /\ ParserNext
       /\ UNCHANGED <<part, vars, exportVars, hbkVars, extVars, searchVars,
                      expressionVars, directiveVars>>
    \/ /\ part = "expression" /\ ExpressionNext
       /\ UNCHANGED <<part, vars, exportVars, hbkVars, extVars, searchVars, parserVars,
                      directiveVars>>
    \/ /\ part = "directives" /\ DirectivesNext
       /\ UNCHANGED <<part, vars, exportVars, hbkVars, extVars, searchVars, parserVars,
                      expressionVars>>

ComponentsSpec == ComponentsInit /\ [][ComponentsNext]_componentVars

--------------------------------------------------------------------------------

\* Every variable of every component keeps its type, and nothing grows beyond its
\* limit: the depth of the two stacks of the parser, the manifests that are read,
\* the hits that are listed.
TypesOK ==
    /\ TypeOK /\ ExportTypeOK /\ HbkTypeOK /\ ExtTypeOK
    /\ SearchTypeOK /\ ParserTypeOK /\ ExpressionTypeOK

================================================================================
