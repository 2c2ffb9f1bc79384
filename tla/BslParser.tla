-------------------------------- MODULE BslParser --------------------------------
(***************************************************************************)
(* The parser of BSL (src/mcp_baf/bsl_native/parser.py) and what _semantic *)
(* and format_source (src/mcp_baf/bsl_native/__init__.py) make of its      *)
(* result: unreachable statements, unused variables, indents.              *)
(*                                                                         *)
(* Abstractions.                                                           *)
(*  - `agenda` is what the open calls of the recursive descent have left   *)
(*    to do, the next thing first. The tokens come as the parser looks at  *)
(*    them, on the same line or on the next.                               *)
(*  - An expression is one token: the kind of its node and the names it    *)
(*    reads. BslExpression is about what is inside of one. A lone          *)
(*    identifier is an expression too, also where a name must stand.       *)
(*  - Lexing, strings over several lines and spaces are left out; a        *)
(*    comment or an annotation changes nothing, and no text has an Eval,   *)
(*    which silences the report of unused variables as an #if does.        *)
(***************************************************************************)
EXTENDS Integers, SequencesExt

CONSTANTS
    Vocabularies, \* what texts are written in: kinds of tokens and expressions, what
                  \* they begin with, and bounds on their tokens and lines
    MaxDepth      \* 100

ASSUME BslAssumption ==
    /\ MaxDepth \in Nat \ {0}
    /\ \A v \in Vocabularies :
          /\ v.tokens \in Nat \ {0} /\ v.lines \in Nat \ {0}
          /\ \A e \in v.expressions : e.node \in {"identifier", "member", "call", "other"}

VARIABLES
    words,          \* the vocabulary of the text
    tokens,         \* the tokens taken
    look,           \* self.current
    agenda,         \* what is left to do
    events,         \* indent_events, summed by line
    statementLines, \* statement_lines
    reports,        \* diagnostics: a code and the index of a token
    methods,        \* the methods: names declared, names read, whether dynamic
    verdict         \* "parsing", "parsed" or "failed"

parserVars == <<words, tokens, look, agenda, events, statementLines, reports,
                methods, verdict>>

Jumps == {"return", "raise", "break", "continue", "goto"}
MethodKinds == {"procedure", "function"}
Openers == MethodKinds \cup {"if", "while", "for", "try"}
Ends == {"endprocedure", "endfunction", "endif", "enddo", "endtry"}
Middles == {"elsif", "else", "except"}

--------------------------------------------------------------------------------
(* Things to do *)

Take(kind) == [do |-> "take", kind |-> kind, indent |-> 0]
Opening(kind) == [do |-> "take", kind |-> kind, indent |-> 1]
Closing(kind) == [do |-> "take", kind |-> kind, indent |-> 0 - 1]
Accept(kind) == [do |-> "accept", kind |-> kind]
Read == [do |-> "read"]          \* an expression, for the reads of the node
Ignore == [do |-> "ignore"]      \* an expression whose reads are dropped
Name(what) == [do |-> "name", what |-> what]
Choose(what) == [do |-> "choose", what |-> what]
Enter(stop) == [do |-> "enter", stop |-> stop]
Block(stop, at) ==               \* body(), entered
    [do |-> "body", stop |-> stop, terminated |-> FALSE, empty |-> TRUE, at |-> at]
After(kind, at, terminated) ==   \* the rest of body()'s loop, after a statement
    [do |-> "after", kind |-> kind, at |-> at, terminated |-> terminated]
Target == [do |-> "target"]

Branch == <<Read, Opening("then"), Enter({"elsif", "else", "endif"}), Choose("branch")>>

\* Mutant: an elsif does not close the branch before it.
ElsifLeftOpen(kind) ==
    CASE kind = "elsif" -> <<Take("elsif")>> \o Branch
      [] kind = "else" -> <<Take("else"), Enter({"endif"})>>
      [] OTHER -> <<>>

\* Mutant: what the condition of an elsif reads is lost.
ElsifUnread(kind) ==
    CASE kind = "elsif" ->
             <<Closing("elsif"), Ignore, Opening("then"), Enter({"elsif", "else", "endif"}),
               Choose("branch")>>
      [] kind = "else" -> <<Take("else"), Enter({"endif"})>>
      [] OTHER -> <<>>

\* After a branch of an if. (else closes and opens on one line.)
NextBranch(kind) ==
    CASE kind = "elsif" -> <<Closing("elsif")>> \o Branch
      [] kind = "else" -> <<Take("else"), Enter({"endif"})>>
      [] OTHER -> <<>>

ForRange(kind) ==
    IF kind = "each" THEN <<Take("each"), Name("other"), Take("in"), Read>>
    ELSE <<Name("other"), Take("="), Read, Take("to"), Read>>

Parameter == <<Accept("val"), Name("parameter"), Choose("default"), Choose("parameter")>>

\* return and raise may have a value. A raise that elsif, else or except follows
\* is taken to have one, and fails: only the other ends of a block end it.
Value(statement, kind) ==
    LET none == Ends \cup {";", "eof"} \cup IF statement = "return" THEN Middles ELSE {}
    IN IF kind \in none THEN <<>> ELSE <<Read>>

\* What is next where the code looks at the current token to decide.
Chosen(what, kind) ==
    CASE what = "branch" -> NextBranch(kind)
      [] what = "range" -> ForRange(kind)
      [] what = "first parameter" -> IF kind = ")" THEN <<>> ELSE Parameter
      [] what = "parameter" -> IF kind = "," THEN <<Take(",")>> \o Parameter ELSE <<>>
      [] what = "default" -> IF kind = "=" THEN <<Take("="), Ignore>> ELSE <<>>
      [] what = "local" ->
             IF kind = "," THEN <<Take(","), Name("local"), Choose("local")>> ELSE <<>>
      [] what \in {"return", "raise"} -> Value(what, kind)

\* The statements, by their first token.
Loop == <<Opening("do"), Enter({"enddo"}), Closing("enddo")>>

MethodRest(kind) ==
    <<Name("other"), Take("("), Choose("first parameter"), Take(")"), [do |-> "header end"],
      Enter({IF kind = "procedure" THEN "endprocedure" ELSE "endfunction"}),
      Closing(IF kind = "procedure" THEN "endprocedure" ELSE "endfunction")>>

Handler(kind) == <<Take(kind), Read, Take(","), Read>>

Statement(kind) ==
    CASE kind = "async" -> <<Take("async"), [do |-> "method"]>>
      [] kind \in MethodKinds -> <<[do |-> "method"]>>
      [] kind = "var" -> <<Take("var"), Name("local"), Choose("local"), Accept("export")>>
      [] kind = "if" -> <<Take("if")>> \o Branch \o <<Closing("endif")>>
      [] kind = "while" -> <<Take("while"), Read>> \o Loop
      [] kind = "for" -> <<Take("for"), Choose("range")>> \o Loop
      [] kind = "try" -> <<Opening("try"), Enter({"except"}), Take("except"),
                           Enter({"endtry"}), Closing("endtry")>>
      [] kind \in {"return", "raise"} -> <<Take(kind), Choose(kind)>>
      [] kind \in {"break", "continue"} -> <<Take(kind)>>
      [] kind = "goto" -> <<Take("goto"), Take("~"), Name("other")>>
      [] kind = "execute" -> <<Take("execute"), Read>>
      [] kind = "addhandler" -> Handler(kind)
      [] kind = "~" -> <<Take("~"), Name("other"), Take(":")>>
      [] OTHER -> <<Target>>

--------------------------------------------------------------------------------
(* The state *)

Directives == {"#region", "#if"}

Looks(line, kinds, afters) ==
    {[kind |-> k, line |-> line, node |-> "none", names |-> {}, after |-> a] :
        k \in kinds \ ({"expr"} \cup Directives), a \in afters}
    \cup {[kind |-> "expr", line |-> line, node |-> e.node, names |-> e.names, after |-> a] :
        e \in IF "expr" \in kinds THEN words.expressions ELSE {}, a \in afters}

\* What a text begins with is given, in whole or not at all.
Begun(looks, n) ==
    {l \in looks : n <= Len(words.start) => [kind |-> l.kind, node |-> l.node, names |-> l.names]
                                           = words.start[n]}

\* A directive is a line of its own, so what comes after one is on a new line.
NextLooks ==
    IF Len(tokens) + 1 >= words.tokens THEN Looks(look.line, {"eof"}, {"no"})
    ELSE Begun(Looks(look.line, words.kinds \cup {"eof"}, {"no"})
               \cup IF look.line < words.lines
                    THEN Looks(look.line + 1, words.kinds, {"no"} \cup (words.kinds \cap Directives))
                    ELSE {},
               Len(tokens) + 2)

ParserInit ==
    /\ words \in Vocabularies /\ look \in Begun(Looks(1, words.kinds, {"no"}), 1)
    /\ tokens = <<>> /\ agenda = <<Enter({"eof"})>>
    /\ events = [n \in 1 .. words.lines |-> 0] /\ statementLines = {} /\ reports = {}
    /\ methods = <<>> /\ verdict = "parsing"

Head1 == agenda[1]
Doing(what) == verdict = "parsing" /\ agenda # <<>> /\ Head1.do = what
Blocks == {n \in DOMAIN agenda : agenda[n].do = "body"}
In(stops) == \E n \in Blocks : agenda[n].stop \cap stops # {}
InMethod == In({"endprocedure", "endfunction"})

\* ParseFailure. _inspect keeps what was reported up to here and adds the error; the
\* nodes, the indents and the rest of the text play no part any more.
Fail == /\ verdict' = "failed" /\ reports' = reports \cup {<<"ParseError", Len(tokens) + 1>>}
        /\ tokens' = <<>> /\ agenda' = <<>>
        /\ methods' = <<>> /\ events' = [n \in 1 .. words.lines |-> 0] /\ statementLines' = {}
        /\ look' = [look EXCEPT !.kind = "eof", !.line = 1, !.node = "none", !.names = {}, !.after = "no"]
        /\ UNCHANGED words

\* take(), and what to do then.
Consume(rest) ==
    /\ tokens' = Append(tokens, look) /\ look' \in NextLooks /\ agenda' = rest

Event(line, n) == events' = [events EXCEPT ![line] = @ + n]

\* A node of a method got these reads, or made the method dynamic.
Reads(names, execute) ==
    methods' = IF InMethod
               THEN [methods EXCEPT ![Len(methods)].reads = @ \cup names,
                                    ![Len(methods)].dynamic = @ \/ execute]
               ELSE methods

--------------------------------------------------------------------------------
(* take, accept, expression *)

TakeToken ==
    /\ Doing("take")
    /\ IF look.kind # Head1.kind \/ look.kind = "eof" THEN Fail
       ELSE /\ Consume(Tail(agenda)) /\ Event(look.line, Head1.indent)
            /\ Reads({}, look.kind = "execute")
            /\ UNCHANGED <<words, statementLines, reports, verdict>>

AcceptToken ==
    /\ Doing("accept")
    /\ IF look.kind = Head1.kind THEN Consume(Tail(agenda))
       ELSE agenda' = Tail(agenda) /\ UNCHANGED <<tokens, look>>
    /\ UNCHANGED <<words, events, statementLines, reports, methods, verdict>>

Decide ==
    /\ Doing("choose")
    /\ agenda' = Chosen(Head1.what, look.kind) \o Tail(agenda)
    /\ reports' = reports \cup
          IF Head1.what = "return" /\ Value("return", look.kind) # <<>> /\ ~ In({"endfunction"})
          THEN {<<"ParseError", Len(tokens)>>} ELSE {}
    /\ UNCHANGED <<words, tokens, look, events, statementLines, methods, verdict>>

\* Mutant: one body more than the limit.
TooDeepByOne == Cardinality(Blocks) > MaxDepth

TooDeep == Cardinality(Blocks) + 1 > MaxDepth

Expression ==
    /\ Doing("read") \/ Doing("ignore")
    /\ IF TooDeep \/ look.kind # "expr" THEN Fail
       ELSE /\ Consume(Tail(agenda))
            /\ Reads(IF Head1.do = "read" THEN look.names ELSE {}, FALSE)
            /\ UNCHANGED <<words, events, statementLines, reports, verdict>>

\* take('identifier'): of a parameter, of a local variable, or of something else.
TakeName ==
    /\ Doing("name")
    /\ IF look.kind # "expr" \/ look.node # "identifier" THEN Fail
       ELSE LET n == CHOOSE x \in look.names : TRUE
                m == Len(methods)
            IN /\ Consume(Tail(agenda))
               /\ methods' = CASE Head1.what = "parameter" ->
                                    [methods EXCEPT ![m].parameters = Append(@, n)]
                               [] Head1.what = "local" /\ InMethod ->
                                    [methods EXCEPT ![m].locals = Append(@, n)]
                               [] OTHER -> methods
               /\ reports' = reports \cup
                     IF Head1.what = "parameter" /\ n \in ToSet(methods[m].parameters)
                     THEN {<<"DuplicateParameter", Len(tokens) + 1>>} ELSE {}
               /\ UNCHANGED <<words, events, statementLines, verdict>>

--------------------------------------------------------------------------------
(* body *)

EnterBlock ==
    /\ Doing("enter")
    /\ IF TooDeep THEN Fail
       ELSE /\ agenda' = <<Block(Head1.stop, Len(tokens))>> \o Tail(agenda)
            /\ UNCHANGED <<words, tokens, look, events, statementLines, reports, methods, verdict>>

\* The token at which a block stops; for a handler, the check that it is not empty.
LeaveBlock ==
    /\ Doing("body") /\ look.kind \in Head1.stop
    /\ agenda' = Tail(agenda)
    /\ reports' = reports \cup IF Head1.empty /\ Head1.stop = {"endtry"}
                               THEN {<<"EmptyExcept", Head1.at>>} ELSE {}
    /\ verdict' = IF look.kind = "eof" THEN "parsed" ELSE verdict
    /\ UNCHANGED <<words, tokens, look, events, statementLines, methods>>

EmptyStatement ==
    /\ Doing("body") /\ look.kind \notin Head1.stop /\ look.kind = ";"
    /\ Consume(agenda)
    /\ UNCHANGED <<words, events, statementLines, reports, methods, verdict>>

Misplaced(kind) ==
    \/ kind = "return" /\ ~ InMethod
    \/ kind \in {"break", "continue"} /\ ~ In({"enddo"})

\* Mutant: the statement after a directive is like any other.
AfterAnything(kind) == After(kind, Len(tokens) + 1, Head1.terminated)

AfterIt(kind) == After(kind, Len(tokens) + 1, Head1.terminated /\ look.after = "no")

StartStatement ==
    /\ Doing("body") /\ look.kind \notin Head1.stop \cup {";"}
    /\ IF \/ look.kind = "eof"
          \/ look.kind \in MethodKinds \cup {"async"} /\ Head1.stop # {"eof"}
       THEN Fail
       ELSE /\ statementLines' = statementLines \cup {look.line}
            /\ agenda' = Statement(look.kind) \o <<AfterIt(look.kind)>> \o agenda
            /\ reports' = reports \cup IF Misplaced(look.kind)
                                       THEN {<<"ParseError", Len(tokens) + 1>>} ELSE {}
            /\ UNCHANGED <<words, tokens, look, events, methods, verdict>>

Terminated(kind, before) == kind # "~" /\ (before \/ kind \in Jumps)

EndStatement ==
    /\ Doing("after")
    /\ LET block == [agenda[2] EXCEPT !.empty = FALSE,
                                    !.terminated = Terminated(Head1.kind, Head1.terminated)]
           rest == <<block>> \o SubSeq(agenda, 3, Len(agenda))
       IN IF /\ look.kind \notin {";"} \cup block.stop
             /\ Head1.kind \notin MethodKinds \cup {"async", "~"}
          THEN Fail
          ELSE /\ IF look.kind = ";" THEN Consume(rest)
                  ELSE agenda' = rest /\ UNCHANGED <<tokens, look>>
               /\ reports' = reports \cup IF Head1.terminated /\ Head1.kind # "~"
                                          THEN {<<"UnreachableCode", Head1.at>>} ELSE {}
               /\ UNCHANGED <<words, events, statementLines, methods, verdict>>

--------------------------------------------------------------------------------
(* Methods and assignments *)

StartMethod ==
    /\ Doing("method")
    /\ IF look.kind \notin MethodKinds THEN Fail
       ELSE /\ Consume(MethodRest(look.kind) \o Tail(agenda))
            /\ methods' = Append(methods, [parameters |-> <<>>, locals |-> <<>>,
                                           reads |-> {}, dynamic |-> FALSE])
            /\ UNCHANGED <<words, events, statementLines, reports, verdict>>

\* The indent opens on the line of ")" or, if there is one, of export.
EndHeader ==
    /\ Doing("header end")
    /\ IF look.kind = "export" THEN Consume(Tail(agenda)) /\ Event(look.line, 1)
       ELSE /\ agenda' = Tail(agenda) /\ Event(tokens[Len(tokens)].line, 1)
            /\ UNCHANGED <<tokens, look>>
    /\ UNCHANGED <<words, statementLines, reports, methods, verdict>>

\* An expression at the beginning: a call, or what is assigned to, which is read
\* unless it is a variable.
StartExpression ==
    /\ Doing("target")
    /\ IF TooDeep \/ look.kind # "expr" THEN Fail
       ELSE /\ Consume(<<[do |-> "assign", node |-> look.node, names |-> look.names]>> \o Tail(agenda))
            /\ UNCHANGED <<words, events, statementLines, reports, methods, verdict>>

AssignOrCall ==
    /\ Doing("assign")
    /\ IF look.kind = "="
       THEN IF Head1.node \notin {"identifier", "member"} THEN Fail
            ELSE /\ Consume(<<Read>> \o Tail(agenda))
                 /\ Reads(IF Head1.node = "identifier" THEN {} ELSE Head1.names, FALSE)
                 /\ UNCHANGED <<words, events, statementLines, reports, verdict>>
       ELSE IF Head1.node # "call" THEN Fail
            ELSE /\ agenda' = Tail(agenda) /\ Reads(Head1.names, FALSE)
                 /\ UNCHANGED <<words, tokens, look, events, statementLines, reports, verdict>>

ParserNext ==
    \/ TakeToken \/ AcceptToken \/ Decide \/ Expression \/ TakeName
    \/ EnterBlock \/ LeaveBlock \/ EmptyStatement \/ StartStatement \/ EndStatement
    \/ StartMethod \/ EndHeader \/ StartExpression \/ AssignOrCall

ParserSpec == ParserInit /\ [][ParserNext]_parserVars

--------------------------------------------------------------------------------
(* What is made of the result *)

\* _semantic: with an #if in the text nothing is said of variables.
Conditional == \E n \in DOMAIN tokens : tokens[n].after = "#if"

Unused(m) ==
    IF Conditional \/ m.dynamic THEN {} ELSE ToSet(m.locals) \ m.reads

Repeated(m) ==
    IF Conditional THEN {}
    ELSE {n \in DOMAIN m.locals :
             m.locals[n] \in ToSet(m.parameters) \cup ToSet(SubSeq(m.locals, 1, n - 1))}

\* format_source: the indent of a line, from the events of the lines before it.
NotBelowZero(n) == IF n < 0 THEN 0 ELSE n

DepthBefore(line) ==
    FoldLeft(LAMBDA depth, n : NotBelowZero(depth + n), 0, SubSeq(events, 1, line - 1))

Closers == Ends \cup Middles

Indent(line, first) ==
    IF first \in Closers THEN NotBelowZero(DepthBefore(line) - 1)
    ELSE IF line \in statementLines THEN DepthBefore(line) ELSE DepthBefore(line) + 1

--------------------------------------------------------------------------------
(* Properties. They are about the tokens alone, without a parser: a statement    *)
(* starts after a separator or after what opens a block, and keywords are        *)
(* counted.                                                                      *)

ParserTypeOK ==
    /\ verdict \in {"parsing", "parsed", "failed"}
    /\ verdict = "parsing" => agenda # <<>> /\ look.line \in 1 .. words.lines
    /\ statementLines \subseteq 1 .. words.lines
    /\ Cardinality(Blocks) <= MaxDepth /\ Len(tokens) <= words.tokens

Parsed == verdict = "parsed" /\ \A r \in reports : r[1] # "ParseError"

Starts(i) ==
    /\ tokens[i].kind \notin Closers \cup {";", "export"}
    /\ \/ i = 1
       \/ tokens[i - 1].kind \in {";", "then", "else", "do", "try", "except", ":", ")",
                                 "export", "endprocedure", "endfunction"}

Nesting(i) == Cardinality({j \in 1 .. i - 1 : tokens[j].kind \in Openers})
              - Cardinality({j \in 1 .. i - 1 : tokens[j].kind \in Ends})

\* The two tokens are in one block: nothing between them closes it.
SameBlock(j, i) ==
    /\ Nesting(i) = Nesting(j)
    /\ \A k \in j + 1 .. i : Nesting(k) >= Nesting(j)
    /\ \A k \in j + 1 .. i - 1 : tokens[k].kind \in Middles => Nesting(k) > Nesting(j)

\* Formatting: a line that a statement starts on is indented as deep as it is
\* nested, one that closes a block or a branch as deep as what it belongs to, one
\* that goes on with a statement a step deeper than that statement. (Of a line that
\* begins with ";", or goes on with one statement and starts another, nothing is said.)
IndentIsNesting ==
    Parsed =>
        \A i \in DOMAIN tokens :
            LET line == tokens[i].line
                kind == tokens[i].kind
                Begins(j) == Starts(j) \/ tokens[j].kind = "elsif"
                begun == Max({0} \cup {j \in 1 .. i : Begins(j)})
                own == IF tokens[begun].kind = "elsif" THEN Nesting(begun) - 1 ELSE Nesting(begun)
            IN (\A j \in 1 .. i - 1 : tokens[j].line < line) =>
                  CASE kind \in Closers -> Indent(line, kind) = Nesting(i) - 1
                    [] Starts(i) -> Indent(line, kind) = Nesting(i)
                    [] kind = ";" -> TRUE
                    [] OTHER -> \/ \E j \in DOMAIN tokens : tokens[j].line = line /\ Starts(j)
                                \/ Indent(line, kind) = own + 1

\* A statement is reported unreachable exactly if an unconditional jump precedes
\* it in its block, with no label and nothing behind a directive from the jump on.
UnreachableIsBehindJump ==
    Parsed =>
        \A i \in DOMAIN tokens :
            (<<"UnreachableCode", i>> \in reports) <=>
                /\ Starts(i)
                /\ \E j \in 1 .. i - 1 :
                      /\ Starts(j) /\ tokens[j].kind \in Jumps /\ SameBlock(j, i)
                      /\ \A k \in j + 1 .. i :
                            Starts(k) /\ SameBlock(k, i) =>
                                tokens[k].kind # "~" /\ tokens[k].after = "no"

\* A local variable is reported unused exactly if no expression of its method
\* reads it, wherever it stands: conditions, branches, loops and handlers, but
\* neither the variable assigned to nor the default of a parameter.
UnusedIsNeverRead ==
    Parsed =>
        \A m \in DOMAIN methods :
            LET ends == {i \in DOMAIN tokens : tokens[i].kind \in {"endprocedure", "endfunction"}}
                last == CHOOSE i \in ends : Cardinality({j \in ends : j <= i}) = m
                first == Max({i \in 1 .. last : tokens[i].kind = ")"})
                declared == {i \in first .. last : \E j \in first .. i :
                                /\ tokens[j].kind = "var"
                                /\ \A k \in j + 1 .. i : tokens[k].kind \in {"expr", ","}}
                other == {i \in first .. last : tokens[i - 1].kind \in {"for", "each", "~"}}
                reading == {i \in first .. last :
                               /\ tokens[i].kind = "expr" /\ i \notin declared \cup other
                               /\ ~ (Starts(i) /\ tokens[i].node = "identifier")}
                Names(is) == UNION {tokens[i].names : i \in is}
                silent == \/ \E i \in first .. last : tokens[i].kind = "execute"
                          \/ \E i \in DOMAIN tokens : tokens[i].after = "#if"
            IN Unused(methods[m]) = IF silent THEN {} ELSE Names(declared) \ Names(reading)

================================================================================
