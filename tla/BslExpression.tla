------------------------------ MODULE BslExpression ------------------------------
(***************************************************************************)
(* Expressions of BSL: expression() and arguments() of                     *)
(* src/mcp_baf/bsl_native/parser.py, as statement() calls them where an    *)
(* assignment or a call may stand. What comes out is the kind of the node  *)
(* and the identifiers it reads.                                           *)
(*                                                                         *)
(* Abstractions.                                                           *)
(*  - One token stands for all that are treated alike: "not" for the other *)
(*    unary operators, "literal" for numbers and dates, "true" for the     *)
(*    literals that are words, "keyword" for a word that can only be the   *)
(*    name of a member.                                                    *)
(*  - `calls` are the calls of expression() that are open, innermost last, *)
(*    where each of them stands. Reads are positions of tokens.            *)
(***************************************************************************)
EXTENDS Naturals, SequencesExt

CONSTANTS
    TokenKinds, \* the kinds of tokens in the text
    MaxLength,  \* bound on its length
    DepthLimit  \* 100

ASSUME ExpressionAssumption == MaxLength \in Nat \ {0} /\ DepthLimit \in Nat \ {0}

VARIABLES
    text,    \* the tokens taken
    seen,    \* self.current
    calls,   \* the open calls of expression()
    result   \* the node, or "parsing", or "failed"

expressionVars == <<text, seen, calls, result>>

Precedence == [k \in {"=", "+", "*"} |-> CASE k = "=" -> 3 [] k = "+" -> 4 [] k = "*" -> 5]

Call(minimum) == [at |-> "operand", min |-> minimum, node |-> "none", reads |-> {}]

ExpressionInit ==
    /\ text = <<>> /\ seen \in TokenKinds
    /\ calls = <<Call(4)>> /\ result = [node |-> "parsing", reads |-> {}]

Top == calls[Len(calls)]
At(place) == result.node = "parsing" /\ Top.at = place

\* ParseFailure. Nothing else is kept of a text that fails.
Reject == /\ result' = [node |-> "failed", reads |-> {}]
          /\ text' = <<>> /\ calls' = <<>> /\ seen' = "eof"

\* take(): then the parser looks at the next token.
Advance ==
    /\ text' = Append(text, seen)
    /\ seen' \in IF Len(text) + 1 < MaxLength THEN TokenKinds \cup {"eof"} ELSE {"eof"}

\* The innermost call goes on as `call`, or calls expression(minimum) and waits.
Goes(call) == calls' = [calls EXCEPT ![Len(calls)] = call] /\ UNCHANGED result
Waits(call, minimum) ==
    calls' = Append([calls EXCEPT ![Len(calls)] = call], Call(minimum)) /\ UNCHANGED result

Tail1(node, reads) == [Top EXCEPT !.at = "tail", !.node = node, !.reads = reads]

--------------------------------------------------------------------------------
(* The operand *)

Fits == Len(calls) <= DepthLimit

TooNested == At("operand") /\ ~ Fits /\ Reject

Unary ==
    /\ At("operand") /\ Fits /\ seen \in {"not", "+"}
    /\ Advance /\ Waits([Top EXCEPT !.at = "unary"], 6)

Group ==
    /\ At("operand") /\ Fits /\ seen = "("
    /\ Advance /\ Waits([Top EXCEPT !.at = "group"], 0)

Simple ==
    /\ At("operand") /\ Fits /\ seen \notin {"not", "+", "("}
    /\ CASE seen = "identifier" -> Advance /\ Goes(Tail1("identifier", {Len(text) + 1}))
         [] seen \in {"literal", "true", "string"} -> Advance /\ Goes(Tail1(seen, {}))
         [] seen = "new" -> Advance /\ Goes([Top EXCEPT !.at = "type"])
         [] seen = "?" -> Advance /\ Goes([Top EXCEPT !.at = "arguments", !.node = "conditional"])
         [] OTHER -> Reject

\* new Name, new Name(...), new (...): the name is a type, which is not read.
NewType ==
    /\ At("type")
    /\ CASE seen = "(" -> Goes([Top EXCEPT !.at = "arguments", !.node = "new"]) /\ UNCHANGED <<text, seen>>
         [] seen = "identifier" -> Advance /\ Goes([Top EXCEPT !.at = "typed"])
         [] OTHER -> Reject

NewArguments ==
    /\ At("typed")
    /\ Goes([Top EXCEPT !.at = IF seen = "(" THEN "arguments" ELSE "tail", !.node = "new"])
    /\ UNCHANGED <<text, seen>>

--------------------------------------------------------------------------------
(* arguments(): an expression, a comma or the end; after an expression, one of   *)
(* the last two.                                                                 *)

OpenArguments ==
    /\ At("arguments")
    /\ IF seen = "(" THEN Advance /\ Goes([Top EXCEPT !.at = "next argument"]) ELSE Reject

NextArgument ==
    /\ At("next argument")
    /\ CASE seen = ")" -> Advance /\ Goes([Top EXCEPT !.at = "tail"])
         [] seen = "eof" -> Reject
         [] seen = "," -> Advance /\ Goes(Top)
         [] OTHER -> Waits([Top EXCEPT !.at = "argument"], 0) /\ UNCHANGED <<text, seen>>

AfterArgument ==
    /\ At("after argument")
    /\ CASE seen = ")" -> Advance /\ Goes([Top EXCEPT !.at = "tail"])
         [] seen = "," -> Advance /\ Goes([Top EXCEPT !.at = "next argument"])
         [] OTHER -> Reject

--------------------------------------------------------------------------------
(* What may follow an operand *)

NameLike == {"identifier", "keyword", "true", "not", "new"}

Strings ==
    /\ At("tail") /\ Top.node = "string" /\ seen = "string" /\ Advance /\ Goes(Top)

\* Any word may name a member.
Member ==
    /\ At("tail") /\ seen = "." /\ Advance /\ Goes([Top EXCEPT !.at = "member"])

MemberName ==
    /\ At("member")
    /\ IF seen \in NameLike THEN Advance /\ Goes(Tail1("member", Top.reads)) ELSE Reject

\* Mutant: the name of a called method counts as read.
CallReadsName(call) == call.reads

\* The name of a called method is not read; of anything else that is called, all is.
CallReads(call) == IF call.node = "identifier" THEN {} ELSE call.reads

CallMethod ==
    /\ At("tail") /\ seen = "("
    /\ Goes([Top EXCEPT !.at = "arguments", !.node = "call", !.reads = CallReads(Top)])
    /\ UNCHANGED <<text, seen>>

Index ==
    /\ At("tail") /\ seen = "[" /\ Advance /\ Waits([Top EXCEPT !.at = "index"], 0)

Binds(kind, minimum) == kind \in DOMAIN Precedence /\ Precedence[kind] >= minimum

Binary ==
    /\ At("tail") /\ Binds(seen, Top.min)
    /\ Advance /\ Waits([Top EXCEPT !.at = "binary"], Precedence[seen] + 1)

\* Where the call that waited goes on, with the node and the reads of the other.
Resumed(call, reads) ==
    CASE call.at = "unary" -> [call EXCEPT !.at = "tail", !.node = "unary", !.reads = reads]
      [] call.at = "group" -> [call EXCEPT !.at = "close group", !.reads = reads]
      [] call.at = "argument" -> [call EXCEPT !.at = "after argument", !.reads = @ \cup reads]
      [] call.at = "index" -> [call EXCEPT !.at = "close index", !.reads = @ \cup reads]
      [] call.at = "binary" -> [call EXCEPT !.at = "tail", !.node = "binary", !.reads = @ \cup reads]

Return ==
    /\ At("tail") /\ seen \notin {".", "(", "["} /\ ~ Binds(seen, Top.min)
    /\ ~ (Top.node = "string" /\ seen = "string")
    /\ IF Len(calls) = 1
       THEN calls' = <<>> /\ result' = [node |-> Top.node, reads |-> Top.reads]
       ELSE /\ calls' = [Front(calls) EXCEPT ![Len(calls) - 1] = Resumed(@, Top.reads)]
            /\ UNCHANGED result
    /\ UNCHANGED <<text, seen>>

Close ==
    /\ At("close group") \/ At("close index")
    /\ IF seen = (IF Top.at = "close group" THEN ")" ELSE "]")
       THEN Advance /\ Goes(Tail1(IF Top.at = "close group" THEN "group" ELSE "index", Top.reads))
       ELSE Reject

ExpressionNext ==
    \/ TooNested \/ Unary \/ Group \/ Simple \/ NewType \/ NewArguments
    \/ OpenArguments \/ NextArgument \/ AfterArgument
    \/ Strings \/ Member \/ MemberName \/ CallMethod \/ Index \/ Binary \/ Return \/ Close

ExpressionSpec == ExpressionInit /\ [][ExpressionNext]_expressionVars

--------------------------------------------------------------------------------
(* Properties *)

ExpressionTypeOK ==
    /\ Len(text) <= MaxLength /\ Len(calls) <= DepthLimit + 1
    /\ result.node = "parsing" <=> calls # <<>>
    /\ result.reads \subseteq DOMAIN text

ExpressionParsed == result.node \notin {"parsing", "failed"}

\* However an expression nests, what it reads are exactly the identifiers in it
\* that name neither a member, nor a type, nor a method that is called.
ReadsAreExact ==
    ExpressionParsed =>
        result.reads = {i \in DOMAIN text :
            /\ text[i] = "identifier"
            /\ i = 1 \/ text[i - 1] \notin {".", "new"}
            /\ i = Len(text) \/ text[i + 1] # "("}

Outside(i) == Cardinality({j \in 1 .. i : text[j] \in {"(", "["}})
              = Cardinality({j \in 1 .. i : text[j] \in {")", "]"}})

\* What may stand left of an assignment, by its tokens: a variable alone, or what
\* ends in a member or an index with no operator outside of brackets; and a
\* comparison is never swallowed, so that its "=" is left for the assignment.
TargetIsPlace ==
    ExpressionParsed =>
        LET last == Len(text)
            operator == \E i \in DOMAIN text :
                /\ Outside(i) /\ text[i] \in {"+", "*", "not"}
                /\ i = 1 \/ text[i - 1] # "."
        IN /\ (result.node \in {"identifier", "member", "index"}) <=>
                 /\ ~ operator
                 /\ \/ last = 1 /\ text[1] = "identifier"
                    \/ last > 1 /\ (text[last - 1] = "." \/ text[last] = "]")
           /\ \A i \in DOMAIN text : text[i] = "=" => ~ Outside(i)

\* What the checks of the analysis know of an expression, its node and its reads,
\* is what its tokens say.
ExpressionIsExact == ReadsAreExact /\ TargetIsPlace

================================================================================
