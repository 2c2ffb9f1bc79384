------------------------------ MODULE BslDirectives ------------------------------
(***************************************************************************)
(* The check of the preprocessor directives of a text: _directives of      *)
(* src/mcp_baf/bsl_native/__init__.py. A text with an error here is        *)
(* neither parsed nor formatted. The directives come one at a time; of     *)
(* others than the six kinds nothing is asked.                             *)
(***************************************************************************)
EXTENDS Integers, SequencesExt

CONSTANT MaxDirectives  \* bound on the directives of a text

ASSUME DirectivesAssumption == MaxDirectives \in Nat

VARIABLES
    directives, \* the kinds met so far
    open,       \* stack: [kind, else] records
    errors      \* the directives with a diagnostic

directiveVars == <<directives, open, errors>>

DirectiveKinds == {"if", "elsif", "else", "endif", "region", "endregion"}

DirectivesInit == directives = <<>> /\ open = <<>> /\ errors = {}

Innermost(kind) == open # <<>> /\ Last(open).kind = kind

Meet(kind) ==
    /\ Len(directives) < MaxDirectives
    /\ directives' = Append(directives, kind)

Blame == errors' = errors \cup {Len(directives) + 1}

OpenDirective ==
    \E kind \in {"if", "region"} :
        /\ Meet(kind) /\ open' = Append(open, [kind |-> kind, else |-> FALSE])
        /\ UNCHANGED errors

\* Mutant: whether there was an else already is not asked.
BranchAnyIf(kind) == Innermost("if")

\* A branch belongs to the innermost if, and not behind its else.
BranchFits(kind) == Innermost("if") /\ ~ Last(open).else

BranchDirective ==
    \E kind \in {"elsif", "else"} :
        /\ Meet(kind)
        /\ IF BranchFits(kind)
           THEN /\ open' = [open EXCEPT ![Len(open)].else = (kind = "else")]
                /\ UNCHANGED errors
           ELSE Blame /\ UNCHANGED open

\* One that does not fit is reported and closes nothing.
CloseDirective ==
    \E kind \in {"endif", "endregion"} :
        /\ Meet(kind)
        /\ IF Innermost(IF kind = "endif" THEN "if" ELSE "region")
           THEN open' = Front(open) /\ UNCHANGED errors
           ELSE Blame /\ UNCHANGED open

DirectivesNext == OpenDirective \/ BranchDirective \/ CloseDirective

DirectivesSpec == DirectivesInit /\ [][DirectivesNext]_directiveVars

\* At the end of the text whatever is open is reported too.
Accepted == errors = {} /\ open = <<>>

--------------------------------------------------------------------------------
(* Properties *)

Opens == {"if", "region"}
Closes == {"endif", "endregion"}

\* Open after the first i directives, if all of them paired.
Level(i) == Cardinality({j \in 1 .. i : directives[j] \in Opens})
            - Cardinality({j \in 1 .. i : directives[j] \in Closes})

\* The opening directive the i-th one belongs to, by counting alone: the last one
\* that leads to the level that i is on.
Partner(i) == Max({0} \cup {j \in 1 .. i - 1 :
                  directives[j] \in Opens /\ Level(j) = Level(i - 1)})

PartnerIs(i, kind) == Partner(i) > 0 /\ directives[Partner(i)] = kind

\* The i-th directive belongs to one of its kind, and not behind the else of it.
Belongs(i) ==
    /\ directives[i] = "endif" => PartnerIs(i, "if")
    /\ directives[i] = "endregion" => PartnerIs(i, "region")
    /\ directives[i] \in {"elsif", "else"} =>
          /\ PartnerIs(i, "if") /\ Level(i) > 0
          /\ \A j \in Partner(i) + 1 .. i - 1 :
                directives[j] = "else" => Level(j) # Level(i)

\* A text is accepted exactly if every end has an opening directive of its kind
\* for a partner, every one of them an end, every branch an if, and no branch
\* comes after the else of the same if.
PairsAreAccepted ==
    Accepted <=>
        /\ \A i \in DOMAIN directives : Level(i) >= 0 /\ Belongs(i)
        /\ Level(Len(directives)) = 0

================================================================================
