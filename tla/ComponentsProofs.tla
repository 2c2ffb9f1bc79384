---------------------------- MODULE ComponentsProofs ----------------------------
(***************************************************************************)
(* The components of MCComponents side by side: what is proved of each     *)
(* alone holds of all of them together, because a step of one is no step   *)
(* of another.                                                             *)
(***************************************************************************)
EXTENDS MCComponents, InstallerProofs, DumpProofs, ParserProofs

\* Where a component stands still it starts as it may start by itself.
LEMMA EachBegins ==
    ComponentsInit => /\ Init /\ ExportInit /\ HbkInit /\ ExtInit /\ SearchInit
                      /\ ParserInit /\ ExpressionInit /\ DirectivesInit
BY DEF ComponentsInit, InstallerIdle, SearchIdle, ParserIdle, ExpressionIdle

\* A step is one of a component and leaves the others alone.
LEMMA EachSteps ==
    ASSUME [ComponentsNext]_componentVars
    PROVE  /\ [Next]_vars /\ [ExportNext]_exportVars /\ [Reading]_hbkVars /\ [ExtNext]_extVars
           /\ [SearchNext]_searchVars /\ [ParserNext]_parserVars
           /\ [ExpressionNext]_expressionVars /\ [DirectivesNext]_directiveVars
<1>1. CASE ComponentsNext
  BY <1>1 DEF ComponentsNext
<1>2. CASE UNCHANGED componentVars
  BY <1>2 DEF componentVars
<1> QED
  BY <1>1, <1>2

\* What starts and steps as each component does is a behaviour of each.
LEMMA EachBehaves ==
    ComponentsSpec => /\ Spec /\ ExportSpec /\ HbkSpec /\ RootsSpec /\ SearchSpec
                      /\ ParserSpec /\ ExpressionSpec /\ DirectivesSpec
<1>1. ComponentsInit => /\ Init /\ ExportInit /\ HbkInit /\ ExtInit /\ SearchInit
                        /\ ParserInit /\ ExpressionInit /\ DirectivesInit
  BY EachBegins
<1>2. [ComponentsNext]_componentVars =>
         /\ [Next]_vars /\ [ExportNext]_exportVars /\ [Reading]_hbkVars /\ [ExtNext]_extVars
         /\ [SearchNext]_searchVars /\ [ParserNext]_parserVars
         /\ [ExpressionNext]_expressionVars /\ [DirectivesNext]_directiveVars
  BY EachSteps
<1> QED
  BY <1>1, <1>2, PTL DEF ComponentsSpec, Spec, ExportSpec, HbkSpec, RootsSpec, SearchSpec,
                         ParserSpec, ExpressionSpec, DirectivesSpec

\* For all extensions, dumps, questions, vocabularies and limits: the installer, the
\* export, the help container, the scan of a dump, the search and the parsers of
\* statements and expressions keep their types and their limits.
THEOREM ComponentsTypeCorrect == ComponentsSpec => []TypesOK
<1>1. TypeOK /\ ExportTypeOK /\ HbkTypeOK /\ ExtTypeOK /\ SearchTypeOK /\ ParserTypeOK
         /\ ExpressionTypeOK => TypesOK
  BY DEF TypesOK
<1> QED
  BY <1>1, EachBehaves, TypeCorrect, ExportTypeCorrect, HbkTypeCorrect, ScanTypeCorrect,
     SearchTypeCorrect, ParserTypeCorrect, ExpressionTypeCorrect, PTL

================================================================================
