---------------------------- MODULE ScriptProofs ----------------------------
(***************************************************************************)
(* Theorems about the pages' scripts and the widgets together              *)
(* (MCPageScripts): the composition implements the specification of each   *)
(* of its parts, and so has what is proved of each, for every value of     *)
(* the constants and not only for those of the run.                        *)
(***************************************************************************)
EXTENDS MCPageScripts, PageProofs, WidgetProofs

\* A script that is not in use starts like one that is.
LEMMA EachStarts ==
  ScriptInit => /\ PqInit /\ FbInit /\ HsInit /\ HpInit /\ PrInit
                /\ CSInit /\ MoInit /\ CoInit /\ CaInit /\ CyInit /\ TtInit
  <1>. SUFFICES ASSUME ScriptInit
                PROVE  /\ PqInit /\ FbInit /\ HsInit /\ HpInit /\ PrInit
                       /\ CSInit /\ MoInit /\ CoInit /\ CaInit /\ CyInit /\ TtInit
    OBVIOUS
  <1>1. PqInit
    <2>1. PqInit \/ PqStart("buy_now", 1)
      BY DEF ScriptInit
    <2>. QED
      BY <2>1, ScriptAssumption DEF PqInit, TicketPages
  <1>2. FbInit
    <2>1. FbInit \/ FbStart(FbNone)
      BY DEF ScriptInit
    <2>2. FbNone \in [FbUsers -> {<<>>} \cup {<<m>> : m \in FbMarks}]
      BY DEF FbNone
    <2>. QED
      BY <2>1, <2>2 DEF FbInit
  <1>3. HsInit
    <2>1. HsInit \/ HsStart(AnyOrder)
      BY DEF ScriptInit
    <2>2. \E order : order \in SetToSeqs(Halls)
      <3>1. PICK order : order \in Bijection(1..Cardinality(Halls), Halls)
        BY SortingAssumption, FS_CardinalityType DEF ExistsBijection
      <3>. QED
        BY <3>1 DEF Bijection, Injection, IsInjective, SetToSeqs
    <2>. QED
      BY <2>1, <2>2 DEF AnyOrder, HsInit
  <1>4. HpInit
    <2>1. HpInit \/ HpStart(2, "wide", d1)
      BY DEF ScriptInit
    <2>. QED
      BY <2>1, ScriptAssumption DEF HpInit, Widths
  <1>5. PrInit
    <2>1. PrInit \/ PrStart([h \in PrHalls |-> {}], 1)
      BY DEF ScriptInit
    <2>2. {} \in PrPrograms
      BY DEF PrPrograms
    <2>3. [h \in PrHalls |-> {}] \in [PrHalls -> PrPrograms]
      BY <2>2
    <2>4. 1 \in 1..(2 * PrLast)
      BY ScriptAssumption, PassedAssumption
    <2>. QED
      BY <2>1, <2>3, <2>4 DEF PrInit
  <1>6. CSInit /\ MoInit /\ CaInit
    <2>1. CSInit \/ CSStart(TRUE, FALSE)
      BY DEF ScriptInit
    <2>2. MoInit \/ MoStart(TRUE)
      BY DEF ScriptInit
    <2>3. CaInit \/ CaStart(TRUE)
      BY DEF ScriptInit
    <2>. QED
      BY <2>1, <2>2, <2>3 DEF CSInit, MoInit, CaInit
  <1>7. CoInit
    <2>1. CoInit \/ CoStart(TRUE, {})
      BY DEF ScriptInit
    <2>. QED
      BY <2>1 DEF CoInit
  <1>8. CyInit
    <2>1. CyInit \/ CyStart(Show("sequence", "wrap", TRUE, FALSE, TRUE), "away")
      BY DEF ScriptInit
    <2>. QED
      BY <2>1, ScriptAssumption DEF CyInit
  <1>9. TtInit
    <2>1. TtInit \/ TtStart({}, TRUE)
      BY DEF ScriptInit
    <2>. QED
      BY <2>1 DEF TtInit
  <1>. QED
    BY <1>1, <1>2, <1>3, <1>4, <1>5, <1>6, <1>7, <1>8, <1>9

\* A step of the composition is a step of one script, and the others stutter.
LEMMA EachSteps ==
  ASSUME [ScriptNext]_scriptVars
  PROVE  /\ [PqNext]_pqVars /\ [FbNext]_fbVars /\ [HsNext]_hsVars /\ [HpNextStep]_hpVars
         /\ [PrNext]_prVars /\ [CSNext]_csVars /\ [MoNext]_moVars /\ [CoNext]_coVars
         /\ [CaNext]_caVars /\ [CyNextStep]_cyVars /\ [TtNext]_ttVars
         /\ on' = on
  <1>1. CASE UNCHANGED scriptVars
    BY <1>1 DEF scriptVars
  <1>2. CASE Only("queries") /\ PqNext
    BY <1>2 DEF Only
  <1>3. CASE Only("feedback") /\ FbNext
    BY <1>3 DEF Only
  <1>4. CASE Only("sorting") /\ HsNext
    BY <1>4 DEF Only
  <1>5. CASE Only("columns") /\ HpNextStep
    BY <1>5 DEF Only
  <1>6. CASE Only("passed") /\ PrNext
    BY <1>6 DEF Only
  <1>7. CASE Only("cslider") /\ CSNext
    BY <1>7 DEF Only
  <1>8. CASE Only("modal") /\ MoNext
    BY <1>8 DEF Only
  <1>9. CASE Only("collapse") /\ CoNext
    BY <1>9 DEF Only
  <1>10. CASE Only("carousel") /\ CaNext
    BY <1>10 DEF Only
  <1>11. CASE Only("cycle") /\ CyNextStep
    BY <1>11 DEF Only
  <1>12. CASE Only("tooltip") /\ TtNext
    BY <1>12 DEF Only
  <1>. QED
    BY <1>1, <1>2, <1>3, <1>4, <1>5, <1>6, <1>7, <1>8, <1>9, <1>10, <1>11, <1>12 DEF ScriptNext

\* The composition implements each script's own specification: what the other
\* ten do cannot be seen in its variables.
THEOREM ScriptsImplementEach ==
  ScriptSpec => /\ PqSpec /\ FbSpec /\ HsSpec /\ HpSpec /\ PrSpec
                /\ CSSpec /\ MoSpec /\ CoSpec /\ CaSpec /\ CySpec /\ TtSpec
  <1>1. [ScriptNext]_scriptVars =>
          /\ [PqNext]_pqVars /\ [FbNext]_fbVars /\ [HsNext]_hsVars /\ [HpNextStep]_hpVars
          /\ [PrNext]_prVars /\ [CSNext]_csVars /\ [MoNext]_moVars /\ [CoNext]_coVars
          /\ [CaNext]_caVars /\ [CyNextStep]_cyVars /\ [TtNext]_ttVars
    BY EachSteps
  <1>. QED
    BY <1>1, EachStarts, PTL
       DEF ScriptSpec, PqSpec, FbSpec, HsSpec, HpSpec, PrSpec, CSSpec, MoSpec, CoSpec, CaSpec, CySpec, TtSpec

\* Each of the three slideshows displays one slide at rest, the one its counter
\* and its dot name, for any number of slides, clicks, calls and interruptions,
\* with the three exceptions that OneSlideShown names
\* (_navigate of jquery.cslider.js, slide() of bootstrap.js, go() of cycle.js).
THEOREM OneSlideShownAlways == ScriptSpec => []OneSlideShown
  <1>1. CSOneCurrent /\ OneItemActive /\ CyCurrentShown => OneSlideShown
    BY DEF OneSlideShown
  <1>. QED
    BY <1>1, ScriptsImplementEach, OneCurrentAlways, OneItemActiveAlways, CurrentShownAlways, PTL

\* The classes, attributes, timers and counters of every script stay those they
\* can have, for every value of the constants.
THEOREM ScriptTypesAlways == ScriptSpec => []TypeOK
  <1>1. ScriptInit => on \in Scripts
    BY DEF ScriptInit
  <1>2. on \in Scripts /\ [ScriptNext]_scriptVars => (on \in Scripts)'
    BY EachSteps
  <1>3. ScriptSpec => [](on \in Scripts)
    BY <1>1, <1>2, PTL DEF ScriptSpec
  <1>4. /\ on \in Scripts /\ PqTypeOK /\ FbTypeOK /\ HsTypeOK /\ HpTypeOK /\ PrTypeOK
        /\ CSTypeOK /\ MoTypeOK /\ CoTypeOK /\ CaTypeOK /\ CyTypeOK /\ TtTypeOK
        => TypeOK
    BY DEF TypeOK
  <1>. QED
    BY <1>3, <1>4, ScriptsImplementEach, QueryTypesAlways, MarkTypesAlways, SortTypesAlways,
       ColumnTypesAlways, RowTypesAlways, SliderTypesAlways, ModalTypesAlways, PanelTypesAlways,
       CarouselTypesAlways, CycleTypesAlways, TipTypesAlways, PTL

\* Whatever holds of a script alone holds of it on the pages: all the other
\* invariants that are checked on the small instance of the composition.
THEOREM ScriptInvariantsAlways ==
  ScriptSpec => [](/\ AnswerIsOfChoice /\ MarksCountOnce /\ SavedAsShown /\ ColumnsAreAPage
                   /\ PhoneButtons /\ NoRunningHidden /\ CSOneSlideshow /\ ModalSettles
                   /\ OnePanelOpen /\ WaitingToIsWoken /\ CyOneTimeout /\ TipFollows)
  BY ScriptsImplementEach, AnswerIsOfChoiceAlways, MarksCountOnceAlways, SavedAsShownAlways,
     ColumnsAreAPageAlways, PhoneButtonsAlways, NoRunningHiddenAlways, OneSlideshowAlways,
     ModalSettlesAlways, OnePanelOpenAlways, WaitingToIsWokenAlways, OneTimeoutAlways,
     TipFollowsAlways, PTL

=============================================================================
