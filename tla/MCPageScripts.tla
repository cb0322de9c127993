---------------------------- MODULE MCPageScripts ----------------------------
(***************************************************************************)
(* The scripts of the pages of the site (PageQueries, Feedback,            *)
(* HallSorting, HallPages, PassedRows) and the widgets of the markup       *)
(* (CSlider, Modal, Collapse, Carousel, Cycle, Tooltip).  They share no    *)
(* state, so their interleavings say nothing new: the visitor uses one of  *)
(* them, chosen at the start, and the others stay as they are rendered.    *)
(***************************************************************************)
EXTENDS PageQueries, Feedback, HallSorting, HallPages, PassedRows,
        CSlider, Modal, Collapse, Carousel, Cycle, Tooltip

CONSTANTS h1, h2, d1, d2, u1, u2

VARIABLE on      \* the script in use

scriptVars == <<on, pqVars, fbVars, hsVars, hpVars, prVars, csVars, moVars, coVars, caVars, cyVars, ttVars>>

Show(order, end, trump, auto, sync) ==
  [order |-> order, end |-> end, trump |-> trump, auto |-> auto, sync |-> sync]

\* Every order of the slides and every end of the show, with and without a
\* timeout, a click that trumps, and fades at the same time.
MCShows ==
  {Show("sequence", "wrap", trump, auto, sync) :
     trump \in BOOLEAN, auto \in BOOLEAN, sync \in BOOLEAN} \cup
  {Show("sequence", end, TRUE, TRUE, TRUE) : end \in {"nowrap", "autostop"}} \cup
  {Show("bounce", "wrap", TRUE, TRUE, sync) : sync \in BOOLEAN} \cup
  {Show("random", "wrap", TRUE, TRUE, TRUE), Show("backwards", "wrap", FALSE, TRUE, TRUE)}

Scripts == {"queries", "feedback", "sorting", "columns", "passed",
            "cslider", "modal", "collapse", "carousel", "cycle", "tooltip"}

\* The settings a script that is not in use starts with are of those it may have.
ASSUME ScriptAssumption ==
  /\ 1 \in PqChoices
  /\ 2 \in HallCounts /\ d1 \in Days /\ PrLast > 0
  /\ Show("sequence", "wrap", TRUE, FALSE, TRUE) \in CyShows

\* Nothing tells the halls apart, so that one order to begin with is enough.
AnyOrder == CHOOSE order \in SetToSeqs(Halls) : TRUE

ScriptInit ==
  \E m \in Scripts :
    /\ on = m
    /\ IF m = "queries" THEN PqInit ELSE PqStart("buy_now", 1)
    /\ IF m = "feedback" THEN FbInit ELSE FbStart(FbNone)
    /\ HsStart(AnyOrder)
    /\ IF m = "columns" THEN HpInit ELSE HpStart(2, "wide", d1)
    /\ IF m = "passed" THEN PrInit ELSE PrStart([h \in PrHalls |-> {}], 1)
    /\ IF m = "cslider" THEN CSInit ELSE CSStart(TRUE, FALSE)
    /\ IF m = "modal" THEN MoInit ELSE MoStart(TRUE)
    /\ IF m = "collapse" THEN CoInit ELSE CoStart(TRUE, {})
    /\ IF m = "carousel" THEN CaInit ELSE CaStart(TRUE)
    /\ IF m = "cycle" THEN CyInit ELSE CyStart(Show("sequence", "wrap", TRUE, FALSE, TRUE), "away")
    /\ IF m = "tooltip" THEN TtInit ELSE TtStart({}, TRUE)

\* Script m is in use, and the others stay as they are.
Only(m) ==
  /\ on = m /\ UNCHANGED on
  /\ m # "queries" => UNCHANGED pqVars
  /\ m # "feedback" => UNCHANGED fbVars
  /\ m # "sorting" => UNCHANGED hsVars
  /\ m # "columns" => UNCHANGED hpVars
  /\ m # "passed" => UNCHANGED prVars
  /\ m # "cslider" => UNCHANGED csVars
  /\ m # "modal" => UNCHANGED moVars
  /\ m # "collapse" => UNCHANGED coVars
  /\ m # "carousel" => UNCHANGED caVars
  /\ m # "cycle" => UNCHANGED cyVars
  /\ m # "tooltip" => UNCHANGED ttVars

ScriptNext ==
  \/ Only("queries") /\ PqNext
  \/ Only("feedback") /\ FbNext
  \/ Only("sorting") /\ HsNext
  \/ Only("columns") /\ HpNextStep
  \/ Only("passed") /\ PrNext
  \/ Only("cslider") /\ CSNext
  \/ Only("modal") /\ MoNext
  \/ Only("collapse") /\ CoNext
  \/ Only("carousel") /\ CaNext
  \/ Only("cycle") /\ CyNextStep
  \/ Only("tooltip") /\ TtNext

\* The browser's timeouts expire and its transitions and animations end; the
\* visitor and the server owe nothing.
BrowserFairness ==
  /\ WF_scriptVars(Only("cslider") /\ CSTimer)
  /\ WF_scriptVars(Only("cslider") /\ (CSTransitionEnd \/ CSFallbackEnd))
  /\ WF_scriptVars(Only("modal") /\ MoTimer)
  /\ WF_scriptVars(Only("modal") /\ MoElementEnd)
  /\ WF_scriptVars(Only("modal") /\ \E b \in Backdrops : MoBackdropEnd(b))
  /\ WF_scriptVars(Only("cycle") /\ CyTimeout)
  /\ WF_scriptVars(Only("cycle") /\ (CyTransitionEnd \/ \E s \in CySlides : CyFxEnd(s)))

ScriptSpec == ScriptInit /\ [][ScriptNext]_scriptVars /\ BrowserFairness

-----------------------------------------------------------------------------
\* The variables of every script have the types its classes, attributes and
\* timers can have.
TypeOK ==
  /\ on \in Scripts
  /\ PqTypeOK /\ FbTypeOK /\ HsTypeOK /\ HpTypeOK /\ PrTypeOK
  /\ CSTypeOK /\ MoTypeOK /\ CoTypeOK /\ CaTypeOK /\ CyTypeOK /\ TtTypeOK

\* Each of the three kinds of slideshow displays exactly one slide at rest, the
\* one its counter and its dot name, whoever moves it and whatever a move
\* interrupts (_navigate of jquery.cslider.js, slide() of bootstrap.js, go() of
\* cycle.js).  Three things are left out: the cslider's slides where there are no
\* CSS animations, of which only the dot is compared; a carousel that has refused
\* a slide, which keeps its one item; and cycle shows that are not CyOrderly.
OneSlideShown == CSOneCurrent /\ OneItemActive /\ CyCurrentShown

\* A slider that plays on its own comes to every slide, until the visitor takes
\* over (_startSlideshow of jquery.cslider.js).
EverySlideShown ==
  \A s \in CSIndex : (on = "cslider" /\ csAutoplay) ~> (csCurrent = s \/ ~csAutoplay)

\* A show that wraps, has a timeout and is neither paused nor stopped does not
\* stay on a slide for ever, whatever was clicked before (go() and queueNext()
\* of cycle.js).
CyKeepsGoing ==
  \A s \in CySlides :
    (on = "cycle" /\ CyWaits(s)) ~> (~CyWaits(s) \/ cyPause # 0 \/ CyStopped)

=============================================================================
