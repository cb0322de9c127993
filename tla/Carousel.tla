------------------------------ MODULE Carousel ------------------------------
(***************************************************************************)
(* Bootstrap's carousel, html/js/bootstrap.js: items that slide at an      *)
(* interval, on clicks and on calls of to(); the pointer over it pauses    *)
(* it.  The end of a slide is the end of a transition, or is forced by     *)
(* pause(); a call of to() during a slide waits for the event "slid".  A   *)
(* slide to the only item, or one that a handler of the event "slide"      *)
(* prevents, is refused, and sliding stays set for good.                   *)
(***************************************************************************)
EXTENDS Integers, Sequences, FiniteSets

CONSTANTS
  Items,        \* how many items
  MaxQueue,     \* bound: calls of to() that wait, and events slid to come
  MaxLeaks      \* bound: intervals nobody can clear any more

ASSUME ItemsAssumption ==
  Items \in Nat \ {0} /\ MaxQueue \in Nat \ {0} /\ MaxLeaks \in Nat

VARIABLES
  caCss,        \* transitions are supported and the class slide is set
  caActive,     \* the items with the class active
  caSliding,    \* sliding
  caMove,       \* <<>>, or <<from, to>> of the handler of the transition's end
  caPaused,     \* paused
  caHandle,     \* this.interval is a running interval
  caLeaks,      \* running intervals that this.interval no longer refers to
  caQueue,      \* positions that wait for slid
  caSlid,       \* timeouts pending that trigger slid
  caRefused     \* ghost: slide() has returned early

caVars == <<caCss, caActive, caSliding, caMove, caPaused, caHandle, caLeaks, caQueue, caSlid,
            caRefused>>

CaIndex == 0..(Items - 1)
CaPos == CHOOSE i \in CaIndex : i \in caActive
CaSucc == (CaPos + 1) % Items
CaPred == (CaPos - 1) % Items

CaStart(css) ==
  /\ caCss = css
  /\ caActive = {0} /\ caSliding = FALSE /\ caMove = <<>>
  /\ caPaused = FALSE /\ caHandle = TRUE /\ caLeaks = 0
  /\ caQueue = <<>> /\ caSlid = 0 /\ caRefused = FALSE

CaInit == \E css \in BOOLEAN : CaStart(css)

\* slide() returns early when its item is active already or a handler prevents the
\* event: sliding is set by then, and the interval that was running is cleared.
CaRefuse(paused, handle) ==
  /\ caSliding' = TRUE /\ caRefused' = TRUE
  /\ caPaused' = (paused \/ handle) /\ caHandle' = FALSE
  /\ UNCHANGED <<caActive, caMove>>

\* Mutant: slide() gives the next item its class at once.
CaSlideEarly(to, paused, handle) ==
  \/ CaRefuse(paused, handle)
  \/ /\ to # CaPos
     /\ caPaused' = (paused /\ ~handle) /\ caHandle' = handle
     /\ IF caCss
          THEN /\ caSliding' = TRUE /\ caMove' = <<CaPos, to>>
               /\ caActive' = caActive \cup {to}
          ELSE /\ caActive' = {to}
               /\ UNCHANGED <<caSliding, caMove>>
     /\ UNCHANGED caRefused

-----------------------------------------------------------------------------
\* slide(), with paused and this.interval as given: while it cycles the interval
\* is restarted, which ends a pause.
CaSlide(to, paused, handle) ==
  \/ CaRefuse(paused, handle)
  \/ /\ to # CaPos
     /\ caPaused' = (paused /\ ~handle) /\ caHandle' = handle
     /\ IF caCss
          THEN /\ caSliding' = TRUE /\ caMove' = <<CaPos, to>>
               /\ UNCHANGED caActive
          ELSE /\ caActive' = {to}
               /\ UNCHANGED <<caSliding, caMove>>
     /\ UNCHANGED caRefused

\* next() and prev(): of the interval, a link, or a call.
CaStep ==
  /\ ~caSliding
  /\ \E to \in {CaSucc, CaPred} : CaSlide(to, caPaused, caHandle)
  /\ UNCHANGED <<caCss, caLeaks, caQueue, caSlid>>

CaTick ==
  /\ ~caSliding /\ (caHandle \/ caLeaks > 0)
  /\ CaSlide(CaSucc, caPaused, caHandle)
  /\ UNCHANGED <<caCss, caLeaks, caQueue, caSlid>>

\* pause().cycle() at rest: the interval starts anew.
CaRestart ==
  /\ caPaused' = FALSE /\ caHandle' = TRUE
  /\ UNCHANGED <<caActive, caSliding, caMove, caRefused>>

\* to(p) when nothing slides.
CaGo(p) == IF p = CaPos THEN CaRestart ELSE CaSlide(p, caPaused, caHandle)

CaTo(p) ==
  /\ IF caSliding
       THEN /\ Len(caQueue) < MaxQueue
            /\ caQueue' = Append(caQueue, p)
            /\ UNCHANGED <<caActive, caSliding, caMove, caPaused, caHandle, caRefused>>
       ELSE CaGo(p) /\ UNCHANGED caQueue
  /\ UNCHANGED <<caCss, caLeaks, caSlid>>

\* Mutant: slid is only announced to those who do not wait yet.
CaFinishSilently ==
  /\ caActive' = (caActive \ {caMove[1]}) \cup {caMove[2]}
  /\ caSliding' = FALSE /\ caMove' = <<>>
  /\ caSlid' = IF caSlid > 0 THEN caSlid ELSE IF caQueue = <<>> THEN 1 ELSE 0

\* The handler of slide() at the end of the transition; slid comes later.
CaFinish ==
  /\ caActive' = (caActive \ {caMove[1]}) \cup {caMove[2]}
  /\ caSliding' = FALSE /\ caMove' = <<>>
  /\ caSlid' = caSlid + 1

\* A timeout of 0 is served before a transition of 600 ms ends.
CaTransitionEnd ==
  /\ caMove # <<>> /\ caSlid = 0
  /\ CaFinish
  /\ UNCHANGED <<caCss, caPaused, caHandle, caLeaks, caQueue, caRefused>>

\* slid: the waiting calls run in their order; one that finds a slide under way
\* waits for the next slid.
CaSlidEvent ==
  LET here == {i \in 1..Len(caQueue) : \A j \in 1..i : caQueue[j] = CaPos}
      n == Cardinality(here) IN
  /\ caSlid > 0 /\ caSlid' = caSlid - 1
  /\ IF caSliding \/ caQueue = <<>>
       THEN UNCHANGED <<caQueue, caActive, caSliding, caMove, caPaused, caHandle, caRefused>>
       ELSE IF n = Len(caQueue)
         THEN CaRestart /\ caQueue' = <<>>
         ELSE /\ CaSlide(caQueue[n + 1], caPaused /\ n = 0, caHandle \/ n > 0)
              /\ caQueue' = SubSeq(caQueue, n + 2, Len(caQueue))
  /\ UNCHANGED <<caCss, caLeaks>>

\* cycle(): an interval that runs already is not cleared.
CaCycle(byCall) ==
  /\ caPaused' = (caPaused /\ ~byCall)
  /\ IF caPaused'
       THEN UNCHANGED <<caHandle, caLeaks>>
       ELSE /\ caHandle' = TRUE
            /\ caLeaks' = IF caHandle THEN caLeaks + 1 ELSE caLeaks
            /\ caLeaks' <= MaxLeaks
  /\ UNCHANGED <<caCss, caActive, caSliding, caMove, caQueue, caSlid, caRefused>>

\* pause(): in the middle of a slide the slide is finished, and cycle() ends the
\* pause and takes another interval, to clear that one.
CaPause(byCall) ==
  /\ caHandle' = FALSE
  /\ IF caMove # <<>>
       THEN /\ CaFinish /\ caSlid < MaxQueue
            /\ caPaused' = FALSE
            /\ caLeaks' = IF caHandle THEN caLeaks + 1 ELSE caLeaks
            /\ caLeaks' <= MaxLeaks
       ELSE /\ caPaused' = (caPaused \/ byCall)
            /\ UNCHANGED <<caActive, caSliding, caMove, caSlid, caLeaks>>
  /\ UNCHANGED <<caCss, caQueue, caRefused>>

\* The pointer enters and leaves; or a program calls.
CaPointer == CaPause(FALSE) \/ CaCycle(FALSE)
CaCall == CaPause(TRUE) \/ CaCycle(TRUE)

CaNext ==
  \/ CaStep \/ CaTick \/ CaTransitionEnd \/ CaSlidEvent \/ CaPointer \/ CaCall
  \/ \E p \in CaIndex : CaTo(p)

CaSpec == CaInit /\ [][CaNext]_caVars

-----------------------------------------------------------------------------
CaTypeOK ==
  /\ {caCss, caSliding, caPaused, caHandle, caRefused} \subseteq BOOLEAN
  /\ caActive \subseteq CaIndex
  /\ caMove = <<>> \/ caMove \in CaIndex \X CaIndex
  /\ caLeaks \in 0..MaxLeaks
  /\ caQueue \in Seq(CaIndex) /\ Len(caQueue) <= MaxQueue
  /\ caSlid \in 0..MaxQueue

\* Exactly one item is active; and until a slide is refused, the carousel slides
\* exactly while a transition will end it, whoever moves it: the interval, leaked
\* intervals, links, to(), and the pointer, which ends a slide in its middle
\* (bootstrap.js:1623-1690).
OneItemActive ==
  Cardinality(caActive) = 1 /\ (caRefused \/ (caSliding <=> caMove # <<>>))

\* A call of to() that waits for slid does not wait in vain, until a slide is
\* refused: a transition runs that will trigger it, or its timeout is pending
\* (bootstrap.js:1610-1614, 1672-1677).
WaitingToIsWoken ==
  caQueue # <<>> => caMove # <<>> \/ caSlid > 0 \/ caRefused

=============================================================================
