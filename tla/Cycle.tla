------------------------------- MODULE Cycle -------------------------------
(***************************************************************************)
(* The slideshow engine of the markup, html/js/cycle.js: one function go() *)
(* moves the slides, called by a timeout, by the ends of transitions, by   *)
(* the next/prev and pager links and by calls of the plugin.  The options  *)
(* (order of the slides, what happens at the end, whether a click trumps a *)
(* running transition, whether there is a timeout, and sync: whether the   *)
(* slides fade in and out at the same time) are fixed at the start.        *)
(***************************************************************************)
EXTENDS Integers, Sequences, FiniteSets

CONSTANTS
  CyN,           \* slideCount
  CyShows,       \* the option records that are tried
  CyMaxClicks    \* bound: links and calls

ASSUME CycleAssumption ==
  /\ CyN \in Nat \ {0, 1} /\ CyMaxClicks \in Nat
  /\ CyShows \subseteq [order : {"sequence", "backwards", "bounce", "random"},
                        end : {"wrap", "nowrap", "autostop"}, trump : BOOLEAN, auto : BOOLEAN,
                        sync : BOOLEAN]

VARIABLES
  cyOpt,       \* the options; auto: timeout is not 0
  cyCurr, cyNext,   \* currSlide, nextSlide (nowrap may leave -1 or slideCount)
  cyBack,      \* backwards, which bounce turns
  cyCount,     \* countdown of autostop
  cyBusy,      \* busy: a transition runs
  cyVisible,   \* the slides that are displayed
  cyFx,        \* sync is off: the animations of each slide, in their queue
  cyHandle,    \* cycleTimeout: "zero", or of a timeout "live" or "stale"
  cyLeaks,     \* live timeouts cycleTimeout no longer refers to
  cyPause,     \* cyclePause
  cyHover,     \* the pointer: "away", "over", or "unseen": over since before the start
  cyDown,      \* "no", or "stop", "destroy", "end" (autostop, nowrap), "error"
  cyClicks     \* links and calls so far

cyVars == <<cyOpt, cyCurr, cyNext, cyBack, cyCount, cyBusy, cyVisible, cyFx, cyHandle,
            cyLeaks, cyPause, cyHover, cyDown, cyClicks>>

CySlides == 0..(CyN - 1)
CyRandom == cyOpt.order = "random"
CyBounce == cyOpt.order = "bounce"
CyStopped == cyDown \in {"stop", "destroy"}

\* Unless sync is on, a slide fades out first, <<n>>, which then lets n fade in,
\* <<CyFadeIn>>; a slide that has to do both does one after the other.
CyFadeIn == -1

\* buildOptions: the slide that is shown first, and the next one.
CyFirst(o) ==
  IF o.order = "random" THEN CySlides ELSE {IF o.order = "backwards" THEN CyN - 1 ELSE 0}
CySecond(o, first) ==
  IF o.order = "random" THEN CySlides \ {first} ELSE {IF o.order = "backwards" THEN CyN - 2 ELSE 1}

\* $.fn.cycle: what a former show has left is cleared, and the timeout starts.
CyStart(o, hover) ==
  /\ cyOpt = o
  /\ cyBack = (o.order = "backwards")
  /\ cyCurr \in CyFirst(o) /\ cyNext \in CySecond(o, cyCurr)
  /\ cyCount = CyN
  /\ cyBusy = FALSE /\ cyVisible = {cyCurr} /\ cyFx = [s \in CySlides |-> <<>>]
  /\ cyHandle = IF o.auto THEN "live" ELSE "zero"
  /\ cyLeaks = 0 /\ cyPause = 0 /\ cyHover = hover
  /\ cyDown = "no" /\ cyClicks = 0

CyInit == \E o \in CyShows, hover \in {"away", "unseen"} : CyStart(o, hover)

-----------------------------------------------------------------------------
\* The second half of go(): what comes after slide n, and whether the order is
\* turned.  A random order is any order without an immediate repetition.
CyAfter(n) ==
  IF CyRandom THEN CySlides \ {n}
  ELSE IF cyBack THEN {IF n > 0 THEN n - 1 ELSE IF CyBounce THEN 1 ELSE CyN - 1}
  ELSE {IF n < CyN - 1 THEN n + 1 ELSE IF CyBounce THEN CyN - 2 ELSE 0}

CyTurn(n) ==
  IF CyBounce /\ n = (IF cyBack THEN 0 ELSE CyN - 1) THEN ~cyBack ELSE cyBack

\* queueNext() when cycleTimeout is h and so many timeouts are leaked.
CyQueue(h, leaks) ==
  /\ cyHandle' = IF cyOpt.auto THEN "live" ELSE h
  /\ cyLeaks' = IF cyOpt.auto /\ h = "live" THEN leaks + 1 ELSE leaks

\* A click that trumps ends the animations at once, those of each slide when it
\* is its turn.  A slide that has faded out lets one that comes after it fade in
\* and end as well, but one before it fades in for the usual time.
CyTrumps(manual) == manual /\ cyBusy /\ cyOpt.trump

CyHead(job) == {s \in CySlides : cyFx[s] # <<>> /\ Head(cyFx[s]) = job}
CyOut == UNION {CyHead(n) : n \in CySlides}
CyLate(n) == {s \in CyHead(n) : n < s}

\* How often after() runs by that.
CyEnded ==
  IF cyOpt.sync THEN 1
  ELSE Cardinality(CyHead(CyFadeIn) \cup (CyOut \ UNION {CyLate(n) : n \in CySlides}))

CyFxLeft(manual) ==
  IF CyTrumps(manual) /\ ~cyOpt.sync
    THEN [n \in CySlides |-> [i \in 1..Cardinality(CyLate(n)) |-> CyFadeIn]]
    ELSE cyFx

CyShown(manual) ==
  IF ~CyTrumps(manual) \/ (cyOpt.sync /\ CyStopped) THEN cyVisible
  ELSE IF cyOpt.sync THEN {cyCurr} ELSE cyVisible \ CyOut

\* What each after() has queued, unless the show is stopped, of which the last
\* one is cleared again.
CyQueued(manual) == CyTrumps(manual) /\ cyOpt.auto /\ ~CyStopped /\ CyEnded > 0

\* Mutant: what the trumped transition has queued stays.
CyKept(manual, h) == IF CyTrumps(manual) /\ cyOpt.auto THEN "live" ELSE h

CyCleared(manual, h) ==
  IF CyQueued(manual) \/ (CyTrumps(manual) /\ h = "live") THEN "stale" ELSE h

CyLeft(manual, leaks) == IF CyQueued(manual) THEN leaks + CyEnded - 1 ELSE leaks

\* The show ends by itself: autostop counts the timeouts, nowrap looks ahead.
CyEnds(n) ==
  /\ cyPause = 0 /\ ~CyBounce
  /\ \/ cyOpt.end = "autostop" /\ cyCount <= 1
     \/ cyOpt.end = "nowrap" /\ ~CyRandom /\ n < cyCurr

\* go() returns at once: a transition runs, the show is stopped, or the timeout
\* was cleared before it came.
CyIgnored(manual, h) == (cyBusy /\ ~CyTrumps(manual)) \/ CyStopped \/ (h = "zero" /\ ~manual)

\* go(els, opts, manual) with nextSlide n, cycleTimeout c and l leaked timeouts.
CyGo(manual, n, c, l) ==
  LET h == CyCleared(manual, c)
      leaks == CyLeft(manual, l)
      shown == CyShown(manual)
      fx == CyFxLeft(manual)
      counted == ~manual /\ cyPause = 0 /\ ~CyBounce /\ cyOpt.end = "autostop"
      changed == (manual \/ cyPause = 0) /\ n # cyCurr IN
  /\ UNCHANGED <<cyOpt, cyHover>>
  /\ IF CyIgnored(manual, h)
       THEN /\ cyNext' = n /\ cyHandle' = h /\ cyLeaks' = leaks
            /\ cyVisible' = shown /\ cyFx' = fx
            /\ cyBusy' = (cyBusy /\ ~CyTrumps(manual))
            /\ UNCHANGED <<cyCurr, cyBack, cyCount, cyDown>>
     ELSE IF ~manual /\ CyEnds(n)
       THEN /\ cyDown' = "end" /\ cyHandle' = h /\ cyLeaks' = leaks
            /\ cyCount' = IF counted THEN cyCount - 1 ELSE cyCount
            /\ UNCHANGED <<cyCurr, cyNext, cyBack, cyBusy, cyVisible, cyFx>>
     ELSE IF changed /\ n \notin CySlides   \* next is undefined: a TypeError
       THEN /\ cyDown' = "error" /\ cyHandle' = h /\ cyLeaks' = leaks /\ cyNext' = n
            /\ cyBusy' = FALSE /\ cyVisible' = shown /\ cyFx' = fx
            /\ UNCHANGED <<cyCurr, cyBack, cyCount>>
     ELSE /\ cyCount' = IF counted THEN cyCount - 1 ELSE cyCount
          /\ cyDown' = IF manual THEN "no" ELSE cyDown
          /\ IF changed
               THEN /\ cyBusy' = TRUE /\ cyVisible' = (shown \cap {cyCurr}) \cup {n}
                    /\ cyFx' = IF cyOpt.sync THEN fx ELSE [fx EXCEPT ![cyCurr] = Append(@, n)]
                    /\ cyHandle' = h /\ cyLeaks' = leaks
               ELSE /\ cyBusy' = FALSE /\ cyVisible' = shown /\ cyFx' = fx
                    /\ CyQueue(h, leaks)
          /\ IF changed \/ n = cyCurr
               THEN cyCurr' = n /\ cyNext' \in CyAfter(n) /\ cyBack' = CyTurn(n)
               ELSE cyNext' = n /\ UNCHANGED <<cyCurr, cyBack>>

\* The timeout; a leaked one is as good as the one cycleTimeout refers to.
CyTimeout ==
  /\ UNCHANGED <<cyPause, cyClicks>>
  /\ \/ cyHandle = "live" /\ CyGo(FALSE, cyNext, "stale", cyLeaks)
     \/ cyLeaks > 0 /\ CyGo(FALSE, cyNext, cyHandle, cyLeaks - 1)

\* Mutant: the next timeout is queued only when go() finds nothing to do.
CyTransitionEndIdle ==
  /\ cyOpt.sync /\ cyBusy /\ ~CyStopped
  /\ cyBusy' = FALSE /\ cyVisible' = {cyCurr}
  /\ UNCHANGED <<cyOpt, cyCurr, cyNext, cyBack, cyCount, cyFx, cyHandle, cyLeaks,
                 cyPause, cyHover, cyDown, cyClicks>>

\* Mutant: the slide that went out is not hidden.
CyTransitionEndBoth ==
  /\ cyOpt.sync /\ cyBusy /\ ~CyStopped
  /\ cyBusy' = FALSE /\ UNCHANGED cyVisible
  /\ CyQueue(cyHandle, cyLeaks)
  /\ UNCHANGED <<cyOpt, cyCurr, cyNext, cyBack, cyCount, cyFx, cyPause, cyHover, cyDown, cyClicks>>

\* after(): the animations of the two slides have ended, both of the same length.
CyTransitionEnd ==
  /\ cyOpt.sync /\ cyBusy /\ ~CyStopped
  /\ cyBusy' = FALSE /\ cyVisible' = {cyCurr}
  /\ CyQueue(cyHandle, cyLeaks)
  /\ UNCHANGED <<cyOpt, cyCurr, cyNext, cyBack, cyCount, cyFx, cyPause, cyHover, cyDown, cyClicks>>

\* Without sync: slide s has faded out, or in, which is after() of the transition
\* that brought it, and begins what is next in its queue.
CyFxEnd(s) ==
  LET job == Head(cyFx[s])
      rest == [cyFx EXCEPT ![s] = Tail(@)] IN
  /\ cyFx[s] # <<>>
  /\ IF job = CyFadeIn
       THEN /\ cyBusy' = FALSE /\ cyFx' = rest
            /\ IF CyStopped THEN UNCHANGED <<cyHandle, cyLeaks>> ELSE CyQueue(cyHandle, cyLeaks)
            /\ UNCHANGED cyVisible
       ELSE /\ cyFx' = [rest EXCEPT ![job] = Append(@, CyFadeIn)]
            /\ cyVisible' = cyVisible \ {s}
            /\ UNCHANGED <<cyBusy, cyHandle, cyLeaks>>
  /\ UNCHANGED <<cyOpt, cyCurr, cyNext, cyBack, cyCount, cyPause, cyHover, cyDown, cyClicks>>

-----------------------------------------------------------------------------
CyClick == cyClicks < CyMaxClicks /\ cyClicks' = cyClicks + 1

\* The links stay bound after stop, not after destroy.
CyLinks == cyDown # "destroy"

\* advance(): at an end of a show that does not wrap, the timeout is cleared and
\* nextSlide left outside.
CyAdvance(d) ==
  LET n == cyCurr + d IN
  /\ CyLinks /\ CyClick
  /\ IF ~CyRandom /\ n \notin CySlides /\ cyOpt.end = "nowrap"
       THEN /\ cyNext' = n /\ cyHandle' = "zero"
            /\ UNCHANGED <<cyOpt, cyCurr, cyBack, cyCount, cyBusy, cyVisible, cyFx,
                           cyLeaks, cyPause, cyHover, cyDown>>
       ELSE /\ \E to \in (IF CyRandom THEN CySlides ELSE {n % CyN}) : CyGo(TRUE, to, "zero", cyLeaks)
            /\ UNCHANGED cyPause

\* A link of the pager, or a call with the number of a slide.
CyPager(i) == CyLinks /\ CyClick /\ CyGo(TRUE, i, "zero", cyLeaks) /\ UNCHANGED cyPause

\* The calls "pause", "toggle", "resume" (at once, when its second argument is true).
CyCallPause ==
  /\ CyClick
  /\ cyPause' = 1 \/ cyPause' = (IF cyPause = 1 THEN 0 ELSE 1) \/ cyPause' = 0
  /\ UNCHANGED <<cyOpt, cyCurr, cyNext, cyBack, cyCount, cyBusy, cyVisible, cyFx, cyHandle,
                 cyLeaks, cyHover, cyDown>>

\* checkInstantResume.
CyCallResumeNow ==
  /\ ~CyStopped /\ CyClick
  /\ cyPause' = 0
  /\ CyGo(TRUE, cyNext, "zero", cyLeaks)

\* The calls "stop" and "destroy": the animations halt where they are, and those
\* that waited for them begin.
CyCallStop ==
  /\ ~CyStopped /\ CyClick
  /\ cyDown' \in {"stop", "destroy"}
  /\ cyHandle' = "zero"
  /\ cyFx' = [s \in CySlides |-> IF cyFx[s] = <<>> THEN <<>> ELSE Tail(cyFx[s])]
  /\ UNCHANGED <<cyOpt, cyCurr, cyNext, cyBack, cyCount, cyBusy, cyVisible, cyLeaks,
                 cyPause, cyHover>>

\* mouseenter and mouseleave count; a leave nobody saw enter does not.
CyPointer ==
  /\ cyDown # "destroy" /\ CyClick
  /\ IF cyHover = "away"
       THEN cyHover' = "over" /\ cyPause' = cyPause + 1
       ELSE cyHover' = "away" /\ cyPause' = IF cyHover = "over" THEN cyPause - 1 ELSE cyPause
  /\ UNCHANGED <<cyOpt, cyCurr, cyNext, cyBack, cyCount, cyBusy, cyVisible, cyFx, cyHandle,
                 cyLeaks, cyDown>>

CyCall == CyCallPause \/ CyCallResumeNow \/ CyCallStop \/ CyPointer

CyNextStep ==
  \/ CyTimeout \/ CyTransitionEnd \/ CyCall
  \/ \E d \in {-1, 1} : CyAdvance(d)
  \/ \E i \in CySlides : CyPager(i) \/ CyFxEnd(i)

CySpec == CyInit /\ [][CyNextStep]_cyVars

-----------------------------------------------------------------------------
CyTypeOK ==
  /\ cyOpt \in CyShows
  /\ cyCurr \in CySlides /\ cyNext \in -1..CyN
  /\ {cyBack, cyBusy} \subseteq BOOLEAN
  /\ cyCount \in Int /\ cyVisible \subseteq CySlides
  /\ cyFx \in [CySlides -> Seq(CySlides \cup {CyFadeIn})]
  /\ cyHandle \in {"zero", "stale", "live"} /\ cyLeaks \in Nat
  /\ cyPause \in -1..2 /\ cyHover \in {"away", "over", "unseen"}
  /\ cyDown \in {"no", "stop", "destroy", "end", "error"}

\* The shows whose transitions nothing outlives: with sync off, a click that
\* trumps lets the incoming slide go on, when it comes before the outgoing one
\* (cycle.js:631-637, 987-996).
CyOrderly == cyOpt.sync \/ ~cyOpt.trump

\* However clicks, calls and the pointer meet timeouts and transitions, at most
\* one timeout is pending, and none during a transition: the show never runs at
\* double speed (go, advance, queueNext, cycle.js:627-777).  A show with sync off
\* that can be trumped does.
CyOneTimeout == CyOrderly => cyLeaks = 0 /\ (cyBusy => cyHandle # "live")

\* The slide with the number currSlide is the only one displayed, except while
\* a transition brings it in (go, commonReset, custom); again not so in a show
\* with sync off that can be trumped.
CyCurrentShown ==
  CyOrderly /\ ~CyStopped => cyCurr \in cyVisible /\ (~cyBusy => cyVisible = {cyCurr})

\* A show that should go on displays slide s alone.
CyWaits(s) == cyVisible = {s} /\ cyOpt.auto /\ cyOpt.end = "wrap"

=============================================================================
