------------------------------ MODULE CSlider ------------------------------
(***************************************************************************)
(* The slider of the front page, html/js/jquery.cslider.js: slides that    *)
(* change on their own until the visitor takes over with an arrow, a dot,  *)
(* or a call of page().  A change is animated by the style sheet, whose    *)
(* end the browser announces, or by jQuery in browsers without CSS         *)
(* animations.                                                             *)
(***************************************************************************)
EXTENDS Integers, FiniteSets

CONSTANT Slides       \* the number of slides

ASSUME SlidesAssumption == Slides \in Nat \ {0, 1}

VARIABLES
  csCss,         \* Modernizr.cssanimations (which brings csstransitions)
  csCurrent,     \* this.current
  csMarked,      \* the slides with the class da-slide-current
  csDot,         \* the dot with the class da-dots-current
  csAnimating,   \* this.isAnimating
  csLeaving,     \* the slide that is moved out
  csAutoplay,    \* options.autoplay
  csTimers       \* pending timeouts of the slideshow

csVars == <<csCss, csCurrent, csMarked, csDot, csAnimating, csLeaving, csAutoplay, csTimers>>

CSIndex == 0..(Slides - 1)

\* _init: _updatePage, _loadEvents, _startSlideshow.
CSStart(css, autoplay) ==
  /\ csCss = css
  /\ csCurrent = 0 /\ csMarked = {0} /\ csDot = 0
  /\ csAnimating = FALSE /\ csLeaving = 0
  /\ csAutoplay = autoplay
  /\ csTimers = IF autoplay THEN 1 ELSE 0

CSInit == \E css \in BOOLEAN, autoplay \in BOOLEAN : CSStart(css, autoplay)

\* Mutant: the slide that leaves keeps its class.
CSNavigateKeepsClass(p) ==
  IF csCurrent = p \/ csAnimating
    THEN UNCHANGED <<csCurrent, csMarked, csDot, csAnimating, csLeaving>>
    ELSE /\ csAnimating' = TRUE
         /\ csCurrent' = p
         /\ csDot' = p
         /\ csLeaving' = csCurrent
         /\ csMarked' = IF csCss THEN csMarked \cup {p} ELSE csMarked

\* _navigate and _updatePage.  Without CSS animations the class stays where
\* it is until jQuery has moved the slide out, and the next one never gets it.
CSNavigate(p) ==
  IF csCurrent = p \/ csAnimating
    THEN UNCHANGED <<csCurrent, csMarked, csDot, csAnimating, csLeaving>>
    ELSE /\ csAnimating' = TRUE
         /\ csCurrent' = p
         /\ csDot' = p
         /\ csLeaving' = csCurrent
         /\ csMarked' = IF csCss THEN (csMarked \ {csCurrent}) \cup {p} ELSE csMarked

\* Mutant: the slideshow stops before the last slide.
CSAfterShort == IF csCurrent < Slides - 2 THEN csCurrent + 1 ELSE 0

CSAfter == IF csCurrent < Slides - 1 THEN csCurrent + 1 ELSE 0
CSBefore == IF csCurrent > 0 THEN csCurrent - 1 ELSE Slides - 1

\* Mutant: the pending timeout is left to the callback's test.
CSTakeOverLater ==
  /\ csTimers' = csTimers
  /\ csAutoplay' = FALSE

\* clearTimeout(slideshow); autoplay = false.
CSTakeOver ==
  /\ csTimers' = IF csAutoplay /\ csTimers > 0 THEN csTimers - 1 ELSE csTimers
  /\ csAutoplay' = FALSE

\* An arrow, a dot or page(): the arrows and dots always name a slide.
CSClick(p) == CSTakeOver /\ CSNavigate(p) /\ UNCHANGED csCss

CSArrow == CSClick(CSAfter) \/ CSClick(CSBefore)
CSPage == \E p \in CSIndex : CSClick(p)

\* _startSlideshow's callback; the slideshow starts again while autoplay lasts.
CSTimer ==
  /\ csTimers > 0
  /\ CSNavigate(CSAfter)
  /\ csTimers' = IF csAutoplay THEN csTimers ELSE csTimers - 1
  /\ UNCHANGED <<csAutoplay, csCss>>

\* transitionend of the slider's own background.
CSTransitionEnd ==
  /\ csCss /\ csAnimating
  /\ csAnimating' = FALSE
  /\ UNCHANGED <<csCss, csCurrent, csMarked, csDot, csLeaving, csAutoplay, csTimers>>

\* The two jQuery animations end in one tick.
CSFallbackEnd ==
  /\ ~csCss /\ csAnimating
  /\ csAnimating' = FALSE
  /\ csMarked' = csMarked \ {csLeaving}
  /\ UNCHANGED <<csCss, csCurrent, csDot, csLeaving, csAutoplay, csTimers>>

CSNext == CSArrow \/ CSPage \/ CSTimer \/ CSTransitionEnd \/ CSFallbackEnd

CSSpec == CSInit /\ [][CSNext]_csVars

-----------------------------------------------------------------------------
CSTypeOK ==
  /\ {csCss, csAnimating, csAutoplay} \subseteq BOOLEAN
  /\ {csCurrent, csDot, csLeaving} \subseteq CSIndex
  /\ csMarked \subseteq CSIndex
  /\ csTimers \in 0..2

\* One timeout is pending while the slideshow plays, and none once the visitor
\* took over: the slides then never move by themselves (jquery.cslider.js:164-239).
CSOneSlideshow == csTimers = IF csAutoplay THEN 1 ELSE 0

\* The dot is at the current slide, and with CSS animations the marked slide is
\* that one too, at rest and in motion (_navigate, _updatePage).
CSOneCurrent == csDot = csCurrent /\ (csCss => csMarked = {csCurrent})

=============================================================================
