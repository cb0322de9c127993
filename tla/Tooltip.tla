------------------------------ MODULE Tooltip ------------------------------
(***************************************************************************)
(* Bootstrap's tooltip of one element, html/js/bootstrap.js, with the      *)
(* trigger "hover": a delay before it shows, a delay before it hides, and  *)
(* the fade at whose end, or after 500 ms, it is taken out of the page.    *)
(* The pointer comes and goes at any moment.                               *)
(***************************************************************************)
EXTENDS Integers

CONSTANT MaxFades      \* bound: timeouts of hide under way

ASSUME FadesAssumption == MaxFades \in Nat

VARIABLES
  ttDelay,      \* those of "in" and "out" that have a delay
  ttFade,       \* transitions are supported and options.animation is set
  ttOver,       \* the pointer is over the element
  ttState,      \* hoverState
  ttTimers,     \* the delays that run: "in" calls show, "out" calls hide
  ttDom,        \* the tip is in the page
  ttClass,      \* the tip has the class fade, which only show gives it
  ttFading,     \* a transition of the tip runs
  ttHooks,      \* handlers of the end of the tip's transition,
  ttRemovals,   \* and timeouts of 500 ms, both of hide
  ttCrossed     \* ghost: shown again while a hide was not complete

ttVars == <<ttDelay, ttFade, ttOver, ttState, ttTimers, ttDom, ttClass, ttFading, ttHooks,
            ttRemovals, ttCrossed>>

TtStart(delay, fade) ==
  /\ ttDelay = delay /\ ttFade = fade
  /\ ttOver = FALSE /\ ttState = "out" /\ ttTimers = {}
  /\ ttDom = FALSE /\ ttClass = FALSE /\ ttFading = FALSE
  /\ ttHooks = 0 /\ ttRemovals = 0 /\ ttCrossed = FALSE

TtInit == \E delay \in SUBSET {"in", "out"}, fade \in BOOLEAN : TtStart(delay, fade)

\* show(): the tip is detached and inserted anew; it keeps the handlers and
\* timeouts of an earlier hide.  The browser may skip the transition.
TtShow ==
  /\ ttDom' = TRUE /\ ttClass' = ttFade
  /\ ttFading' \in {FALSE, ttFade}
  /\ ttCrossed' = (ttRemovals > 0 \/ "out" \in ttTimers)
  /\ UNCHANGED <<ttHooks, ttRemovals>>

\* hide(), which removeWithAnimation completes later.
TtHide ==
  /\ IF ttClass
       THEN /\ ttHooks' = ttHooks + 1 /\ ttRemovals' = ttRemovals + 1
            /\ ttFading' \in {FALSE, ttDom}
            /\ UNCHANGED ttDom
       ELSE /\ ttDom' = FALSE
            /\ UNCHANGED <<ttHooks, ttRemovals, ttFading>>
  /\ UNCHANGED <<ttClass, ttCrossed>>

UnchangedTip == UNCHANGED <<ttDom, ttClass, ttFading, ttHooks, ttRemovals, ttCrossed>>

\* Mutant: leave() does not clear the timeout of enter().
TtNotCleared == ttTimers

\* clearTimeout(this.timeout)
TtCleared == {}

TtEnter ==
  /\ ~ttOver /\ ttOver' = TRUE
  /\ IF "in" \in ttDelay
       THEN ttTimers' = {"in"} /\ ttState' = "in" /\ UnchangedTip
       ELSE TtShow /\ UNCHANGED <<ttTimers, ttState>>
  /\ UNCHANGED <<ttDelay, ttFade>>

TtLeave ==
  /\ ttOver /\ ttOver' = FALSE
  /\ ttRemovals < MaxFades
  /\ IF "out" \in ttDelay
       THEN ttTimers' = TtCleared \cup {"out"} /\ ttState' = "out" /\ UnchangedTip
       ELSE ttTimers' = TtCleared /\ TtHide /\ UNCHANGED ttState
  /\ UNCHANGED <<ttDelay, ttFade>>

\* A delay has passed.
TtDelayed(k) ==
  /\ k \in ttTimers /\ ttTimers' = ttTimers \ {k}
  /\ k = "out" => ttRemovals < MaxFades
  /\ IF ttState # k THEN UnchangedTip ELSE IF k = "in" THEN TtShow ELSE TtHide
  /\ UNCHANGED <<ttDelay, ttFade, ttOver, ttState>>

\* Mutant: the handlers are bound for good, on instead of one.
TtTransitionEndOn ==
  /\ ttFading /\ ttFading' = FALSE
  /\ ttRemovals' = 0
  /\ ttDom' = (ttHooks = 0)
  /\ UNCHANGED <<ttDelay, ttFade, ttOver, ttState, ttTimers, ttClass, ttHooks, ttCrossed>>

\* transitionend, of a fade in as well: every handler of hide takes the tip out.
TtTransitionEnd ==
  /\ ttFading /\ ttFading' = FALSE
  /\ ttHooks' = 0 /\ ttRemovals' = ttRemovals - ttHooks
  /\ ttDom' = (ttHooks = 0)
  /\ UNCHANGED <<ttDelay, ttFade, ttOver, ttState, ttTimers, ttClass, ttCrossed>>

\* 500 ms after a hide.
TtRemove ==
  /\ ttRemovals > 0 /\ ttRemovals' = ttRemovals - 1
  /\ ttHooks' = 0
  /\ ttDom' = FALSE /\ ttFading' = FALSE
  /\ UNCHANGED <<ttDelay, ttFade, ttOver, ttState, ttTimers, ttClass, ttCrossed>>

TtNext ==
  \/ TtEnter \/ TtLeave \/ TtTransitionEnd \/ TtRemove
  \/ \E k \in {"in", "out"} : TtDelayed(k)

TtSpec == TtInit /\ [][TtNext]_ttVars

-----------------------------------------------------------------------------
TtTypeOK ==
  /\ {ttFade, ttOver, ttDom, ttClass, ttFading, ttCrossed} \subseteq BOOLEAN
  /\ ttDelay \subseteq {"in", "out"} /\ ttTimers \subseteq {"in", "out"}
  /\ ttState \in {"in", "out"}
  /\ ttRemovals \in 0..MaxFades /\ ttHooks \in 0..ttRemovals

\* When no delay and no fade is under way, no tooltip is left behind the
\* pointer, however it came and went; and it is there under the pointer unless
\* it was shown while an earlier hide was not complete (bootstrap.js:805-914).
TipFollows ==
  ttTimers = {} /\ ttRemovals = 0 =>
    /\ ttDom => ttOver
    /\ ttCrossed \/ ttDom = ttOver

=============================================================================
