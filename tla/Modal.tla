------------------------------- MODULE Modal -------------------------------
(***************************************************************************)
(* Bootstrap's modal dialog, html/js/bootstrap.js.  Showing waits for the  *)
(* fade of a backdrop, hiding for the fade of the dialog (or 500 ms) and   *)
(* then for the fade of the backdrop; show and hide may be called again    *)
(* while any of these is under way.                                        *)
(***************************************************************************)
EXTENDS Integers, FiniteSets, FiniteSetsExt

CONSTANTS
  Backdrops,     \* elements that backdrop() may create
  MaxHurry       \* bound: calls while a fade is under way

ASSUME ModalAssumption == IsFiniteSet(Backdrops) /\ MaxHurry \in Nat

VARIABLES
  moFade,        \* transitions are supported and the dialog has the class fade
  moShown,       \* isShown
  moVisible,     \* the dialog is displayed
  moIn,          \* the dialog has the class in
  moFading,      \* a transition of the dialog runs
  moHooks,       \* hideWithTransition: handlers of the dialog's transition end,
  moTimers,      \* and timeouts that are pending
  moDom,         \* the backdrops in the document
  moRef,         \* $backdrop: {} or the backdrop it refers to
  moCallback,    \* backdrops whose fade in calls show's callback
  moRemoving,    \* backdrops whose fade out calls removeBackdrop
  moMoving,      \* backdrops whose transition runs
  moHurry        \* ghost: calls that came while something was under way

moVars == <<moFade, moShown, moVisible, moIn, moFading, moHooks, moTimers, moDom, moRef,
            moCallback, moRemoving, moMoving, moHurry>>

MoCalm == ~moFading /\ moTimers = 0 /\ moMoving = {}

MoStart(fade) ==
  /\ moFade = fade
  /\ moShown = FALSE /\ moVisible = FALSE /\ moIn = FALSE /\ moFading = FALSE
  /\ moHooks = 0 /\ moTimers = 0 /\ moHurry = 0
  /\ moDom = {} /\ moRef = {} /\ moCallback = {} /\ moRemoving = {} /\ moMoving = {}

MoInit == \E fade \in BOOLEAN : MoStart(fade)

MoCall ==
  /\ MoCalm \/ moHurry < MaxHurry
  /\ moHurry' = IF MoCalm THEN moHurry ELSE moHurry + 1

\* backdrop() while the dialog is shown, once or more: new elements, to the last
\* of which $backdrop refers.
MoNewBackdrops(n, callback) ==
  \E bs \in kSubset(n, Backdrops \ moDom) :
    /\ moDom' = moDom \cup bs /\ moRef' \in {{b} : b \in bs}
    /\ moCallback' = moCallback \cup (IF callback THEN bs ELSE {})
    /\ moMoving' = moMoving \cup bs
    /\ UNCHANGED moRemoving

\* show(), also by the constructor.
MoShow ==
  /\ moFade /\ ~moShown /\ MoCall
  /\ moShown' = TRUE
  /\ MoNewBackdrops(1, TRUE)
  /\ UNCHANGED <<moFade, moVisible, moIn, moFading, moHooks, moTimers>>

\* hide(), also from the dialog's buttons, its backdrops and the Escape key.  A
\* fade out that runs already goes on, and its end is the end of this one too.
MoHide ==
  /\ moFade /\ moShown /\ MoCall
  /\ moShown' = FALSE /\ moIn' = FALSE
  /\ moFading' = (moFading \/ (moVisible /\ moIn))
  /\ moHooks' = moHooks + 1 /\ moTimers' = moTimers + 1
  /\ UNCHANGED <<moFade, moVisible, moDom, moRef, moCallback, moRemoving, moMoving>>

\* Without transitions both are done at once.
MoShowAtOnce ==
  /\ ~moFade /\ ~moShown
  /\ moShown' = TRUE /\ moVisible' = TRUE /\ moIn' = TRUE
  /\ \E b \in Backdrops : moDom' = {b} /\ moRef' = {b}
  /\ UNCHANGED <<moFade, moFading, moHooks, moTimers, moCallback, moRemoving, moMoving, moHurry>>

MoHideAtOnce ==
  /\ ~moFade /\ moShown
  /\ moShown' = FALSE /\ moVisible' = FALSE /\ moIn' = FALSE
  /\ moDom' = moDom \ moRef /\ moRef' = {}
  /\ UNCHANGED <<moFade, moFading, moHooks, moTimers, moCallback, moRemoving, moMoving, moHurry>>

\* toggle(), from a link; show() while shown and hide() while hidden do nothing.
MoToggle == MoShow \/ MoShowAtOnce \/ MoHide \/ MoHideAtOnce

-----------------------------------------------------------------------------
\* Mutant: hideModal() hides the dialog and leaves the backdrop.
MoHideModalOnly(n) ==
  /\ moVisible' = FALSE /\ moFading' = FALSE
  /\ UNCHANGED <<moDom, moRef, moCallback, moRemoving, moMoving>>

\* hideModal() and its backdrop(), called n times: a dialog shown again meanwhile
\* is hidden, and gets more backdrops, without a callback.
MoHideModal(n) ==
  /\ moVisible' = FALSE /\ moFading' = FALSE
  /\ IF moShown
       THEN MoNewBackdrops(n, FALSE)
       ELSE /\ moRemoving' = moRemoving \cup moRef
            /\ moMoving' = moMoving \cup moRef
            /\ UNCHANGED <<moDom, moRef, moCallback>>

\* transitionend of the dialog; the handlers of hide clear their timeouts.
MoElementEnd ==
  /\ moFading
  /\ moHooks' = 0 /\ moTimers' = moTimers - moHooks
  /\ IF moHooks > 0
       THEN MoHideModal(moHooks)
       ELSE moFading' = FALSE /\ UNCHANGED <<moVisible, moDom, moRef, moCallback, moRemoving, moMoving>>
  /\ UNCHANGED <<moFade, moShown, moIn, moHurry>>

\* The browser drops the event: the fade was cancelled.
MoElementLost ==
  /\ moFading
  /\ moFading' = FALSE
  /\ UNCHANGED <<moFade, moShown, moVisible, moIn, moHooks, moTimers, moDom, moRef,
                 moCallback, moRemoving, moMoving, moHurry>>

\* Mutant: the timeout drops the handlers and forgets the dialog.
MoTimerOff ==
  /\ moTimers > 0
  /\ moTimers' = moTimers - 1 /\ moHooks' = 0
  /\ UNCHANGED <<moFade, moShown, moVisible, moIn, moFading, moDom, moRef, moCallback,
                 moRemoving, moMoving, moHurry>>

\* 500 ms after hide: off(transition end) drops the handlers of every hide.  A
\* backdrop that came before the hide has faded in long since (150 ms).
MoTimer ==
  /\ moTimers > 0
  /\ moTimers = 1 /\ ~moShown => moCallback = {}
  /\ moTimers' = moTimers - 1 /\ moHooks' = 0
  /\ MoHideModal(1)
  /\ UNCHANGED <<moFade, moShown, moIn, moHurry>>

\* transitionend of a backdrop: show's callback, then removeBackdrop, which
\* removes what $backdrop refers to now.
MoBackdropEnd(b) ==
  LET gone == IF b \in moRemoving THEN moRef ELSE {} IN
  /\ b \in moMoving
  /\ IF b \in moCallback
       THEN /\ moVisible' = TRUE /\ moIn' = TRUE
            /\ moFading' = (moFading \/ ~(moVisible /\ moIn))
       ELSE UNCHANGED <<moVisible, moIn, moFading>>
  /\ moDom' = moDom \ gone
  /\ moRef' = IF b \in moRemoving THEN {} ELSE moRef
  /\ moMoving' = moMoving \ ({b} \cup gone)
  /\ moCallback' = moCallback \ ({b} \cup gone)
  /\ moRemoving' = moRemoving \ ({b} \cup gone)
  /\ UNCHANGED <<moFade, moShown, moHooks, moTimers, moHurry>>

MoNext ==
  \/ MoToggle \/ MoElementEnd \/ MoElementLost \/ MoTimer
  \/ \E b \in Backdrops : MoBackdropEnd(b)

MoSpec == MoInit /\ [][MoNext]_moVars

-----------------------------------------------------------------------------
MoTypeOK ==
  /\ {moFade, moShown, moVisible, moIn, moFading} \subseteq BOOLEAN
  /\ moHooks \in 0..moTimers /\ moHurry \in 0..MaxHurry
  /\ moCallback \cup moRemoving \subseteq moMoving
  /\ moRef \cup moMoving \subseteq moDom /\ moDom \subseteq Backdrops

\* Called only between fades, the dialog comes to rest either open over the one
\* backdrop it will remove, or closed with none left over the page
\* (bootstrap.js:108-249).
ModalSettles ==
  moHurry = 0 /\ MoCalm =>
    /\ moVisible = moShown /\ moIn = moShown
    /\ moDom = moRef /\ Cardinality(moRef) = IF moShown THEN 1 ELSE 0

\* Although the end of a fade may be lost, a hidden dialog leaves the screen
\* unless it is shown again, as long as at most one call came while a fade was
\* under way (hideWithTransition, bootstrap.js:189-200).  Two are too many: after
\* hide, show and hide within the fade of the first one, its end closes the
\* dialog and clears both timeouts before the backdrop of the show has faded in,
\* whose callback does not look at isShown and opens the dialog for good.
ModalHides == (moVisible /\ ~moShown) ~> (~moVisible \/ moShown \/ moHurry > 1)

=============================================================================
