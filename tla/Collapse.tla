------------------------------ MODULE Collapse ------------------------------
(***************************************************************************)
(* Bootstrap's collapsible panels under one parent, an accordion:          *)
(* html/js/bootstrap.js.  A panel is opened by hiding the open one; each   *)
(* change takes a transition of the panel.  The instance that keeps        *)
(* "transitioning" is made on first use, and forgotten again for a panel   *)
(* that was open in the markup.                                            *)
(***************************************************************************)
EXTENDS Integers, FiniteSets, FiniteSetsExt

CONSTANT Panels        \* 1..n, in the order of the document

ASSUME CollapseAssumption == Panels \subseteq Nat

VARIABLES
  coCss,     \* $.support.transition
  coIn,      \* the panels with the class in
  coData,    \* [Panels -> {"none", "idle", "moving"}]: the instance and its transitioning
  coMoving   \* the panels whose transition runs

coVars == <<coCss, coIn, coData, coMoving>>

CoStart(css, open) ==
  /\ coCss = css
  /\ coIn = open
  /\ coData = [p \in Panels |-> "none"]
  /\ coMoving = {}

\* At most one panel is open in the markup.
CoInit == \E css \in BOOLEAN, open \in {{}} \cup {{p} : p \in Panels} : CoStart(css, open)

\* transition(): with transitions, complete() waits for their end.
CoMoved == IF coCss THEN "moving" ELSE "idle"

\* hide(): also by the constructor of an instance made for the call.
CoHide(p) ==
  /\ coIn' = coIn \ {p}
  /\ coData' = [coData EXCEPT ![p] = CoMoved]
  /\ coMoving' = IF coCss THEN coMoving \cup {p} ELSE coMoving

\* Mutant: the panel to be closed is not asked whether it moves.
CoMayAlwaysShow == TRUE

\* Whether show() goes on: an open panel that is still moving stops it.  Only
\* the first of the open ones is asked.
CoMayShow == coIn # {} => coData[Min(coIn)] # "moving"

\* show(): the open ones are hidden, and their new instances are forgotten.
CoShow(p) ==
  LET hidden == {q \in coIn : coData[q] # "moving"}
      forgotten == IF coIn # {} /\ coData[Min(coIn)] = "none" THEN coIn ELSE {} IN
  /\ coIn' = (coIn \ hidden) \cup {p}
  /\ coData' = [q \in Panels |-> IF q = p THEN CoMoved
                                 ELSE IF q \in forgotten THEN "none"
                                 ELSE IF q \in hidden THEN CoMoved ELSE coData[q]]
  /\ coMoving' = IF coCss THEN coMoving \cup hidden \cup {p} ELSE coMoving

\* show() returned at once; the instance it was called on is kept.
CoMade(p) ==
  /\ coData' = [coData EXCEPT ![p] = IF @ = "none" THEN "idle" ELSE @]
  /\ UNCHANGED <<coIn, coMoving>>

\* toggle(), from the panel's link or the constructor.
CoToggle(p) ==
  /\ coData[p] # "moving"
  /\ IF p \in coIn THEN CoHide(p) ELSE IF CoMayShow THEN CoShow(p) ELSE CoMade(p)
  /\ UNCHANGED coCss

\* transitionend: complete() of every transition begun since the last one.
CoEnd(p) ==
  /\ p \in coMoving
  /\ coMoving' = coMoving \ {p}
  /\ coData' = [coData EXCEPT ![p] = IF @ = "moving" THEN "idle" ELSE @]
  /\ UNCHANGED <<coCss, coIn>>

CoNext == \E p \in Panels : CoToggle(p) \/ CoEnd(p)

CoSpec == CoInit /\ [][CoNext]_coVars

-----------------------------------------------------------------------------
CoTypeOK ==
  /\ coCss \in BOOLEAN
  /\ coIn \subseteq Panels /\ coMoving \subseteq Panels
  /\ coData \in [Panels -> {"none", "idle", "moving"}]

\* However fast the headers are clicked, and although the instance of a panel
\* may have been forgotten while it moves, two panels are never open
\* (bootstrap.js:1447-1469).
OnePanelOpen == Cardinality(coIn) <= 1

=============================================================================
