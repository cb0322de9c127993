----------------------------- MODULE PassedRows -----------------------------
(***************************************************************************)
(* On the day of the conference the schedule hides the rows that are over  *)
(* for the halls on the screen (hidePassedForHalls of web/script2.js),     *)
(* after web/schedules.js has marked the lectures that ended.  The page's  *)
(* time is that of its rendering.                                          *)
(***************************************************************************)
EXTENDS Integers, FiniteSets, FiniteSetsExt

CONSTANTS
  PrHalls,
  PrLast,        \* the rows of the day are 1..PrLast, row r at the time 2r
  PrSlots,       \* the rows with a cell for the time of day, .programm__time
  PrGrace        \* how long a lecture that is over is kept (600 s)

ASSUME PassedAssumption ==
  PrLast \in Nat /\ PrGrace \in Nat /\ PrSlots \subseteq 1..PrLast

VARIABLES
  prLectures,    \* [PrHalls -> set of [from, to]], in rows
  prNow,         \* data-time of .current_time_line
  prHidden,      \* the rows with the class passed_tr
  prOn           \* the halls whose columns are shown

prVars == <<prLectures, prNow, prHidden, prOn>>

PrTime(r) == 2 * r
PrLecture == {l \in [from : 1..PrLast, to : 2..(PrLast + 1)] : l.from < l.to}

\* What a hall may have on one day: lectures that do not overlap.
PrPrograms == {ls \in SUBSET PrLecture :
                 \A l \in ls : \A k \in ls \ {l} : l.to <= k.from \/ k.to <= l.from}

PrStart(lectures, now) ==
  /\ prLectures = lectures
  /\ prNow = now
  /\ prHidden = {}
  /\ prOn = {}

PrInit == \E lectures \in [PrHalls -> PrPrograms], now \in 1..(2 * PrLast) : PrStart(lectures, now)

Covers(l, r) == l.from <= r /\ r < l.to
\* .programm__schedule__lectures: the rows in which some hall has a lecture.
LectureRows == {r \in 1..PrLast : \E h \in PrHalls : \E l \in prLectures[h] : Covers(l, r)}

\* .passed
Passed(l) == prNow - PrTime(l.to) > PrGrace

\* What keeps the rows of hall h: the first lecture that has begun and is not
\* over, or else the last cell of time before now that stands by an empty cell.
KeptRow(h) ==
  LET running == {l.from : l \in {k \in prLectures[h] : ~Passed(k) /\ PrTime(k.from) <= prNow}}
      empty == {r \in LectureRows \cap PrSlots :
                  PrTime(r) < prNow /\ \A l \in prLectures[h] : ~Covers(l, r)} IN
  IF running # {} THEN {Min(running)} ELSE IF empty # {} THEN {Max(empty)} ELSE {}

\* Mutant: the lowest of the rows instead of the highest.
LowestRow(rows) == Max(rows)

\* $highest_tr
HighestRow(rows) == Min(rows)

\* showTdOfTable: the rows of lectures are shown again first, others are not.
ShowHalls(halls) ==
  LET kept == UNION {KeptRow(h) : h \in halls}
      above == IF kept = {} THEN {} ELSE 1..(HighestRow(kept) - 1) IN
  /\ prHidden' = (prHidden \ LectureRows) \cup above
  /\ prOn' = halls
  /\ UNCHANGED <<prLectures, prNow>>

PrNext == \E halls \in SUBSET PrHalls \ {{}} : ShowHalls(halls)

PrSpec == PrInit /\ [][PrNext]_prVars

-----------------------------------------------------------------------------
PrTypeOK ==
  /\ prLectures \in [PrHalls -> PrPrograms]
  /\ prHidden \subseteq 1..PrLast /\ prOn \subseteq PrHalls

\* Whatever halls were on the screen before, the row where a lecture of a hall
\* that is shown begins stays visible until the lecture is over, although the
\* rows are hidden for all halls together (script2.js:217-254).
NoRunningHidden ==
  \A h \in prOn : \A l \in prLectures[h] : l.from \in prHidden => Passed(l)

=============================================================================
