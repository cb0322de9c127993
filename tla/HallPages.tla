------------------------------ MODULE HallPages ------------------------------
(***************************************************************************)
(* The columns of the schedule (web/script2.js): a narrow screen shows one *)
(* hall at a time, a middle one half of them, a wide one all.  Each day    *)
(* has a table whose class remembers its page; the columns' selectors and  *)
(* the buttons are shared by the days.                                     *)
(***************************************************************************)
EXTENDS Integers, FiniteSets

CONSTANTS
  Days,
  HallCounts     \* numbers of halls that are tried

\* The page of a schedule without an activated hall is not rendered at all.
ASSUME HallAssumption == HallCounts \subseteq Nat \ {0}

VARIABLES
  hpHalls,      \* gon.hall_count
  hpWidth,      \* "mobile" up to 900 px, "mid" up to 1440, "wide"
  hpDay,        \* the day whose tab is selected
  hpPage,       \* [Days -> Nat]: the class page-N of the day's table
  hpNext,       \* .programm__next: [page |-> data-page, disable |-> its class]
  hpPrev,       \* .programm__prev
  hpShown       \* the halls whose columns, heads and cells, are displayed

hpVars == <<hpHalls, hpWidth, hpDay, hpPage, hpNext, hpPrev, hpShown>>

Widths == {"mobile", "mid", "wide"}

\* hallPages(): the halls in two chunks, the first one the larger.  One hall has
\* no second chunk, and to show it hides all heads before it throws: no column.
HpHalf == (hpHalls + 1) \div 2
HpChunk(n) == IF n = 1 THEN 1..HpHalf ELSE (HpHalf + 1)..hpHalls

Button(page, disable) == [page |-> page, disable |-> disable]

\* Mutant: a middle screen keeps the page of a phone.
HpShowKeeping(w, page) ==
  IF w = "mobile" THEN [page |-> page, shown |-> {page}, reset |-> FALSE]
  ELSE IF w = "mid" THEN [page |-> page, shown |-> HpChunk(2) \cap page..hpHalls, reset |-> FALSE]
  ELSE [page |-> 1, shown |-> 1..hpHalls, reset |-> TRUE]

\* showAdapticTable for a table at this page: the columns it shows, and
\* whether it goes back to the first page.
HpShow(w, page) ==
  IF w = "mobile" THEN [page |-> page, shown |-> {page} \cap 1..hpHalls, reset |-> FALSE]
  ELSE IF w = "mid"
    THEN LET p == IF page > 2 THEN 1 ELSE page IN
         [page |-> p, shown |-> HpChunk(p), reset |-> page > 2]
  ELSE [page |-> 1, shown |-> 1..hpHalls, reset |-> TRUE]

\* showAdapticTable and setNextAndPrevButtons; the other day's table keeps its
\* class, and a middle screen that need not reset leaves the buttons alone.
HpAdapt(w) ==
  LET s == HpShow(w, hpPage[hpDay]) IN
  /\ hpPage' = [hpPage EXCEPT ![hpDay] = s.page]
  /\ hpShown' = s.shown
  /\ IF w = "mobile"
       THEN /\ hpNext' = Button(s.page, s.page # 1 /\ s.page = hpHalls)
            /\ hpPrev' = Button(s.page, s.page = 1)
     ELSE IF s.reset
       THEN hpNext' = Button(1, FALSE) /\ hpPrev' = Button(1, TRUE)
       ELSE UNCHANGED <<hpNext, hpPrev>>

\* The page as _day.html.haml renders it, after the call at ready.
HpStart(n, w, d) ==
  /\ hpHalls = n /\ hpWidth = w /\ hpDay = d
  /\ hpPage = [x \in Days |-> 1]
  /\ hpShown = IF w = "mobile" THEN {1} ELSE IF w = "mid" THEN 1..((n + 1) \div 2) ELSE 1..n
  /\ hpNext = IF w = "mid" THEN Button(2, FALSE) ELSE Button(1, FALSE)
  /\ hpPrev = Button(1, TRUE)

HpInit == \E n \in HallCounts, w \in Widths, d \in Days : HpStart(n, w, d)

-----------------------------------------------------------------------------
\* resize; also of a phone's address bar, which leaves the width as it is.
Resize(w) ==
  /\ hpWidth' = w
  /\ HpAdapt(w)
  /\ UNCHANGED <<hpHalls, hpDay>>

HpTurn(p) ==
  /\ hpPage' = [d \in Days |-> p]
  /\ hpShown' = IF hpWidth = "mobile" THEN {p} ELSE HpChunk(p)
  /\ UNCHANGED <<hpHalls, hpWidth, hpDay>>

\* Mutant: the last hall is not told apart.
ProgrammNextOpen ==
  LET page == hpNext.page IN
  \/ /\ hpWidth = "mobile" /\ page < hpHalls
     /\ hpNext' = [hpNext EXCEPT !.page = page + 1]
     /\ hpPrev' = Button(page + 1, FALSE)
     /\ HpTurn(page + 1)
  \/ /\ hpWidth = "mid"
     /\ hpNext' = Button(2, TRUE) /\ hpPrev' = Button(2, FALSE)
     /\ HpTurn(2)

\* programm_next: both days turn.
ProgrammNext ==
  LET page == hpNext.page IN
  \/ /\ hpWidth = "mobile" /\ page < hpHalls
     /\ hpNext' = Button(page + 1, hpNext.disable \/ page = hpHalls - 1)
     /\ hpPrev' = Button(page + 1, FALSE)
     /\ HpTurn(page + 1)
  \/ /\ hpWidth = "mid"
     /\ hpNext' = Button(2, TRUE) /\ hpPrev' = Button(2, FALSE)
     /\ HpTurn(2)

ProgrammPrev ==
  LET page == hpPrev.page IN
  \/ /\ hpWidth = "mobile" /\ page > 1
     /\ hpPrev' = Button(page - 1, hpPrev.disable \/ page = 2)
     /\ hpNext' = Button(page - 1, FALSE)
     /\ HpTurn(page - 1)
  \/ /\ hpWidth = "mid"
     /\ hpNext' = Button(1, FALSE) /\ hpPrev' = Button(1, TRUE)
     /\ HpTurn(1)

\* .tab_button: the columns stay as they are.
SelectDay(d) ==
  /\ hpDay' = d
  /\ UNCHANGED <<hpHalls, hpWidth, hpPage, hpNext, hpPrev, hpShown>>

HpNextStep ==
  \/ \E w \in Widths : Resize(w)
  \/ ProgrammNext \/ ProgrammPrev
  \/ \E d \in Days : SelectDay(d)

HpSpec == HpInit /\ [][HpNextStep]_hpVars

-----------------------------------------------------------------------------
\* The pages a table's class and the buttons can name: the second one also when
\* there is one hall.
HpPages == 1..hpHalls \cup {2}

HpTypeOK ==
  /\ hpHalls \in HallCounts /\ hpWidth \in Widths /\ hpDay \in Days
  /\ hpPage \in [Days -> HpPages]
  /\ {hpNext, hpPrev} \subseteq [page : HpPages, disable : BOOLEAN]
  /\ hpShown \subseteq 1..hpHalls

\* Whatever was done before, at other widths and on the other day, the screen
\* shows one whole page of its width: never a phone's single column on a desk,
\* and never no column, but for a schedule of one hall on a phone or a middle
\* screen, whose next button is open there and leads to a second page that does
\* not exist (showAdapticTable and programm_next, script2.js:53-89, 166-170).
ColumnsAreAPage ==
  \/ /\ hpShown # {}
     /\ hpShown \in CASE hpWidth = "mobile" -> {{h} : h \in 1..hpHalls}
                     [] hpWidth = "mid" -> {HpChunk(1), HpChunk(2)}
                     [] hpWidth = "wide" -> {1..hpHalls}
  \/ hpHalls = 1 /\ hpWidth # "wide" /\ hpShown = {}

\* On a phone the two buttons, which the days share, stand at the same hall, the
\* one that is shown, and the previous one is dimmed exactly at the first; with
\* two halls or more the next one is dimmed exactly at the last, so that every
\* hall can be reached and no button leads nowhere; with one it is never dimmed
\* (script2.js:22-38, 153-195).
PhoneButtons ==
  hpWidth = "mobile" =>
    /\ hpShown = {hpNext.page} \cap 1..hpHalls /\ hpPrev.page = hpNext.page
    /\ hpNext.disable = (hpHalls > 1 /\ hpNext.page = hpHalls)
    /\ hpPrev.disable = (hpPrev.page = 1)
    /\ hpHalls > 1 => hpNext.page \in 1..hpHalls

=============================================================================
