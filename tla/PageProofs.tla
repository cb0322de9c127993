----------------------------- MODULE PageProofs -----------------------------
(***************************************************************************)
(* Theorems about the scripts of the site's own pages, for any number of   *)
(* changes, halls, drops, days and rows, of users and of marks.            *)
(***************************************************************************)
EXTENDS PageQueries, HallPages, HallSorting, PassedRows, Feedback,
        SumTheorems, SequenceTheorems

-----------------------------------------------------------------------------
(* Controls that ask the server.                                           *)

\* Requests are numbered, and the one sent last carries what the control says.
Numbered ==
  /\ pqSent \in Nat /\ pqLast \in 0..pqSent
  /\ \A q \in pqAsked : q.n \in 1..pqSent /\ (q.n = pqSent => q.choice = pqChoice)

\* The answer to the one sent last brought the page in line.
InLine ==
  pqLast = pqSent =>
    /\ pqAnswer = pqChoice
    /\ pqPage \in {"buy_now", "lectures", "user_lectures"} => pqHere = pqChoice

QueryInv == Numbered /\ InLine

LEMMA QueryInitial == PqInit => QueryInv
  BY DEF PqInit, PqStart, QueryInv, Numbered, InLine

LEMMA AskedStep ==
  ASSUME QueryInv, NEW c, PqAsk(c), UNCHANGED <<pqPage, pqAnswer, pqHere, pqLast>>
  PROVE  QueryInv'
  <1>1. /\ pqSent \in Nat /\ pqSent' = pqSent + 1 /\ pqLast' = pqLast /\ pqLast \in 0..pqSent
        /\ pqChoice' = c
    BY DEF QueryInv, Numbered, PqAsk
  <1>2. ASSUME NEW q \in pqAsked' PROVE q.n \in 1..pqSent' /\ (q.n = pqSent' => q.choice = c)
    <2>1. CASE q \in pqAsked
      BY <1>1, <2>1 DEF QueryInv, Numbered
    <2>2. CASE q = [n |-> pqSent + 1, choice |-> c]
      BY <1>1, <2>2
    <2>. QED
      BY <1>2, <2>1, <2>2 DEF PqAsk
  <1>. QED
    BY <1>1, <1>2 DEF QueryInv, Numbered, InLine

LEMMA TakenStep ==
  ASSUME QueryInv, NEW q \in pqAsked, PqTake(q), pqAnswer' = q.choice,
         pqPage \in {"buy_now", "lectures", "user_lectures"} => pqHere' = pqChoice
  PROVE  QueryInv'
  <1>1. Numbered'
    BY DEF QueryInv, Numbered, PqTake
  <1>2. InLine'
    BY DEF QueryInv, Numbered, InLine, PqTake
  <1>. QED
    BY <1>1, <1>2 DEF QueryInv

LEMMA QueryStep ==
  ASSUME QueryInv, [PqNext]_pqVars
  PROVE  QueryInv'
  <1>1. ASSUME NEW c, ChooseTickets(c) \/ ChooseLectures(c) \/ ChooseUserLectures(c) \/ ChooseUsers(c)
        PROVE  QueryInv'
    BY <1>1, AskedStep DEF ChooseTickets, ChooseLectures, ChooseUserLectures, ChooseUsers
  <1>2. ASSUME NEW q \in pqAsked,
               BuyNowAnswered(q) \/ AccountAnswered(q) \/ LecturesAnswered(q) \/ UsersAnswered(q)
        PROVE  QueryInv'
    BY <1>2, TakenStep DEF BuyNowAnswered, AccountAnswered, LecturesAnswered, UsersAnswered
  <1>3. ASSUME NEW q \in pqAsked, PqFails(q) PROVE QueryInv'
    BY <1>3 DEF PqFails, QueryInv, Numbered, InLine
  <1>4. CASE UNCHANGED pqVars
    BY <1>4 DEF pqVars, QueryInv, Numbered, InLine
  <1>. QED
    BY <1>1, <1>2, <1>3, <1>4 DEF PqNext

LEMMA QueryTypesInitial == PqInit => PqTypeOK
  BY QueriesAssumption DEF PqInit, PqStart, PqTypeOK

LEMMA QueryTypesStep ==
  ASSUME QueryInv, PqTypeOK, [PqNext]_pqVars
  PROVE  PqTypeOK'
  <1>1. ASSUME NEW c \in PqChoices,
               ChooseTickets(c) \/ ChooseLectures(c) \/ ChooseUserLectures(c) \/ ChooseUsers(c)
        PROVE  PqTypeOK'
    <2>1. /\ pqSent < MaxSends /\ PqAsk(c) /\ UNCHANGED <<pqPage, pqAnswer, pqHere, pqLast>>
      BY <1>1 DEF ChooseTickets, ChooseLectures, ChooseUserLectures, ChooseUsers, PqMayAsk
    <2>2. pqSent' = pqSent + 1 /\ pqSent + 1 \in 1..MaxSends /\ pqLast' \in 0..MaxSends
      BY <2>1, QueriesAssumption DEF PqAsk, PqTypeOK
    <2>3. \A q \in pqAsked' : q.n \in 1..MaxSends /\ q.choice \in PqChoices
      BY <2>1, <2>2 DEF PqAsk, PqTypeOK
    <2>. QED
      BY <2>1, <2>2, <2>3 DEF PqAsk, PqTypeOK
  <1>2. ASSUME NEW q \in pqAsked,
               BuyNowAnswered(q) \/ AccountAnswered(q) \/ LecturesAnswered(q) \/ UsersAnswered(q)
        PROVE  PqTypeOK'
    <2>1. PqTake(q) /\ pqAnswer' = q.choice /\ pqHere' \in {pqHere, pqChoice}
      BY <1>2 DEF BuyNowAnswered, AccountAnswered, LecturesAnswered, UsersAnswered
    <2>2. q.n \in 0..MaxSends
      BY QueriesAssumption DEF PqTypeOK
    <2>. QED
      BY <2>1, <2>2 DEF PqTake, PqTypeOK
  <1>3. ASSUME NEW q \in pqAsked, PqFails(q) PROVE PqTypeOK'
    BY <1>3 DEF PqFails, PqTypeOK
  <1>4. CASE UNCHANGED pqVars
    BY <1>4 DEF pqVars, PqTypeOK
  <1>. QED
    BY <1>1, <1>2, <1>3, <1>4 DEF PqNext

\* When the request sent last was answered last, the page is that of the
\* control, for any number of requests in any order (promo.js:72-106).
THEOREM AnswerIsOfChoiceAlways == PqSpec => []AnswerIsOfChoice
  <1>1. QueryInv => AnswerIsOfChoice
    BY DEF QueryInv, InLine, AnswerIsOfChoice
  <1>. QED
    BY <1>1, QueryInitial, QueryStep, PTL DEF PqSpec

\* Requests carry settings of the control, and the page shows settings.
THEOREM QueryTypesAlways == PqSpec => []PqTypeOK
  <1>1. PqInit => QueryInv /\ PqTypeOK
    BY QueryInitial, QueryTypesInitial
  <1>2. QueryInv /\ PqTypeOK /\ [PqNext]_pqVars => (QueryInv /\ PqTypeOK)'
    BY QueryStep, QueryTypesStep
  <1>. QED
    BY <1>1, <1>2, PTL DEF PqSpec

-----------------------------------------------------------------------------
(* Pages of columns.                                                       *)

Columns ==
  /\ hpHalls \in Nat /\ hpHalls >= 1 /\ hpWidth \in Widths /\ hpDay \in Days
  /\ hpPage \in [Days -> HpPages]
  /\ hpNext.page \in HpPages /\ hpPrev.page \in HpPages

ColumnsInv == Columns /\ ColumnsAreAPage /\ PhoneButtons

\* The first chunk has a hall; the second has one when there are two halls.
LEMMA Chunks ==
  ASSUME hpHalls \in Nat, hpHalls >= 1
  PROVE  /\ HpChunk(1) # {} /\ HpChunk(1) \subseteq 1..hpHalls /\ HpChunk(2) \subseteq 1..hpHalls
         /\ hpHalls > 1 => HpChunk(2) # {}
         /\ hpHalls = 1 => HpChunk(2) = {}
  <1>. PICK m \in Nat : m = HpHalf
    BY DEF HpHalf
  <1>1. m >= 1 /\ m <= hpHalls /\ (hpHalls > 1 => m < hpHalls) /\ (hpHalls = 1 => m = 1)
    BY DEF HpHalf
  <1>2. HpChunk(1) = 1..m /\ HpChunk(2) = (m + 1)..hpHalls
    BY DEF HpChunk
  <1>3. 1 \in HpChunk(1) /\ (hpHalls > 1 => hpHalls \in HpChunk(2))
    BY <1>1, <1>2
  <1>. QED
    BY <1>1, <1>2, <1>3

LEMMA ColumnsInitial == HpInit => ColumnsInv
  <1>. SUFFICES ASSUME NEW n \in HallCounts, NEW w \in Widths, NEW d \in Days, HpStart(n, w, d)
                PROVE  ColumnsInv
    BY DEF HpInit
  <1>1. n \in Nat /\ n >= 1 /\ hpHalls = n /\ hpWidth = w /\ hpDay = d
    BY HallAssumption DEF HpStart
  <1>2. Columns
    BY <1>1 DEF HpStart, Columns, Button, HpPages
  <1>3. ColumnsAreAPage
    <2>1. CASE w = "mobile"
      BY <1>1, <2>1 DEF HpStart, ColumnsAreAPage
    <2>2. CASE w = "mid"
      <3>1. hpShown = HpChunk(1)
        BY <1>1, <2>2 DEF HpStart, HpChunk, HpHalf
      <3>. QED
        BY <1>1, <2>2, <3>1, Chunks DEF ColumnsAreAPage
    <2>3. CASE w = "wide"
      <3>1. hpShown = 1..hpHalls /\ 1 \in hpShown
        BY <1>1, <2>3 DEF HpStart
      <3>. QED
        BY <1>1, <2>3, <3>1 DEF ColumnsAreAPage
    <2>. QED
      BY <2>1, <2>2, <2>3 DEF Widths
  <1>4. PhoneButtons
    <2>1. w = "mobile" => /\ hpShown = {1} /\ hpNext.page = 1 /\ hpPrev.page = 1
                          /\ hpNext.disable = FALSE /\ hpPrev.disable = TRUE
      BY DEF HpStart, Button
    <2>2. (n > 1 /\ 1 = n) = FALSE /\ {1} = {1} \cap 1..n
      BY <1>1
    <2>. QED
      BY <1>1, <2>1, <2>2 DEF PhoneButtons
  <1>. QED
    BY <1>2, <1>3, <1>4 DEF ColumnsInv

LEMMA ResizeStep ==
  ASSUME ColumnsInv, NEW w \in Widths, Resize(w)
  PROVE  ColumnsInv'
  <1>1. /\ hpWidth' = w /\ hpHalls' = hpHalls /\ hpDay' = hpDay /\ HpAdapt(w)
        /\ hpHalls \in Nat /\ hpHalls >= 1 /\ hpDay \in Days
        /\ hpPage \in [Days -> HpPages] /\ hpPage[hpDay] \in HpPages /\ hpPage[hpDay] \in Nat
        /\ hpNext.page \in HpPages /\ hpPrev.page \in HpPages
        /\ HpPages' = HpPages /\ 1 \in HpPages /\ 2 \in HpPages
    BY DEF Resize, ColumnsInv, Columns, HpPages
  <1>. DEFINE page == hpPage[hpDay]
  <1>2. CASE w = "mobile"
    <2>1. /\ hpPage' = [hpPage EXCEPT ![hpDay] = page] /\ hpShown' = {page} \cap 1..hpHalls
          /\ hpNext' = Button(page, page # 1 /\ page = hpHalls)
          /\ hpPrev' = Button(page, page = 1)
      BY <1>1, <1>2 DEF HpAdapt, HpShow
    <2>2. /\ hpNext'.page = page /\ hpPrev'.page = page
          /\ hpNext'.disable = (page # 1 /\ page = hpHalls) /\ hpPrev'.disable = (page = 1)
      BY <2>1 DEF Button
    <2>3. Columns'
      BY <1>1, <2>1, <2>2 DEF Columns
    <2>4. page \in 1..hpHalls \/ (hpHalls = 1 /\ page = 2)
      BY <1>1 DEF HpPages
    <2>5. ColumnsAreAPage'
      <3>1. CASE page \in 1..hpHalls
        <4>1. hpShown' = {page} /\ hpShown' # {}
          BY <2>1, <3>1
        <4>. QED
          BY <1>1, <1>2, <3>1, <4>1 DEF ColumnsAreAPage
      <3>2. CASE hpHalls = 1 /\ page = 2
        <4>1. hpShown' = {}
          BY <2>1, <3>2
        <4>. QED
          BY <1>1, <1>2, <3>2, <4>1 DEF ColumnsAreAPage
      <3>. QED
        BY <2>4, <3>1, <3>2
    <2>6. (page # 1 /\ page = hpHalls) = (hpHalls > 1 /\ page = hpHalls)
      BY <1>1
    <2>7. hpHalls > 1 => page \in 1..hpHalls
      BY <1>1, <2>4
    <2>8. PhoneButtons'
      BY <1>1, <2>1, <2>2, <2>6, <2>7 DEF PhoneButtons
    <2>. QED
      BY <2>3, <2>5, <2>8 DEF ColumnsInv
  <1>3. CASE w = "mid"
    <2>1. PICK p \in 1..2 : hpPage' = [hpPage EXCEPT ![hpDay] = p] /\ hpShown' = HpChunk(p)
      <3>1. CASE page > 2
        BY <1>1, <1>3, <3>1 DEF HpAdapt, HpShow
      <3>2. CASE ~(page > 2)
        <4>1. hpPage' = [hpPage EXCEPT ![hpDay] = page] /\ hpShown' = HpChunk(page)
          <5>1. HpShow(w, page).page = page /\ HpShow(w, page).shown = HpChunk(page)
            BY <1>3, <3>2 DEF HpShow
          <5>. QED
            BY <1>1, <5>1 DEF HpAdapt
        <4>2. page \in 1..2
          BY <1>1, <3>2 DEF HpPages
        <4>. QED
          BY <4>1, <4>2
      <3>. QED
        BY <3>1, <3>2
    <2>2. hpNext'.page \in HpPages /\ hpPrev'.page \in HpPages
      BY <1>1, <1>3 DEF HpAdapt, HpShow, Button
    <2>3. HpChunk(p)' = HpChunk(p) /\ HpChunk(1)' = HpChunk(1) /\ HpChunk(2)' = HpChunk(2)
      BY <1>1 DEF HpChunk, HpHalf
    <2>4. p \in HpPages
      BY <1>1
    <2>5. Columns'
      BY <1>1, <2>1, <2>2, <2>4 DEF Columns
    <2>6. ColumnsAreAPage'
      BY <1>1, <1>3, <2>1, <2>3, Chunks DEF ColumnsAreAPage
    <2>. QED
      BY <1>1, <1>3, <2>5, <2>6 DEF ColumnsInv, PhoneButtons
  <1>4. CASE w = "wide"
    <2>1. /\ hpPage' = [hpPage EXCEPT ![hpDay] = 1] /\ hpShown' = 1..hpHalls
          /\ hpNext'.page = 1 /\ hpPrev'.page = 1
      BY <1>1, <1>4 DEF HpAdapt, HpShow, Button
    <2>2. Columns'
      BY <1>1, <2>1 DEF Columns
    <2>3. 1 \in hpShown'
      BY <1>1, <2>1
    <2>. QED
      BY <1>1, <1>4, <2>1, <2>2, <2>3 DEF ColumnsInv, ColumnsAreAPage, PhoneButtons
  <1>. QED
    BY <1>2, <1>3, <1>4 DEF Widths

LEMMA TurnStep ==
  ASSUME ColumnsInv, ProgrammNext \/ ProgrammPrev
  PROVE  ColumnsInv'
  <1>1. /\ UNCHANGED <<hpHalls, hpWidth, hpDay>> /\ hpHalls \in Nat /\ hpHalls >= 1 /\ hpDay \in Days
        /\ hpWidth \in Widths /\ hpNext.page \in HpPages /\ hpPrev.page \in HpPages
        /\ hpNext.page \in Nat /\ hpNext.page >= 1 /\ hpPrev.page \in Nat
        /\ HpPages' = HpPages /\ 1..hpHalls \subseteq HpPages /\ 1..2 \subseteq HpPages
    <2>1. /\ hpHalls \in Nat /\ hpHalls >= 1 /\ hpWidth \in Widths /\ hpDay \in Days
          /\ hpNext.page \in HpPages /\ hpPrev.page \in HpPages
      BY DEF ColumnsInv, Columns
    <2>2. UNCHANGED <<hpHalls, hpWidth, hpDay>>
      BY DEF ProgrammNext, ProgrammPrev, HpTurn
    <2>3. HpPages' = HpPages /\ 1..hpHalls \subseteq HpPages /\ 1..2 \subseteq HpPages
      BY <2>1, <2>2 DEF HpPages
    <2>. QED
      BY <2>1, <2>2, <2>3 DEF HpPages
  <1>2. CASE hpWidth = "mobile"
    <2>1. PICK p \in 1..hpHalls :
            /\ HpTurn(p) /\ hpNext'.page = p /\ hpPrev'.page = p
            /\ hpNext'.disable = (hpHalls > 1 /\ p = hpHalls) /\ hpPrev'.disable = (p = 1)
      <3>1. /\ hpPrev.page = hpNext.page
            /\ hpNext.disable = (hpHalls > 1 /\ hpNext.page = hpHalls)
            /\ hpPrev.disable = (hpPrev.page = 1)
            /\ hpHalls > 1 => hpNext.page \in 1..hpHalls
        BY <1>2 DEF ColumnsInv, PhoneButtons
      <3>2. CASE ProgrammNext
        <4>1. hpNext.page + 1 \in 1..hpHalls
          BY <1>1, <1>2, <3>2 DEF ProgrammNext
        <4>2. /\ HpTurn(hpNext.page + 1) /\ hpNext'.page = hpNext.page + 1
              /\ hpPrev'.page = hpNext.page + 1 /\ hpPrev'.disable = FALSE
              /\ hpNext'.disable = (hpNext.disable \/ hpNext.page = hpHalls - 1)
              /\ hpNext.page < hpHalls
          BY <1>2, <3>2 DEF ProgrammNext, Button
        <4>3. /\ (hpHalls > 1 /\ hpNext.page = hpHalls) = FALSE /\ (hpNext.page + 1 = 1) = FALSE
              /\ (hpNext.page = hpHalls - 1) = (hpHalls > 1 /\ hpNext.page + 1 = hpHalls)
          BY <1>1, <4>2
        <4>4. /\ hpNext'.disable = (hpHalls > 1 /\ hpNext.page + 1 = hpHalls)
              /\ hpPrev'.disable = (hpNext.page + 1 = 1)
          BY <3>1, <4>2, <4>3
        <4>. QED
          BY <4>1, <4>2, <4>4
      <3>3. CASE ProgrammPrev
        <4>1. hpPrev.page - 1 \in 1..hpHalls
          BY <1>1, <1>2, <3>1, <3>3 DEF ProgrammPrev, HpPages
        <4>2. /\ HpTurn(hpPrev.page - 1) /\ hpNext'.page = hpPrev.page - 1
              /\ hpPrev'.page = hpPrev.page - 1 /\ hpNext'.disable = FALSE
              /\ hpPrev'.disable = (hpPrev.disable \/ hpPrev.page = 2)
              /\ hpPrev.page > 1
          BY <1>2, <3>3 DEF ProgrammPrev, Button
        <4>3. /\ (hpPrev.page = 1) = FALSE /\ (hpHalls > 1 /\ hpPrev.page - 1 = hpHalls) = FALSE
              /\ (hpPrev.page = 2) = (hpPrev.page - 1 = 1)
          BY <1>1, <3>1, <4>2
        <4>4. /\ hpPrev'.disable = (hpPrev.page - 1 = 1)
              /\ hpNext'.disable = (hpHalls > 1 /\ hpPrev.page - 1 = hpHalls)
          BY <3>1, <4>2, <4>3
        <4>. QED
          BY <4>1, <4>2, <4>4
      <3>. QED
        BY <3>2, <3>3
    <2>2. hpPage' = [d \in Days |-> p] /\ hpShown' = {p}
      BY <1>2, <2>1 DEF HpTurn
    <2>3. Columns'
      BY <1>1, <2>1, <2>2 DEF Columns
    <2>4. {p} = {p} \cap 1..hpHalls
      OBVIOUS
    <2>. QED
      BY <1>1, <1>2, <2>1, <2>2, <2>3, <2>4 DEF ColumnsInv, ColumnsAreAPage, PhoneButtons
  <1>3. CASE hpWidth # "mobile"
    <2>1. PICK p \in 1..2 : HpTurn(p) /\ hpNext'.page = p /\ hpPrev'.page = p /\ hpWidth = "mid"
      BY <1>3 DEF ProgrammNext, ProgrammPrev, Button
    <2>2. hpPage' = [d \in Days |-> p] /\ hpShown' = HpChunk(p)
      BY <1>3, <2>1 DEF HpTurn
    <2>3. HpChunk(p)' = HpChunk(p) /\ HpChunk(1)' = HpChunk(1) /\ HpChunk(2)' = HpChunk(2)
      BY <1>1 DEF HpChunk, HpHalf
    <2>4. Columns'
      BY <1>1, <2>1, <2>2 DEF Columns
    <2>5. ColumnsAreAPage'
      BY <1>1, <2>1, <2>2, <2>3, Chunks DEF ColumnsAreAPage
    <2>. QED
      BY <1>1, <2>1, <2>4, <2>5 DEF ColumnsInv, PhoneButtons
  <1>. QED
    BY <1>2, <1>3

LEMMA ColumnsStep ==
  ASSUME ColumnsInv, [HpNextStep]_hpVars
  PROVE  ColumnsInv'
  <1>1. ASSUME NEW d \in Days, SelectDay(d) PROVE ColumnsInv'
    BY <1>1 DEF SelectDay, ColumnsInv, Columns, ColumnsAreAPage, PhoneButtons, HpChunk, HpHalf, HpPages
  <1>2. CASE UNCHANGED hpVars
    BY <1>2 DEF hpVars, ColumnsInv, Columns, ColumnsAreAPage, PhoneButtons, HpChunk, HpHalf, HpPages
  <1>. QED
    BY <1>1, <1>2, ResizeStep, TurnStep DEF HpNextStep

\* The buttons are buttons of halls.
ButtonTypes == {hpNext, hpPrev} \subseteq [page : Int, disable : BOOLEAN]

ColumnTypesInv == ColumnsInv /\ hpHalls \in HallCounts /\ ButtonTypes

LEMMA ColumnTypesInitial == HpInit => ColumnTypesInv
  <1>1. HpInit => hpHalls \in HallCounts /\ ButtonTypes
    BY DEF HpInit, HpStart, Button, ButtonTypes
  <1>. QED
    BY <1>1, ColumnsInitial DEF ColumnTypesInv

LEMMA ColumnTypesStep ==
  ASSUME ColumnTypesInv, [HpNextStep]_hpVars
  PROVE  ColumnTypesInv'
  <1>1. ColumnsInv'
    BY ColumnsStep DEF ColumnTypesInv
  <1>2. hpHalls' = hpHalls
    BY DEF HpNextStep, hpVars, Resize, ProgrammNext, ProgrammPrev, HpTurn, SelectDay
  <1>3. \A page \in Int, disable \in BOOLEAN : Button(page, disable) \in [page : Int, disable : BOOLEAN]
    BY DEF Button
  <1>4. /\ hpHalls \in Int /\ hpNext.page \in Int /\ hpPrev.page \in Int
        /\ hpDay \in Days /\ hpPage[hpDay] \in Int
    BY DEF ColumnTypesInv, ColumnsInv, Columns, ButtonTypes, HpPages
  <1>5. ASSUME NEW w \in Widths, Resize(w) PROVE ButtonTypes'
    <2>. DEFINE s == HpShow(w, hpPage[hpDay])
    <2>1. s.page \in Int /\ 1 \in Int
      BY <1>4 DEF HpShow
    <2>2. HpAdapt(w)
      BY <1>5 DEF Resize
    <2>. HIDE DEF s
    <2>3. CASE w = "mobile"
      <3>1. /\ hpNext' = Button(s.page, s.page # 1 /\ s.page = hpHalls)
            /\ hpPrev' = Button(s.page, s.page = 1)
        BY <2>2, <2>3, Zenon DEF HpAdapt, s
      <3>2. (s.page # 1 /\ s.page = hpHalls) \in BOOLEAN /\ (s.page = 1) \in BOOLEAN
        BY Zenon
      <3>. QED
        BY <1>3, <2>1, <3>1, <3>2, Zenon DEF ButtonTypes
    <2>4. CASE w # "mobile"
      <3>1. \/ UNCHANGED <<hpNext, hpPrev>>
            \/ hpNext' = Button(1, FALSE) /\ hpPrev' = Button(1, TRUE)
        BY <2>2, <2>4, Zenon DEF HpAdapt
      <3>2. CASE UNCHANGED <<hpNext, hpPrev>>
        BY <3>2 DEF ButtonTypes, ColumnTypesInv
      <3>3. CASE hpNext' = Button(1, FALSE) /\ hpPrev' = Button(1, TRUE)
        BY <1>3, <2>1, <3>3, Zenon DEF ButtonTypes
      <3>. QED
        BY <3>1, <3>2, <3>3
    <2>. QED
      BY <2>3, <2>4
  <1>6. ASSUME ProgrammNext PROVE ButtonTypes'
    <2>1. /\ hpNext.page + 1 \in Int /\ 2 \in Int
          /\ (hpNext.disable \/ hpNext.page = hpHalls - 1) \in BOOLEAN
      BY <1>4
    <2>2. \/ /\ hpNext' = Button(hpNext.page + 1, hpNext.disable \/ hpNext.page = hpHalls - 1)
             /\ hpPrev' = Button(hpNext.page + 1, FALSE)
          \/ hpNext' = Button(2, TRUE) /\ hpPrev' = Button(2, FALSE)
      BY <1>6, Zenon DEF ProgrammNext
    <2>3. hpNext' \in [page : Int, disable : BOOLEAN]
      BY <1>3, <2>1, <2>2, Zenon
    <2>4. hpPrev' \in [page : Int, disable : BOOLEAN]
      BY <1>3, <2>1, <2>2, Zenon
    <2>. QED
      BY <2>3, <2>4 DEF ButtonTypes
  <1>7. ASSUME ProgrammPrev PROVE ButtonTypes'
    <2>1. /\ hpPrev.page - 1 \in Int /\ 1 \in Int
          /\ (hpPrev.disable \/ hpPrev.page = 2) \in BOOLEAN
      BY <1>4
    <2>2. \/ /\ hpPrev' = Button(hpPrev.page - 1, hpPrev.disable \/ hpPrev.page = 2)
             /\ hpNext' = Button(hpPrev.page - 1, FALSE)
          \/ hpNext' = Button(1, FALSE) /\ hpPrev' = Button(1, TRUE)
      BY <1>7, Zenon DEF ProgrammPrev
    <2>3. hpNext' \in [page : Int, disable : BOOLEAN]
      BY <1>3, <2>1, <2>2, Zenon
    <2>4. hpPrev' \in [page : Int, disable : BOOLEAN]
      BY <1>3, <2>1, <2>2, Zenon
    <2>. QED
      BY <2>3, <2>4 DEF ButtonTypes
  <1>8. ASSUME UNCHANGED <<hpNext, hpPrev>> PROVE ButtonTypes'
    BY <1>8 DEF ButtonTypes, ColumnTypesInv
  <1>9. ButtonTypes'
    <2>1. ASSUME NEW d, SelectDay(d) PROVE UNCHANGED <<hpNext, hpPrev>>
      BY <2>1 DEF SelectDay
    <2>2. UNCHANGED hpVars => UNCHANGED <<hpNext, hpPrev>>
      BY DEF hpVars
    <2>3. HpNextStep \/ UNCHANGED hpVars
      OBVIOUS
    <2>4. HpNextStep <=> \/ \E w \in Widths : Resize(w)
                         \/ ProgrammNext \/ ProgrammPrev
                         \/ \E d \in Days : SelectDay(d)
      BY DEF HpNextStep
    <2>. HIDE DEF ButtonTypes
    <2>. QED
      BY <1>5, <1>6, <1>7, <1>8, <2>1, <2>2, <2>3, <2>4
  <1>. QED
    BY <1>1, <1>2, <1>9 DEF ColumnTypesInv

LEMMA ColumnTypes == ColumnTypesInv => HpTypeOK
  <1>. SUFFICES ASSUME ColumnTypesInv PROVE HpTypeOK
    OBVIOUS
  <1>1. Columns /\ ColumnsAreAPage /\ hpHalls \in Nat /\ hpHalls >= 1
    BY DEF ColumnTypesInv, ColumnsInv, Columns
  <1>2. hpShown \subseteq 1..hpHalls
    BY <1>1, Chunks DEF ColumnsAreAPage, Columns, Widths
  <1>3. hpNext \in [page : HpPages, disable : BOOLEAN] /\ hpPrev \in [page : HpPages, disable : BOOLEAN]
    BY <1>1 DEF ColumnTypesInv, ButtonTypes, Columns
  <1>. QED
    BY <1>1, <1>2, <1>3 DEF ColumnTypesInv, Columns, HpTypeOK

\* For any number of halls from one on, and any days: the screen shows one whole
\* page of its width; only with one hall it may show none (script2.js:53-89).
THEOREM ColumnsAreAPageAlways == HpSpec => []ColumnsAreAPage
  <1>1. ColumnsInv => ColumnsAreAPage
    BY DEF ColumnsInv
  <1>. QED
    BY <1>1, ColumnsInitial, ColumnsStep, PTL DEF HpSpec

\* And a phone's buttons stand at its hall, dimmed at the first and, of two or
\* more, at the last one (script2.js:22-38, 153-195).
THEOREM PhoneButtonsAlways == HpSpec => []PhoneButtons
  <1>1. ColumnsInv => PhoneButtons
    BY DEF ColumnsInv
  <1>. QED
    BY <1>1, ColumnsInitial, ColumnsStep, PTL DEF HpSpec

\* Every page, button and column that is shown is one of the halls.
THEOREM ColumnTypesAlways == HpSpec => []HpTypeOK
  <1>1. HpInit => ColumnTypesInv
    BY ColumnTypesInitial
  <1>2. ColumnTypesInv /\ [HpNextStep]_hpVars => ColumnTypesInv'
    BY ColumnTypesStep
  <1>. QED
    BY <1>1, <1>2, ColumnTypes, PTL DEF HpSpec

-----------------------------------------------------------------------------
(* Sorting of the halls.                                                   *)

\* Every hall once.
WholeOrder(order) ==
  /\ order \in Seq(Halls) /\ Len(order) = Cardinality(Halls)
  /\ \A i, j \in 1..Len(order) : order[i] = order[j] => i = j

\* The first n halls of an order have its positions, or are deleted.
SavedTo(order, n) == \A i \in 1..Len(order) : i <= n => hsPos[order[i]] \in {i - 1, -1}

SortTypes ==
  /\ WholeOrder(hsList) /\ hsPos \in [Halls -> Int]
  /\ hsDrops \in Nat /\ hsAlone \in 0..hsDrops
  /\ \A r \in hsReqs :
       /\ WholeOrder(r.ids) /\ r.done \in Nat /\ r.done < Len(r.ids) /\ r.seen \in Int
       /\ r.n \in 1..hsDrops /\ (r.n = hsDrops => r.ids = hsList)
       /\ DOMAIN r = {"n", "ids", "done", "seen"}
  /\ \A r, s \in hsReqs : r.n = s.n => r = s

\* What the request that is processed alone has saved is still so, and so is
\* what it has loaded; the last order, when it is through, is saved whole.
Undisturbed(r) ==
  /\ SavedTo(r.ids, r.done)
  /\ r.seen # -1 => hsPos[HsHall(r)] \in {r.seen, -1}

InOrder ==
  /\ \A r \in hsReqs : r.n = hsAlone => Undisturbed(r)
  /\ hsAlone = hsDrops /\ hsDrops > 0 /\ (\A r \in hsReqs : r.n # hsDrops) =>
       SavedTo(hsList, Len(hsList))

SortInv == SortTypes /\ InOrder

\* An order of all the halls has every one of them.
LEMMA WholeOrderOnto ==
  ASSUME NEW order, WholeOrder(order), NEW h \in Halls
  PROVE  \E i \in 1..Len(order) : order[i] = h
  <1>. PICK n \in Nat : n = Cardinality(Halls)
    BY SortingAssumption, FS_CardinalityType
  <1>1. order \in [1..n -> Halls] /\ Len(order) = n
    BY DEF WholeOrder
  <1>2. order \in Injection(1..n, Halls)
    BY <1>1 DEF Injection, IsInjective, WholeOrder
  <1>3. IsFiniteSet(1..n) /\ Cardinality(1..n) = n
    BY FS_Interval
  <1>4. order \in Surjection(1..n, Halls)
    BY <1>2, <1>3, SortingAssumption, FS_Injection
  <1>. QED
    BY <1>1, <1>4 DEF Surjection

LEMMA SortInitial == HsInit => SortInv
  <1>. SUFFICES ASSUME NEW order \in SetToSeqs(Halls), HsStart(order) PROVE SortInv
    BY DEF HsInit
  <1>1. WholeOrder(order)
    <2>1. Cardinality(Halls) \in Nat
      BY SortingAssumption, FS_CardinalityType
    <2>2. order \in [1..Cardinality(Halls) -> Halls]
          /\ \A i, j \in 1..Cardinality(Halls) : i # j => order[i] # order[j]
      BY DEF SetToSeqs
    <2>3. order \in Seq(Halls) /\ Len(order) = Cardinality(Halls)
      BY <2>1, <2>2
    <2>. QED
      BY <2>2, <2>3 DEF WholeOrder
  <1>2. ASSUME NEW h \in Halls PROVE hsPos[h] = (CHOOSE i \in 1..Len(order) : order[i] = h) - 1
    BY <1>2 DEF HsStart
  <1>3. ASSUME NEW i \in 1..Len(order) PROVE hsPos[order[i]] = i - 1
    <2>1. order[i] \in Halls /\ \A j \in 1..Len(order) : order[j] = order[i] <=> j = i
      BY <1>1, <1>3 DEF WholeOrder
    <2>2. (CHOOSE j \in 1..Len(order) : order[j] = order[i]) = i
      BY <1>3, <2>1
    <2>. QED
      BY <1>2, <2>1, <2>2
  <1>4. hsPos \in [Halls -> Int]
    <2>1. ASSUME NEW h \in Halls PROVE hsPos[h] \in Int
      <3>1. \E i \in 1..Len(order) : order[i] = h
        BY <1>1, WholeOrderOnto
      <3>2. PICK i \in 1..Len(order) : order[i] = h
        BY <3>1
      <3>. QED
        BY <1>3, <3>2
    <2>. QED
      BY <2>1 DEF HsStart
  <1>5. hsList = order /\ hsReqs = {} /\ hsDrops = 0 /\ hsAlone = 0
    BY DEF HsStart
  <1>. QED
    BY <1>1, <1>4, <1>5 DEF SortInv, SortTypes, InOrder

LEMMA Part ==
  ASSUME NEW s \in Seq(Halls), NEW m \in Int, NEW n \in Int, 1 <= m, n <= Len(s), m <= n + 1
  PROVE  /\ SubSeq(s, m, n) \in Seq(Halls) /\ Len(SubSeq(s, m, n)) = n - m + 1
         /\ \A k \in 1..(n - m + 1) : SubSeq(s, m, n)[k] = s[k + m - 1]
  <1>1. m \in Int /\ n \in Int /\ \A i \in m..n : s[i] \in Halls
    OBVIOUS
  <1>2. /\ SubSeq(s, m, n) \in Seq(Halls)
        /\ Len(SubSeq(s, m, n)) = IF m <= n THEN n - m + 1 ELSE 0
        /\ \A k \in 1..(n - m + 1) : SubSeq(s, m, n)[k] = s[m + k - 1]
    BY <1>1, SubSeqProperties
  <1>3. (IF m <= n THEN n - m + 1 ELSE 0) = n - m + 1
    BY <1>1
  <1>4. \A k \in 1..(n - m + 1) : m + k - 1 = k + m - 1
    BY <1>1
  <1>. QED
    BY <1>2, <1>3, <1>4

LEMMA Removed ==
  ASSUME NEW s \in Seq(Halls), NEW i \in 1..Len(s)
  PROVE  /\ RemoveAt(s, i) \in Seq(Halls) /\ Len(RemoveAt(s, i)) = Len(s) - 1
         /\ \A k \in 1..(Len(s) - 1) : RemoveAt(s, i)[k] = IF k < i THEN s[k] ELSE s[k + 1]
  <1>. PICK n \in Nat : n = Len(s)
    OBVIOUS
  <1>1. i \in 1..n /\ \A k \in 1..n : s[k] \in Halls
    OBVIOUS
  <1>2. PICK a \in Seq(Halls) : /\ a = SubSeq(s, 1, i - 1) /\ Len(a) = i - 1
                                /\ \A k \in 1..(i - 1) : a[k] = s[k]
    <2>1. i - 1 \in Int /\ i - 1 <= Len(s) /\ 1 <= i - 1 + 1 /\ (i - 1) - 1 + 1 = i - 1
          /\ \A k \in 1..(i - 1) : k + 1 - 1 = k
      BY <1>1
    <2>2. /\ SubSeq(s, 1, i - 1) \in Seq(Halls) /\ Len(SubSeq(s, 1, i - 1)) = (i - 1) - 1 + 1
          /\ \A k \in 1..((i - 1) - 1 + 1) : SubSeq(s, 1, i - 1)[k] = s[k + 1 - 1]
      BY <2>1, Part
    <2>. QED
      BY <2>1, <2>2
  <1>3. PICK b \in Seq(Halls) : /\ b = SubSeq(s, i + 1, n) /\ Len(b) = n - i
                                /\ \A k \in 1..(n - i) : b[k] = s[k + i]
    <2>1. i + 1 \in Int /\ 1 <= i + 1 /\ n <= Len(s) /\ i + 1 <= n + 1 /\ n - (i + 1) + 1 = n - i
          /\ \A k \in 1..(n - i) : k + (i + 1) - 1 = k + i
      BY <1>1
    <2>2. /\ SubSeq(s, i + 1, n) \in Seq(Halls) /\ Len(SubSeq(s, i + 1, n)) = n - (i + 1) + 1
          /\ \A k \in 1..(n - (i + 1) + 1) : SubSeq(s, i + 1, n)[k] = s[k + (i + 1) - 1]
      BY <2>1, Part
    <2>3. ASSUME NEW k \in 1..(n - i) PROVE SubSeq(s, i + 1, n)[k] = s[k + i]
      <3>1. k \in 1..(n - (i + 1) + 1) /\ k + (i + 1) - 1 = k + i
        BY <1>1
      <3>2. SubSeq(s, i + 1, n)[k] = s[k + (i + 1) - 1]
        BY <2>2, <3>1
      <3>. QED
        BY <3>1, <3>2
    <2>4. SubSeq(s, i + 1, n) \in Seq(Halls) /\ Len(SubSeq(s, i + 1, n)) = n - i
      BY <2>1, <2>2
    <2>. QED
      BY <2>3, <2>4
  <1>4. RemoveAt(s, i) = a \o b
    BY <1>2, <1>3 DEF RemoveAt
  <1>5. /\ a \o b \in Seq(Halls) /\ Len(a \o b) = Len(a) + Len(b)
        /\ \A k \in 1..(Len(a) + Len(b)) :
             (a \o b)[k] = IF k <= Len(a) THEN a[k] ELSE b[k - Len(a)]
    BY ConcatProperties
  <1>6. Len(a) = i - 1 /\ Len(b) = n - i
    BY <1>2, <1>3
  <1>7. ASSUME NEW k \in 1..(n - 1) PROVE (a \o b)[k] = IF k < i THEN s[k] ELSE s[k + 1]
    <2>1. CASE k < i
      BY <1>1, <1>2, <1>5, <1>6, <2>1
    <2>2. CASE ~(k < i)
      <3>1. k - (i - 1) \in 1..(n - i) /\ (k - (i - 1)) + i = k + 1
        BY <1>1, <2>2
      <3>2. (a \o b)[k] = b[k - (i - 1)]
        <4>1. k \in 1..(Len(a) + Len(b)) /\ ~(k <= Len(a))
          BY <1>1, <1>6, <2>2
        <4>. QED
          BY <1>5, <1>6, <4>1
      <3>. QED
        BY <1>3, <2>2, <3>1, <3>2
    <2>. QED
      BY <2>1, <2>2
  <1>. QED
    BY <1>1, <1>4, <1>5, <1>6, <1>7

LEMMA Inserted ==
  ASSUME NEW s \in Seq(Halls), NEW e \in Halls, NEW j \in Int, 1 <= j, j <= Len(s) + 1
  PROVE  /\ InsertAt(s, j, e) \in Seq(Halls) /\ Len(InsertAt(s, j, e)) = Len(s) + 1
         /\ \A k \in 1..(Len(s) + 1) :
              InsertAt(s, j, e)[k] = IF k < j THEN s[k] ELSE IF k = j THEN e ELSE s[k - 1]
  <1>. PICK n \in Nat : n = Len(s)
    OBVIOUS
  <1>1. j \in 1..(n + 1) /\ \A k \in 1..n : s[k] \in Halls
    OBVIOUS
  <1>2. PICK a \in Seq(Halls) : /\ a = SubSeq(s, 1, j - 1) /\ Len(a) = j - 1
                                /\ \A k \in 1..(j - 1) : a[k] = s[k]
    <2>1. j - 1 \in Int /\ j - 1 <= Len(s) /\ 1 <= j - 1 + 1 /\ (j - 1) - 1 + 1 = j - 1
          /\ \A k \in 1..(j - 1) : k + 1 - 1 = k
      BY <1>1
    <2>2. /\ SubSeq(s, 1, j - 1) \in Seq(Halls) /\ Len(SubSeq(s, 1, j - 1)) = (j - 1) - 1 + 1
          /\ \A k \in 1..((j - 1) - 1 + 1) : SubSeq(s, 1, j - 1)[k] = s[k + 1 - 1]
      BY <2>1, Part
    <2>. QED
      BY <2>1, <2>2
  <1>3. PICK b \in Seq(Halls) : /\ b = SubSeq(s, j, n) /\ Len(b) = n - j + 1
                                /\ \A k \in 1..(n - j + 1) : b[k] = s[k + j - 1]
    <2>1. j \in Int /\ n \in Int /\ 1 <= j /\ n <= Len(s) /\ j <= n + 1
      BY <1>1
    <2>2. /\ SubSeq(s, j, n) \in Seq(Halls) /\ Len(SubSeq(s, j, n)) = n - j + 1
          /\ \A k \in 1..(n - j + 1) : SubSeq(s, j, n)[k] = s[k + j - 1]
      BY <2>1, Part
    <2>. QED
      BY <2>2
  <1>4. PICK c \in Seq(Halls) : /\ c = a \o <<e>> /\ Len(c) = j
                                /\ \A k \in 1..j : c[k] = IF k < j THEN s[k] ELSE e
    <2>1. <<e>> \in Seq(Halls) /\ Len(<<e>>) = 1 /\ <<e>>[1] = e
      OBVIOUS
    <2>2. /\ a \o <<e>> \in Seq(Halls) /\ Len(a \o <<e>>) = Len(a) + Len(<<e>>)
          /\ \A k \in 1..(Len(a) + Len(<<e>>)) :
               (a \o <<e>>)[k] = IF k <= Len(a) THEN a[k] ELSE <<e>>[k - Len(a)]
      BY <2>1, ConcatProperties
    <2>3. Len(a) = j - 1 /\ Len(a) + Len(<<e>>) = j
      BY <1>1, <1>2, <2>1
    <2>4. ASSUME NEW k \in 1..j PROVE (a \o <<e>>)[k] = IF k < j THEN s[k] ELSE e
      <3>1. CASE k < j
        BY <1>1, <1>2, <2>2, <2>3, <3>1
      <3>2. CASE ~(k < j)
        <4>1. ~(k <= Len(a)) /\ k - Len(a) = 1
          BY <1>1, <2>3, <3>2
        <4>. QED
          BY <2>1, <2>2, <2>3, <3>2, <4>1
      <3>. QED
        BY <3>1, <3>2
    <2>. QED
      BY <2>2, <2>3, <2>4
  <1>5. InsertAt(s, j, e) = c \o b
    BY <1>2, <1>3, <1>4 DEF InsertAt
  <1>6. /\ c \o b \in Seq(Halls) /\ Len(c \o b) = Len(c) + Len(b)
        /\ \A k \in 1..(Len(c) + Len(b)) :
             (c \o b)[k] = IF k <= Len(c) THEN c[k] ELSE b[k - Len(c)]
    BY ConcatProperties
  <1>7. Len(c) = j /\ Len(b) = n - j + 1
    BY <1>3, <1>4
  <1>8. ASSUME NEW k \in 1..(n + 1)
        PROVE  (c \o b)[k] = IF k < j THEN s[k] ELSE IF k = j THEN e ELSE s[k - 1]
    <2>1. CASE k <= j
      BY <1>1, <1>4, <1>6, <1>7, <2>1
    <2>2. CASE ~(k <= j)
      <3>1. k - j \in 1..(n - j + 1) /\ (k - j) + j - 1 = k - 1
        BY <1>1, <2>2
      <3>2. (c \o b)[k] = b[k - j]
        BY <1>1, <1>6, <1>7, <2>2
      <3>. QED
        BY <1>3, <2>2, <3>1, <3>2
    <2>. QED
      BY <2>1, <2>2
  <1>. QED
    BY <1>1, <1>5, <1>6, <1>7, <1>8

\* A drop moves one hall: the list still has every hall once.
LEMMA MovedOrder ==
  ASSUME NEW order, WholeOrder(order), NEW i \in 1..Len(order), NEW j \in 1..Len(order)
  PROVE  WholeOrder(InsertAt(RemoveAt(order, i), j, order[i]))
  <1>1. order \in Seq(Halls) /\ order[i] \in Halls
        /\ \A k, l \in 1..Len(order) : order[k] = order[l] => k = l
    BY DEF WholeOrder
  <1>. PICK n \in Nat : n = Len(order)
    BY <1>1
  <1>2. PICK rest \in Seq(Halls) :
          /\ rest = RemoveAt(order, i) /\ Len(rest) = n - 1
          /\ \A k \in 1..(n - 1) : rest[k] = IF k < i THEN order[k] ELSE order[k + 1]
    BY <1>1, Removed
  <1>3. PICK moved \in Seq(Halls) :
          /\ moved = InsertAt(rest, j, order[i]) /\ Len(moved) = n
          /\ \A k \in 1..n : moved[k] = IF k < j THEN rest[k] ELSE IF k = j THEN order[i] ELSE rest[k - 1]
    <2>. PICK h \in Halls : h = order[i]
      BY <1>1
    <2>1. rest \in Seq(Halls) /\ j \in Int /\ 1 <= j /\ j <= Len(rest) + 1 /\ Len(rest) + 1 = n
      BY <1>2
    <2>2. /\ InsertAt(rest, j, h) \in Seq(Halls)
          /\ Len(InsertAt(rest, j, h)) = Len(rest) + 1
          /\ \A k \in 1..(Len(rest) + 1) :
               InsertAt(rest, j, h)[k] = IF k < j THEN rest[k] ELSE IF k = j THEN h ELSE rest[k - 1]
      BY <2>1, Inserted
    <2>. QED
      BY <2>1, <2>2
  <1>. DEFINE b(k) == IF k < j THEN k ELSE k - 1
              a(k) == IF b(k) < i THEN b(k) ELSE b(k) + 1
  <1>4. ASSUME NEW k \in 1..n, k # j PROVE a(k) \in 1..n /\ a(k) # i /\ moved[k] = order[a(k)]
    <2>1. b(k) \in 1..(n - 1)
      BY <1>4
    <2>2. moved[k] = rest[b(k)]
      BY <1>3, <1>4
    <2>3. rest[b(k)] = order[a(k)]
      BY <1>2, <2>1
    <2>. QED
      BY <2>1, <2>2, <2>3
  <1>5. ASSUME NEW k \in 1..n, NEW l \in 1..n, moved[k] = moved[l] PROVE k = l
    <2>1. CASE k = j /\ l = j
      BY <2>1
    <2>2. CASE k = j /\ l # j
      <3>1. moved[k] = order[i]
        BY <1>3, <2>2
      <3>. QED
        BY <1>1, <1>4, <1>5, <2>2, <3>1
    <2>3. CASE k # j /\ l = j
      <3>1. moved[l] = order[i]
        BY <1>3, <2>3
      <3>. QED
        BY <1>1, <1>4, <1>5, <2>3, <3>1
    <2>4. CASE k # j /\ l # j
      <3>1. a(k) = a(l)
        BY <1>1, <1>4, <1>5, <2>4
      <3>. QED
        BY <2>4, <3>1
    <2>. QED
      BY <2>1, <2>2, <2>3, <2>4
  <1>. QED
    BY <1>1, <1>2, <1>3, <1>5 DEF WholeOrder

LEMMA DropStep ==
  ASSUME SortInv, NEW i \in 1..Len(hsList), NEW j \in 1..Len(hsList), Drop(i, j)
  PROVE  SortInv'
  <1>. USE DEF SortInv
  <1>. DEFINE new == [n |-> hsDrops + 1, ids |-> hsList', done |-> 0, seen |-> -1]
  <1>1. /\ hsReqs' = hsReqs \cup {new} /\ hsDrops' = hsDrops + 1 /\ hsDrops \in Nat
        /\ UNCHANGED <<hsPos, hsAlone>> /\ new.n = hsDrops' /\ new.ids = hsList' /\ new.done = 0
        /\ new.seen = -1 /\ DOMAIN new = {"n", "ids", "done", "seen"}
    BY DEF Drop, SortTypes
  <1>2. WholeOrder(hsList') /\ 0 < Len(hsList')
    <2>1. WholeOrder(hsList) /\ Len(hsList) \in Nat
      BY DEF SortTypes, WholeOrder
    <2>2. WholeOrder(hsList')
      BY <2>1, MovedOrder DEF Drop
    <2>. QED
      BY <2>1, <2>2 DEF WholeOrder
  <1>. HIDE DEF new
  <1>3. /\ \A r \in hsReqs : r.n # hsDrops' /\ r.n \in 1..hsDrops'
        /\ hsAlone' # hsDrops' /\ hsAlone' \in 0..hsDrops'
    BY <1>1 DEF SortTypes
  <1>4. SortTypes'
    BY <1>1, <1>2, <1>3 DEF SortTypes
  <1>5. \A r \in hsReqs : Undisturbed(r)' = Undisturbed(r)
    BY <1>1 DEF Undisturbed, SavedTo, HsHall
  <1>6. InOrder'
    BY <1>1, <1>3, <1>5 DEF InOrder
  <1>. QED
    BY <1>4, <1>6

LEMMA RequestFacts ==
  ASSUME SortInv, NEW r \in hsReqs
  PROVE  /\ WholeOrder(r.ids) /\ r.done \in Nat /\ r.done < Len(r.ids) /\ r.n \in 1..hsDrops
         /\ r.seen \in Int /\ (r.n = hsDrops => r.ids = hsList)
         /\ DOMAIN r = {"n", "ids", "done", "seen"}
         /\ Len(r.ids) \in Nat /\ HsHall(r) \in Halls /\ hsDrops \in Nat
         /\ \A i \in 1..Len(r.ids) : r.ids[i] \in Halls /\ (r.ids[i] = HsHall(r) => i = r.done + 1)
         /\ \A s \in hsReqs : s.n = r.n => s = r
         /\ hsPos \in [Halls -> Int]
  <1>1. /\ WholeOrder(r.ids) /\ r.done \in Nat /\ r.done < Len(r.ids) /\ r.n \in 1..hsDrops
        /\ r.seen \in Int /\ (r.n = hsDrops => r.ids = hsList)
        /\ DOMAIN r = {"n", "ids", "done", "seen"}
        /\ \A s \in hsReqs : s.n = r.n => s = r
        /\ hsPos \in [Halls -> Int] /\ hsDrops \in Nat
    BY DEF SortInv, SortTypes
  <1>2. r.ids \in Seq(Halls) /\ Len(r.ids) \in Nat /\ \A i, j \in 1..Len(r.ids) : r.ids[i] = r.ids[j] => i = j
    BY <1>1 DEF WholeOrder
  <1>3. r.done + 1 \in 1..Len(r.ids) /\ \A i \in 1..Len(r.ids) : r.ids[i] \in Halls
    BY <1>1, <1>2
  <1>. QED
    BY <1>1, <1>2, <1>3 DEF HsHall

\* A request that goes on without another's step in between is undisturbed.
LEMMA StepUndisturbed ==
  ASSUME SortInv, NEW r \in hsReqs, HsStep(r), hsAlone' # 0
  PROVE  hsAlone' = r.n /\ Undisturbed(r)
  <1>1. hsAlone' = r.n /\ (hsAlone = r.n \/ (r.done = 0 /\ r.seen = -1))
    BY DEF HsStep
  <1>2. CASE hsAlone = r.n
    BY <1>1, <1>2 DEF SortInv, InOrder
  <1>3. CASE r.done = 0 /\ r.seen = -1
    BY <1>1, <1>3, RequestFacts DEF Undisturbed, SavedTo
  <1>. QED
    BY <1>1, <1>2, <1>3

LEMMA FindHallStep ==
  ASSUME SortInv, NEW r \in hsReqs, FindHall(r)
  PROVE  SortInv'
  <1>. PICK q : q = [r EXCEPT !.seen = hsPos[HsHall(r)]]
    OBVIOUS
  <1>1. q.n = r.n /\ q.ids = r.ids /\ q.done = r.done /\ q.seen = hsPos[HsHall(r)]
        /\ DOMAIN q = {"n", "ids", "done", "seen"} /\ q.seen \in Int /\ HsHall(q) = HsHall(r)
    BY RequestFacts DEF HsHall
  <1>2. /\ hsReqs' = (hsReqs \ {r}) \cup {q} /\ UNCHANGED <<hsList, hsPos, hsDrops>>
        /\ HsStep(r)
    BY DEF FindHall
  <1>3. hsAlone' \in {0, r.n}
    BY <1>2 DEF HsStep
  <1>4. SortTypes'
    <2>1. ASSUME NEW s \in hsReqs'
          PROVE  /\ WholeOrder(s.ids) /\ s.done \in Nat /\ s.done < Len(s.ids) /\ s.seen \in Int
                 /\ s.n \in 1..hsDrops' /\ (s.n = hsDrops' => s.ids = hsList')
                 /\ DOMAIN s = {"n", "ids", "done", "seen"}
      BY <1>1, <1>2, RequestFacts
    <2>2. \A s, u \in hsReqs' : s.n = u.n => s = u
      BY <1>1, <1>2, RequestFacts
    <2>3. /\ hsAlone' \in 0..hsDrops' /\ WholeOrder(hsList)' /\ hsDrops' \in Nat
          /\ hsPos' \in [Halls -> Int]
      BY <1>2, <1>3, RequestFacts DEF SortInv, SortTypes, WholeOrder
    <2>. QED
      BY <2>1, <2>2, <2>3 DEF SortTypes, WholeOrder
  <1>5. ASSUME hsAlone' # 0 PROVE InOrder'
    <2>1. hsAlone' = r.n /\ Undisturbed(r)
      BY <1>2, <1>5, StepUndisturbed
    <2>2. Undisturbed(q)'
      BY <1>1, <1>2, <2>1 DEF Undisturbed, SavedTo, HsHall
    <2>3. \A s \in hsReqs' : s.n = r.n => s = q
      BY <1>1, <1>2, RequestFacts
    <2>4. q \in hsReqs' /\ q.n = r.n
      BY <1>1, <1>2
    <2>. QED
      BY <1>2, <2>1, <2>2, <2>3, <2>4 DEF InOrder
  <1>6. ASSUME hsAlone' = 0 PROVE InOrder'
    <2>1. \A s \in hsReqs' : s.n # 0
      BY <1>1, <1>2, RequestFacts
    <2>. QED
      BY <1>2, <1>6, <2>1 DEF InOrder
  <1>. QED
    BY <1>4, <1>5, <1>6 DEF SortInv

LEMMA SaveHallStep ==
  ASSUME SortInv, NEW r \in hsReqs, SaveHall(r)
  PROVE  SortInv'
  <1>. DEFINE h == HsHall(r)
              q == [r EXCEPT !.done = @ + 1, !.seen = -1]
  <1>1. q.n = r.n /\ q.ids = r.ids /\ q.done = r.done + 1 /\ q.seen = -1
        /\ DOMAIN q = {"n", "ids", "done", "seen"}
    BY RequestFacts
  <1>2. /\ hsReqs' = (hsReqs \ {r}) \cup (IF r.done + 1 < Len(r.ids) THEN {q} ELSE {})
        /\ UNCHANGED <<hsList, hsDrops>> /\ HsStep(r) /\ r.seen # -1
        /\ hsPos' = IF r.seen = r.done \/ hsPos[h] = -1 THEN hsPos
                    ELSE [hsPos EXCEPT ![h] = r.done]
    BY DEF SaveHall, HsGoOn
  <1>3. h \in Halls /\ hsPos \in [Halls -> Int] /\ r.done \in Nat
    BY RequestFacts
  <1>. HIDE DEF q, h
  <1>4. /\ hsPos' \in [Halls -> Int]
        /\ \A g \in Halls : g # h => hsPos'[g] = hsPos[g]
        /\ hsPos[h] \in {r.seen, -1} => hsPos'[h] \in {r.done, -1}
    BY <1>2, <1>3
  <1>5. hsAlone' \in {0, r.n}
    BY <1>2 DEF HsStep
  <1>6. SortTypes'
    <2>1. \A s \in hsReqs' : s \in hsReqs \ {r} \/ (s = q /\ r.done + 1 < Len(r.ids))
      BY <1>2
    <2>2. ASSUME NEW s \in hsReqs'
          PROVE  /\ WholeOrder(s.ids) /\ s.done \in Nat /\ s.done < Len(s.ids) /\ s.seen \in Int
                 /\ s.n \in 1..hsDrops' /\ (s.n = hsDrops' => s.ids = hsList')
                 /\ DOMAIN s = {"n", "ids", "done", "seen"}
      BY <1>1, <1>2, <2>1, RequestFacts
    <2>3. \A s, u \in hsReqs' : s.n = u.n => s = u
      BY <1>1, <2>1, RequestFacts
    <2>4. hsAlone' \in 0..hsDrops' /\ WholeOrder(hsList)' /\ hsDrops' \in Nat
      BY <1>2, <1>5, RequestFacts DEF SortInv, SortTypes, WholeOrder
    <2>. QED
      BY <1>4, <2>2, <2>3, <2>4 DEF SortTypes, WholeOrder
  <1>7. ASSUME hsAlone' # 0 PROVE InOrder'
    <2>1. hsAlone' = r.n /\ Undisturbed(r)
      BY <1>2, <1>7, StepUndisturbed
    <2>2. SavedTo(r.ids, r.done + 1)'
      <3>1. hsPos'[h] \in {r.done, -1}
        BY <1>2, <1>4, <2>1 DEF Undisturbed, h
      <3>2. ASSUME NEW i \in 1..Len(r.ids), i <= r.done + 1 PROVE hsPos'[r.ids[i]] \in {i - 1, -1}
        <4>1. CASE i = r.done + 1
          BY <1>3, <3>1, <4>1 DEF h, HsHall
        <4>2. CASE i # r.done + 1
          <5>1. i <= r.done /\ r.ids[i] # h /\ r.ids[i] \in Halls
            BY <3>2, <4>2, RequestFacts DEF h
          <5>. QED
            BY <1>4, <2>1, <5>1 DEF SavedTo, Undisturbed
        <4>. QED
          BY <4>1, <4>2
      <3>. QED
        BY <3>2 DEF SavedTo
    <2>3. \A s \in hsReqs' : s.n = r.n => s = q
      BY <1>1, <1>2, RequestFacts
    <2>4. CASE r.done + 1 < Len(r.ids)
      <3>1. q \in hsReqs' /\ q.n = r.n
        BY <1>1, <1>2, <2>4
      <3>2. Undisturbed(q)'
        BY <1>1, <2>2 DEF Undisturbed, SavedTo
      <3>. QED
        BY <1>2, <2>1, <2>3, <3>1, <3>2 DEF InOrder
    <2>5. CASE ~(r.done + 1 < Len(r.ids))
      <3>1. r.done + 1 = Len(r.ids) /\ \A s \in hsReqs' : s.n # r.n
        BY <1>2, <2>5, RequestFacts
      <3>2. r.n = hsDrops => SavedTo(hsList, Len(hsList))'
        BY <1>2, <2>2, <3>1, RequestFacts DEF SavedTo
      <3>. QED
        BY <1>2, <2>1, <3>1, <3>2 DEF InOrder
    <2>. QED
      BY <2>4, <2>5
  <1>8. ASSUME hsAlone' = 0 PROVE InOrder'
    <2>1. \A s \in hsReqs' : s.n # 0
      BY <1>1, <1>2, RequestFacts
    <2>. QED
      BY <1>2, <1>8, <2>1 DEF InOrder
  <1>. QED
    BY <1>6, <1>7, <1>8 DEF SortInv

LEMMA SortStep ==
  ASSUME SortInv, [HsNext]_hsVars
  PROVE  SortInv'
  <1>. USE DEF SortInv
  <1>1. ASSUME NEW r \in hsReqs, SortFails(r) PROVE SortInv'
    BY <1>1, RequestFacts DEF SortFails, SortTypes, InOrder
  <1>2. ASSUME NEW h \in Halls, DeleteHall(h) PROVE SortInv'
    <2>1. /\ UNCHANGED <<hsList, hsReqs, hsDrops, hsAlone>>
          /\ hsPos' \in [Halls -> Int]
          /\ \A g \in Halls : hsPos'[g] \in {hsPos[g], -1}
      BY <1>2 DEF DeleteHall, SortTypes
    <2>2. \A i \in 1..Len(hsList) : hsList[i] \in Halls
      BY DEF SortTypes, WholeOrder
    <2>3. \A n : SavedTo(hsList, n) => SavedTo(hsList, n)'
      BY <2>1, <2>2 DEF SavedTo
    <2>4. ASSUME NEW r \in hsReqs, Undisturbed(r) PROVE Undisturbed(r)'
      BY <2>1, <2>4, RequestFacts DEF Undisturbed, SavedTo, HsHall
    <2>5. InOrder'
      BY <2>1, <2>3, <2>4 DEF InOrder
    <2>6. SortTypes'
      BY <2>1 DEF SortTypes
    <2>. QED
      BY <2>5, <2>6
  <1>3. CASE UNCHANGED hsVars
    BY <1>3 DEF hsVars, SortTypes, InOrder, Undisturbed, SavedTo, HsHall
  <1>. QED
    BY <1>1, <1>2, <1>3, DropStep, FindHallStep, SaveHallStep DEF HsNext

\* What the type of the list and of the requests rests on besides SortInv.
SortRanges ==
  /\ hsPos \in [Halls -> -1..Cardinality(Halls)]
  /\ hsDrops <= MaxDrops
  /\ \A r \in hsReqs : r.seen \in -1..Cardinality(Halls)

LEMMA SortRangesInitial == HsInit => SortRanges
  <1>. SUFFICES ASSUME NEW order \in SetToSeqs(Halls), HsStart(order) PROVE SortRanges
    BY DEF HsInit
  <1>. PICK n \in Nat : n = Cardinality(Halls)
    BY SortingAssumption, FS_CardinalityType
  <1>1. order \in [1..n -> Halls] /\ \A i, j \in 1..n : i # j => order[i] # order[j]
    BY DEF SetToSeqs
  <1>2. Len(order) = n
    BY <1>1
  <1>3. \A h \in Halls : \E i \in 1..n : order[i] = h
    <2>1. order \in Injection(1..n, Halls)
      BY <1>1 DEF Injection, IsInjective
    <2>2. IsFiniteSet(1..n) /\ Cardinality(1..n) = n
      BY FS_Interval
    <2>3. order \in Surjection(1..n, Halls)
      BY <2>1, <2>2, SortingAssumption, FS_Injection
    <2>. QED
      BY <2>3 DEF Surjection
  <1>4. hsPos \in [Halls -> -1..n]
    <2>1. ASSUME NEW h \in Halls
          PROVE  (CHOOSE i \in 1..Len(order) : order[i] = h) \in 1..n
      BY <1>2, <1>3
    <2>2. \A i \in 1..n : i - 1 \in -1..n
      OBVIOUS
    <2>3. hsPos = [h \in Halls |-> (CHOOSE i \in 1..Len(order) : order[i] = h) - 1]
      BY DEF HsStart
    <2>. QED
      BY <2>1, <2>2, <2>3
  <1>5. hsDrops = 0 /\ hsReqs = {} /\ 0 <= MaxDrops
    BY SortingAssumption DEF HsStart
  <1>. QED
    BY <1>4, <1>5 DEF SortRanges

LEMMA SortRangesStep ==
  ASSUME SortInv, SortRanges, [HsNext]_hsVars
  PROVE  SortRanges'
  <1>0. Cardinality(Halls) \in Nat /\ -1 \in -1..Cardinality(Halls)
    BY SortingAssumption, FS_CardinalityType
  <1>1. ASSUME NEW i, NEW j, Drop(i, j) PROVE SortRanges'
    <2>1. hsDrops' <= MaxDrops
      BY <1>1, SortingAssumption DEF Drop, SortInv, SortTypes
    <2>. QED
      BY <1>0, <1>1, <2>1 DEF Drop, SortRanges
  <1>2. ASSUME NEW r \in hsReqs, FindHall(r) PROVE SortRanges'
    <2>1. hsPos[HsHall(r)] \in -1..Cardinality(Halls)
      BY RequestFacts DEF SortRanges
    <2>2. [r EXCEPT !.seen = hsPos[HsHall(r)]].seen = hsPos[HsHall(r)]
      BY RequestFacts
    <2>. QED
      BY <1>2, <2>1, <2>2 DEF FindHall, SortRanges
  <1>3. ASSUME NEW r \in hsReqs, SaveHall(r) PROVE SortRanges'
    <2>1. r.done \in -1..Cardinality(Halls)
      BY <1>0, RequestFacts DEF WholeOrder
    <2>2. [r EXCEPT !.done = @ + 1, !.seen = -1].seen = -1
      BY RequestFacts
    <2>. QED
      BY <1>0, <1>3, <2>1, <2>2 DEF SaveHall, HsGoOn, SortRanges
  <1>4. ASSUME NEW r \in hsReqs, SortFails(r) PROVE SortRanges'
    BY <1>4 DEF SortFails, SortRanges
  <1>5. ASSUME NEW h \in Halls, DeleteHall(h) PROVE SortRanges'
    BY <1>0, <1>5 DEF DeleteHall, SortRanges
  <1>6. CASE UNCHANGED hsVars
    BY <1>6 DEF hsVars, SortRanges
  <1>. QED
    BY <1>1, <1>2, <1>3, <1>4, <1>5, <1>6 DEF HsNext

LEMMA SortRangesTypes == SortInv /\ SortRanges => HsTypeOK
  <1>. SUFFICES ASSUME SortInv, SortRanges PROVE HsTypeOK
    OBVIOUS
  <1>1. hsList \in SetToSeqs(Halls)
    <2>1. hsList \in Seq(Halls) /\ Len(hsList) = Cardinality(Halls)
          /\ \A i, j \in 1..Len(hsList) : hsList[i] = hsList[j] => i = j
      BY DEF SortInv, SortTypes, WholeOrder
    <2>2. hsList \in [1..Cardinality(Halls) -> Halls]
      BY <2>1
    <2>. QED
      BY <2>1, <2>2 DEF SetToSeqs
  <1>2. ASSUME NEW r \in hsReqs PROVE r.n \in 1..MaxDrops /\ r.done \in 0..(Len(r.ids) - 1)
    <2>1. /\ r.n \in 1..hsDrops /\ hsDrops \in Nat /\ r.done \in Nat /\ r.done < Len(r.ids)
          /\ r.ids \in Seq(Halls)
      BY DEF SortInv, SortTypes, WholeOrder
    <2>2. Len(r.ids) \in Nat
      BY <2>1
    <2>. QED
      BY <2>1, <2>2, SortingAssumption DEF SortRanges
  <1>3. hsAlone \in 0..hsDrops
    BY DEF SortInv, SortTypes
  <1>. QED
    BY <1>1, <1>2, <1>3 DEF SortRanges, HsTypeOK

\* For any number of halls and drops, and whatever positions earlier requests
\* left: the last order, processed whole and with no step of another in between,
\* gives the halls the positions of the list (halls_controller.rb:7-14).
THEOREM SavedAsShownAlways == HsSpec => []SavedAsShown
  <1>1. SortInv => SavedAsShown
    <2>1. SortInv => Len(hsList) \in Nat
      BY DEF SortInv, SortTypes, WholeOrder
    <2>. QED
      BY <2>1 DEF SortInv, InOrder, SavedTo, SavedAsShown
  <1>. QED
    BY <1>1, SortInitial, SortStep, PTL DEF HsSpec

\* The list always has every hall once, and no request runs past its order.
THEOREM SortTypesAlways == HsSpec => []HsTypeOK
  <1>1. HsInit => SortInv /\ SortRanges
    BY SortInitial, SortRangesInitial
  <1>2. SortInv /\ SortRanges /\ [HsNext]_hsVars => (SortInv /\ SortRanges)'
    BY SortStep, SortRangesStep
  <1>3. SortInv /\ SortRanges => HsTypeOK
    BY SortRangesTypes
  <1>. QED
    BY <1>1, <1>2, <1>3, PTL DEF HsSpec

-----------------------------------------------------------------------------
(* The rows that are over.                                                 *)

\* A set of rows that is not empty has a least and a greatest one.
LEMMA Least ==
  ASSUME NEW S, S \subseteq Nat, S # {}
  PROVE  Min(S) \in S /\ \A r \in S : Min(S) <= r
  <1>1. PICK x \in S : \A y \in S : ~(<<y, x>> \in OpToRel(<, Nat))
    BY NatLessThanWellFounded, WFMin
  <1>2. ASSUME NEW y \in S PROVE x <= y
    <2>1. x \in Nat /\ y \in Nat
      BY <1>2
    <2>2. ~(<<y, x>> \in OpToRel(<, Nat))
      BY <1>1, <1>2
    <2>3. ~(y < x)
      BY <2>1, <2>2 DEF OpToRel
    <2>. QED
      BY <2>1, <2>3
  <1>. QED
    BY <1>1, <1>2 DEF Min

LEMMA Greatest ==
  ASSUME NEW S, NEW n \in Nat, S \subseteq 1..n, S # {}
  PROVE  Max(S) \in S
  <1>. DEFINE T == {n - r : r \in S}
  <1>1. T \subseteq Nat /\ T # {}
    OBVIOUS
  <1>. HIDE DEF T
  <1>2. Min(T) \in T /\ \A t \in T : Min(T) <= t
    BY <1>1, Least
  <1>3. PICK x \in S : n - x = Min(T)
    BY <1>2 DEF T
  <1>4. ASSUME NEW y \in S PROVE x >= y
    <2>1. n - y \in T
      BY DEF T
    <2>2. n - x <= n - y
      BY <1>2, <1>3, <2>1
    <2>. QED
      BY <2>2
  <1>. QED
    BY <1>3, <1>4 DEF Max

\* Lectures are made of rows, and the rows of the page are rows of the day.
RowTypes ==
  /\ prLectures \in [PrHalls -> SUBSET PrLecture]
  /\ prNow \in Nat /\ prHidden \subseteq 1..PrLast /\ prOn \subseteq PrHalls

RowsInv == RowTypes /\ NoRunningHidden

LEMMA RowsInitial == PrInit => RowsInv
  BY PassedAssumption DEF PrInit, PrStart, PrPrograms, RowsInv, RowTypes, NoRunningHidden

\* What keeps a hall's rows has begun, and a lecture that runs keeps its own.
LEMMA KeptRows ==
  ASSUME RowTypes, NEW h \in PrHalls
  PROVE  /\ KeptRow(h) \subseteq {r \in 1..PrLast : PrTime(r) <= prNow}
         /\ \A l \in prLectures[h] :
              ~Passed(l) /\ PrTime(l.from) <= prNow => \E r \in KeptRow(h) : r <= l.from
  <1>. DEFINE running == {l.from : l \in {k \in prLectures[h] : ~Passed(k) /\ PrTime(k.from) <= prNow}}
              empty == {r \in LectureRows \cap PrSlots :
                          PrTime(r) < prNow /\ \A l \in prLectures[h] : ~Covers(l, r)}
  <1>1. KeptRow(h) = IF running # {} THEN {Min(running)}
                     ELSE IF empty # {} THEN {Max(empty)} ELSE {}
    BY DEF KeptRow
  <1>2. running \subseteq {r \in 1..PrLast : PrTime(r) <= prNow}
    BY DEF RowTypes, PrLecture
  <1>3. empty \subseteq {r \in 1..PrLast : PrTime(r) <= prNow}
    <2>1. empty \subseteq {r \in 1..PrLast : PrTime(r) < prNow}
      BY DEF LectureRows
    <2>. QED
      BY <2>1 DEF PrTime, RowTypes
  <1>4. ASSUME NEW l \in prLectures[h], ~Passed(l), PrTime(l.from) <= prNow PROVE l.from \in running
    BY <1>4
  <1>. HIDE DEF running, empty
  <1>5. CASE running # {}
    <2>. running \subseteq Nat
      BY <1>2
    <2>1. Min(running) \in running /\ \A r \in running : Min(running) <= r
      BY <1>5, Least
    <2>. QED
      BY <1>1, <1>2, <1>4, <1>5, <2>1
  <1>6. CASE running = {} /\ empty # {}
    <2>1. Max(empty) \in empty
      BY <1>3, <1>6, Greatest, PassedAssumption
    <2>. QED
      BY <1>1, <1>3, <1>4, <1>6, <2>1
  <1>7. CASE running = {} /\ empty = {}
    BY <1>1, <1>4, <1>7
  <1>. QED
    BY <1>5, <1>6, <1>7

LEMMA ShowHallsStep ==
  ASSUME RowsInv, NEW halls \in SUBSET PrHalls, ShowHalls(halls)
  PROVE  RowsInv'
  <1>. DEFINE kept == UNION {KeptRow(h) : h \in halls}
              above == IF kept = {} THEN {} ELSE 1..(HighestRow(kept) - 1)
  <1>1. prHidden' = (prHidden \ LectureRows) \cup above
        /\ prOn' = halls /\ prLectures' = prLectures /\ prNow' = prNow
    BY DEF ShowHalls
  <1>2. kept \subseteq 1..PrLast /\ \A r \in kept : PrTime(r) <= prNow
    BY KeptRows DEF RowsInv
  <1>3. ASSUME NEW h \in halls, NEW l \in prLectures[h], ~Passed(l), PrTime(l.from) <= prNow
        PROVE  \E r \in kept : r <= l.from
    BY <1>3, KeptRows DEF RowsInv
  <1>. HIDE DEF kept
  <1>4. kept # {} => HighestRow(kept) \in kept /\ \A r \in kept : HighestRow(kept) <= r
    <2>1. kept \subseteq Nat
      BY <1>2
    <2>. QED
      BY <2>1, Least DEF HighestRow
  <1>5. above \subseteq 1..PrLast
    <2>1. CASE kept = {}
      BY <2>1
    <2>2. CASE kept # {}
      <3>1. HighestRow(kept) \in 1..PrLast /\ PrLast \in Nat
        BY <1>2, <1>4, <2>2, PassedAssumption
      <3>2. 1..(HighestRow(kept) - 1) \subseteq 1..PrLast
        BY <3>1
      <3>. QED
        BY <2>2, <3>2
    <2>. QED
      BY <2>1, <2>2
  <1>6. RowTypes'
    BY <1>1, <1>5 DEF RowsInv, RowTypes
  <1>7. ASSUME NEW h \in halls, NEW l \in prLectures[h], l.from \in prHidden', ~Passed(l)
        PROVE  FALSE
    <2>1. l.from \in 1..PrLast /\ l.to \in 2..(PrLast + 1) /\ l.from < l.to
      <3>1. l \in PrLecture /\ l.from < l.to
        BY <1>7 DEF RowsInv, RowTypes, PrLecture
      <3>. QED
        BY <3>1 DEF PrLecture
    <2>2. l.from \in LectureRows
      BY <1>7, <2>1 DEF LectureRows, Covers
    <2>3. l.from \in above
      BY <1>1, <1>7, <2>2
    <2>. PICK top \in 1..PrLast :
           /\ kept # {} /\ l.from \in 1..(top - 1)
           /\ top \in kept /\ \A r \in kept : top <= r
      <3>1. kept # {} /\ l.from \in 1..(HighestRow(kept) - 1)
        BY <2>3
      <3>2. HighestRow(kept) \in kept /\ \A r \in kept : HighestRow(kept) <= r
        BY <1>4, <3>1
      <3>. QED
        BY <1>2, <3>1, <3>2
    <2>4. top \in Nat /\ l.from < top
      OBVIOUS
    <2>5. CASE PrTime(l.from) <= prNow
      <3>1. PICK r \in kept : r <= l.from
        BY <1>3, <1>7, <2>5
      <3>2. r \in Nat /\ top <= r
        BY <1>2, <3>1
      <3>. QED
        BY <2>1, <2>4, <3>1, <3>2
    <2>6. CASE ~(PrTime(l.from) <= prNow)
      <3>1. PrTime(top) <= prNow
        BY <1>2
      <3>2. prNow \in Nat
        BY DEF RowsInv, RowTypes
      <3>. QED
        BY <2>1, <2>4, <2>6, <3>1, <3>2 DEF PrTime
    <2>. QED
      BY <2>5, <2>6
  <1>8. NoRunningHidden'
    BY <1>1, <1>7 DEF NoRunningHidden, Passed
  <1>. QED
    BY <1>6, <1>8 DEF RowsInv

LEMMA RowsStep ==
  ASSUME RowsInv, PrTypeOK, [PrNext]_prVars
  PROVE  RowsInv' /\ PrTypeOK'
  <1>1. RowsInv'
    <2>1. CASE PrNext
      BY <2>1, ShowHallsStep DEF PrNext
    <2>2. CASE UNCHANGED prVars
      BY <2>2 DEF prVars, RowsInv, RowTypes, NoRunningHidden, Passed
    <2>. QED
      BY <2>1, <2>2
  <1>2. prLectures' = prLectures
    BY DEF PrNext, ShowHalls, prVars
  <1>. QED
    BY <1>1, <1>2 DEF RowsInv, RowTypes, PrTypeOK

\* Whatever the programme, the rows and the halls, a lecture that is not over
\* keeps the row it begins in on the screen (script2.js:217-254).
THEOREM NoRunningHiddenAlways == PrSpec => []NoRunningHidden
  <1>1. PrInit => RowsInv /\ PrTypeOK
    BY RowsInitial DEF PrInit, PrStart, RowsInv, RowTypes, PrTypeOK
  <1>2. RowsInv /\ PrTypeOK /\ [PrNext]_prVars => (RowsInv /\ PrTypeOK)'
    BY RowsStep
  <1>3. RowsInv => NoRunningHidden
    BY DEF RowsInv
  <1>. QED
    BY <1>1, <1>2, <1>3, PTL DEF PrSpec

\* The rows that are hidden are rows of the day.
THEOREM RowTypesAlways == PrSpec => []PrTypeOK
  <1>1. PrInit => RowsInv /\ PrTypeOK
    BY RowsInitial DEF PrInit, PrStart, RowsInv, RowTypes, PrTypeOK
  <1>2. RowsInv /\ PrTypeOK /\ [PrNext]_prVars => (RowsInv /\ PrTypeOK)'
    BY RowsStep
  <1>. QED
    BY <1>1, <1>2, PTL DEF PrSpec

-----------------------------------------------------------------------------
(* Marks.                                                                  *)

LEMMA FbFacts == IsFiniteSet(FbUsers) /\ FbMe \in FbUsers /\ \A m \in FbMarks : m \in 1..5
  BY FeedbackAssumption

\* A sum written with MapThenSumSet over another operator is the total of the
\* function that has the operator's values.
LEMMA CountIsTotal ==
  ASSUME NEW rows
  PROVE  FbCount(rows) = Total([u \in FbUsers |-> Len(rows[u])], FbUsers)
  <1>. DEFINE g == [u \in FbUsers |-> Len(rows[u])]
              c == CHOOSE f : f = [s \in SUBSET FbUsers |->
                                     IF s = {} THEN 0 ELSE Len(rows[Pick(s)]) + f[s \ {Pick(s)}]]
  <1>1. FbCount(rows) = c[FbUsers]
    BY DEF FbCount, MapThenSumSet, MapThenFoldSet, Pick
  <1>2. ASSUME NEW f, NEW s \in SUBSET FbUsers
        PROVE  (IF s = {} THEN 0 ELSE g[Pick(s)] + f[s \ {Pick(s)}])
                 = (IF s = {} THEN 0 ELSE Len(rows[Pick(s)]) + f[s \ {Pick(s)}])
    BY PickIn
  <1>3. ASSUME NEW f
        PROVE  Adds(f, g, FbUsers) <=>
                 f = [s \in SUBSET FbUsers |->
                        IF s = {} THEN 0 ELSE Len(rows[Pick(s)]) + f[s \ {Pick(s)}]]
    <2>1. [s \in SUBSET FbUsers |-> IF s = {} THEN 0 ELSE g[Pick(s)] + f[s \ {Pick(s)}]]
            = [s \in SUBSET FbUsers |->
                 IF s = {} THEN 0 ELSE Len(rows[Pick(s)]) + f[s \ {Pick(s)}]]
      BY <1>2
    <2>. QED
      BY <2>1, Zenon DEF Adds
  <1>4. \E f : Adds(f, g, FbUsers)
    BY AddsExists, FeedbackAssumption
  <1>. HIDE DEF g
  <1>5. c = [s \in SUBSET FbUsers |->
               IF s = {} THEN 0 ELSE Len(rows[Pick(s)]) + c[s \ {Pick(s)}]]
    BY <1>3, <1>4
  <1>. HIDE DEF c
  <1>6. Adds(c, g, FbUsers)
    BY <1>3, <1>5
  <1>. QED
    BY <1>1, <1>6, TotalIs, FeedbackAssumption DEF g

LEMMA SumIsTotal ==
  ASSUME NEW rows
  PROVE  FbSum(rows) = Total([u \in FbUsers |-> FoldSeq(+, 0, rows[u])], FbUsers)
  <1>. DEFINE g == [u \in FbUsers |-> FoldSeq(+, 0, rows[u])]
              c == CHOOSE f : f = [s \in SUBSET FbUsers |->
                                     IF s = {} THEN 0
                                     ELSE FoldSeq(+, 0, rows[Pick(s)]) + f[s \ {Pick(s)}]]
  <1>1. FbSum(rows) = c[FbUsers]
    BY DEF FbSum, MapThenSumSet, MapThenFoldSet, Pick
  <1>2. ASSUME NEW f, NEW s \in SUBSET FbUsers
        PROVE  (IF s = {} THEN 0 ELSE g[Pick(s)] + f[s \ {Pick(s)}])
                 = (IF s = {} THEN 0 ELSE FoldSeq(+, 0, rows[Pick(s)]) + f[s \ {Pick(s)}])
    BY PickIn
  <1>3. ASSUME NEW f
        PROVE  Adds(f, g, FbUsers) <=>
                 f = [s \in SUBSET FbUsers |->
                        IF s = {} THEN 0 ELSE FoldSeq(+, 0, rows[Pick(s)]) + f[s \ {Pick(s)}]]
    <2>1. [s \in SUBSET FbUsers |-> IF s = {} THEN 0 ELSE g[Pick(s)] + f[s \ {Pick(s)}]]
            = [s \in SUBSET FbUsers |->
                 IF s = {} THEN 0 ELSE FoldSeq(+, 0, rows[Pick(s)]) + f[s \ {Pick(s)}]]
      BY <1>2
    <2>. QED
      BY <2>1, Zenon DEF Adds
  <1>4. \E f : Adds(f, g, FbUsers)
    BY AddsExists, FeedbackAssumption
  <1>. HIDE DEF g
  <1>5. c = [s \in SUBSET FbUsers |->
               IF s = {} THEN 0 ELSE FoldSeq(+, 0, rows[Pick(s)]) + c[s \ {Pick(s)}]]
    BY <1>3, <1>4
  <1>. HIDE DEF c
  <1>6. Adds(c, g, FbUsers)
    BY <1>3, <1>5
  <1>. QED
    BY <1>1, <1>6, TotalIs, FeedbackAssumption DEF g

\* The marks of one user: from one to five each, and the mark itself when it is
\* the only one.
LEMMA RowTotal ==
  ASSUME NEW s \in Seq(FbMarks)
  PROVE  /\ FoldSeq(+, 0, s) \in Nat /\ Len(s) \in Nat
         /\ Len(s) <= FoldSeq(+, 0, s) /\ FoldSeq(+, 0, s) <= 5 * Len(s)
  <1>. DEFINE ones == [i \in 1..Len(s) |-> 1]
  <1>1. Len(s) \in Nat /\ DOMAIN s = 1..Len(s) /\ \A i \in 1..Len(s) : s[i] \in 1..5
    <2>1. Len(s) \in Nat /\ DOMAIN s = 1..Len(s) /\ \A i \in 1..Len(s) : s[i] \in FbMarks
      OBVIOUS
    <2>. QED
      BY <2>1, FbFacts
  <1>2. IsFiniteSet(1..Len(s)) /\ Cardinality(1..Len(s)) = Len(s)
    BY <1>1, FS_Interval
  <1>3. \A i \in 1..Len(s) : ones[i] = 1
    OBVIOUS
  <1>. HIDE DEF ones
  <1>4. Total(ones, 1..Len(s)) = Len(s)
    BY <1>2, <1>3, TotalOnes
  <1>5. \A i \in 1..Len(s) : s[i] \in Nat /\ ones[i] \in Nat /\ ones[i] <= s[i] /\ s[i] <= 5 * ones[i]
    BY <1>1, <1>3
  <1>6. /\ Total(s, 1..Len(s)) \in Nat
        /\ Total(ones, 1..Len(s)) <= Total(s, 1..Len(s)) /\ Total(s, 1..Len(s)) <= 5 * Total(ones, 1..Len(s))
    BY <1>2, <1>5, TotalBound
  <1>7. FoldSeq(+, 0, s) = Total(s, 1..Len(s))
    BY <1>1, FoldIsTotal
  <1>. QED
    BY <1>1, <1>4, <1>6, <1>7

LEMMA OneMark ==
  ASSUME NEW m \in 1..5
  PROVE  FoldSeq(+, 0, <<m>>) = m
  <1>1. PICK s : s = <<m>>
    OBVIOUS
  <1>2. DOMAIN s = {1} /\ s[1] = m
    BY <1>1
  <1>3. IsFiniteSet({1}) /\ {1} \ {1} = {}
    BY FS_Singleton
  <1>4. Total(s, {1}) = s[1] + Total(s, {1} \ {1})
    BY <1>2, <1>3, TotalSplit
  <1>5. Total(s, {1}) = m
    BY <1>2, <1>3, <1>4, TotalEmpty
  <1>6. FoldSeq(+, 0, s) = Total(s, DOMAIN s)
    BY FoldIsTotal
  <1>. QED
    BY <1>1, <1>2, <1>5, <1>6

LEMMA NoMark == FoldSeq(+, 0, <<>>) = 0
  <1>1. PICK s : s = <<>>
    OBVIOUS
  <1>2. DOMAIN s = {}
    BY <1>1
  <1>3. FoldSeq(+, 0, s) = Total(s, DOMAIN s)
    BY FoldIsTotal
  <1>. QED
    BY <1>1, <1>2, <1>3, TotalEmpty

Marked == [FbUsers -> Seq(FbMarks)]

\* All marks are counted, and their average is from one to five.
LEMMA AllMarks ==
  ASSUME NEW rows \in Marked
  PROVE  /\ FbCount(rows) \in Nat /\ FbSum(rows) \in Nat
         /\ FbCount(rows) <= FbSum(rows) /\ FbSum(rows) <= 5 * FbCount(rows)
         /\ (\E u \in FbUsers : rows[u] # <<>>) => FbCount(rows) >= 1
  <1>1. PICK g, h : /\ g = [u \in FbUsers |-> FoldSeq(+, 0, rows[u])]
                    /\ h = [u \in FbUsers |-> Len(rows[u])]
    OBVIOUS
  <1>2. ASSUME NEW u \in FbUsers
        PROVE  g[u] \in Nat /\ h[u] \in Nat /\ h[u] <= g[u] /\ g[u] <= 5 * h[u]
    <2>1. rows[u] \in Seq(FbMarks)
      BY DEF Marked
    <2>. QED
      BY <1>1, <2>1, RowTotal
  <1>3. FbCount(rows) = Total(h, FbUsers) /\ FbSum(rows) = Total(g, FbUsers)
    BY <1>1, CountIsTotal, SumIsTotal
  <1>4. IsFiniteSet(FbUsers)
    BY FeedbackAssumption
  <1>5. /\ Total(g, FbUsers) \in Nat /\ Total(h, FbUsers) \in Nat
        /\ Total(h, FbUsers) <= Total(g, FbUsers) /\ Total(g, FbUsers) <= 5 * Total(h, FbUsers)
    BY <1>2, <1>4, TotalBound
  <1>6. ASSUME NEW u \in FbUsers, rows[u] # <<>> PROVE Total(h, FbUsers) >= 1
    <2>1. \A v \in FbUsers : h[v] \in Nat
      BY <1>2
    <2>2. h[u] <= Total(h, FbUsers)
      BY <1>4, <2>1, TotalNat
    <2>3. h[u] >= 1
      <3>1. rows[u] \in Seq(FbMarks) /\ h[u] = Len(rows[u])
        BY <1>1 DEF Marked
      <3>2. rows[u] # <<>>
        BY <1>6
      <3>. QED
        BY <3>1, <3>2
    <2>. QED
      BY <1>5, <2>1, <2>2, <2>3
  <1>. QED
    BY <1>3, <1>5, <1>6

\* A user who gets a row more, and loses none, makes the count no smaller.
LEMMA CountGrows ==
  ASSUME NEW rows \in Marked, NEW now \in Marked, NEW u \in FbUsers,
         Len(rows[u]) <= Len(now[u]), \A v \in FbUsers \ {u} : now[v] = rows[v]
  PROVE  FbCount(rows) <= FbCount(now)
  <1>1. PICK g, h : /\ g = [v \in FbUsers |-> Len(rows[v])]
                    /\ h = [v \in FbUsers |-> Len(now[v])]
    OBVIOUS
  <1>2. /\ \A v \in FbUsers : g[v] \in Int /\ h[v] \in Int
        /\ \A v \in FbUsers \ {u} : h[v] = g[v]
        /\ g[u] <= h[u]
    <2>1. \A v \in FbUsers : rows[v] \in Seq(FbMarks) /\ now[v] \in Seq(FbMarks)
      BY DEF Marked
    <2>. QED
      BY <1>1, <2>1
  <1>3. Total(h, FbUsers) = Total(g, FbUsers) + h[u] - g[u] /\ Total(g, FbUsers) \in Int
    BY <1>2, TotalChange, TotalInt, FbFacts
  <1>4. FbCount(rows) = Total(g, FbUsers) /\ FbCount(now) = Total(h, FbUsers)
    BY <1>1, CountIsTotal
  <1>. QED
    BY <1>2, <1>3, <1>4

\* When every user has the last mark alone, the sum and the count are those of
\* the last marks.
LEMMA LastMarks ==
  ASSUME NEW rows \in Marked, NEW last \in [FbUsers -> FbMarks \cup {0}],
         \A u \in FbUsers : rows[u] = IF last[u] = 0 THEN <<>> ELSE <<last[u]>>,
         NEW voters, voters = {u \in FbUsers : last[u] # 0}
  PROVE  /\ FbSum(rows) = Total(last, voters)
         /\ FbCount(rows) = Cardinality(voters)
  <1>1. PICK g, h : /\ g = [u \in FbUsers |-> FoldSeq(+, 0, rows[u])]
                    /\ h = [u \in FbUsers |-> Len(rows[u])]
    OBVIOUS
  <1>2. IsFiniteSet(FbUsers) /\ IsFiniteSet(voters) /\ voters \subseteq FbUsers
    BY FS_Subset, FeedbackAssumption
  <1>3. ASSUME NEW u \in FbUsers
        PROVE  /\ g[u] = last[u] /\ g[u] \in Int /\ h[u] \in Int
               /\ h[u] = IF u \in voters THEN 1 ELSE 0
    <2>1. last[u] = 0 \/ last[u] \in 1..5
      BY FbFacts
    <2>2. g[u] = FoldSeq(+, 0, rows[u])
      BY <1>1, Zenon
    <2>3. h[u] = Len(rows[u])
      BY <1>1, Zenon
    <2>4. CASE last[u] = 0
      <3>1. rows[u] = <<>> /\ u \notin voters
        BY <2>4
      <3>2. g[u] = 0
        BY <2>2, <3>1, NoMark, Zenon
      <3>3. h[u] = 0
        BY <2>3, <3>1
      <3>. QED
        BY <2>4, <3>1, <3>2, <3>3
    <2>5. CASE last[u] # 0
      <3>1. rows[u] = <<last[u]>> /\ u \in voters
        BY <2>5
      <3>2. PICK m \in 1..5 : m = last[u]
        BY <2>1, <2>5
      <3>3. FoldSeq(+, 0, <<m>>) = m
        BY OneMark
      <3>4. g[u] = last[u]
        BY <2>2, <3>1, <3>2, <3>3, Zenon
      <3>5. h[u] = 1
        BY <2>3, <3>1
      <3>. QED
        BY <3>1, <3>2, <3>4, <3>5
    <2>. QED
      BY <2>4, <2>5
  <1>4. FbCount(rows) = Total(h, FbUsers) /\ FbSum(rows) = Total(g, FbUsers)
    BY <1>1, CountIsTotal, SumIsTotal
  <1>5. Total(h, FbUsers) = Total(h, voters) /\ Total(g, FbUsers) = Total(g, voters)
    BY <1>2, <1>3, TotalWithout
  <1>6. Total(h, voters) = Cardinality(voters)
    BY <1>2, <1>3, TotalOnes
  <1>7. Total(g, voters) = Total(last, voters)
    BY <1>2, <1>3, TotalSame
  <1>. QED
    BY <1>4, <1>5, <1>6, <1>7

LEMMA AverageBound ==
  ASSUME NEW sum \in Nat, NEW count \in Nat, count >= 1, sum <= 5 * count
  PROVE  /\ FbAverage(sum, count) \in 0..50
         /\ FbAverage(sum, count) \div 10 \in 0..5
         /\ sum >= count => FbAverage(sum, count) \in 10..50
  <1>. DEFINE n == 20 * sum + count
              d == 2 * count
              q == n \div d
  <1>1. n \in Nat /\ d \in Nat /\ d > 0 /\ n <= 50 * d + count /\ (sum >= count => n >= 10 * d)
    OBVIOUS
  <1>2. q \in Int /\ d * q <= n /\ n < d * (q + 1)
    <2>. HIDE DEF n, d
    <2>. QED
      BY <1>1
  <1>3. q >= 0
    OBVIOUS
  <1>4. q <= 50
    OBVIOUS
  <1>5. sum >= count => q >= 10
    OBVIOUS
  <1>6. q \div 10 \in 0..5
    <2>. HIDE DEF q
    <2>. QED
      BY <1>2, <1>3, <1>4
  <1>. QED
    BY <1>2, <1>3, <1>4, <1>5, <1>6 DEF FbAverage

FbRequest ==
  [n : FbFlights, user : FbUsers, mark : FbMarks, at : {"sent", "found", "saved", "loaded", "done"},
   row : Nat, old : FbMarks \cup {0}, sum : Nat, average : 0..50, clean : BOOLEAN]

FbAvg == FbAverage(FbSum(fbRows), FbCount(fbRows))

\* Rows are never deleted: the row that was found, the row that was saved, and
\* the rows whose marks were summed up are still there.
Behind(r) ==
  /\ r.row <= Len(fbRows[r.user])
  /\ r.at \in {"saved", "loaded", "done"} => fbRows[r.user] # <<>>
  /\ r.at = "loaded" => r.sum <= 5 * FbCount(fbRows)

MarkTypes ==
  /\ fbRows \in Marked /\ fbLast \in [FbUsers -> FbMarks \cup {0}]
  /\ fbSent \in 0..FbMaxClicks /\ fbStars \in 0..5 /\ fbShown \in 0..50
  /\ fbReqs \subseteq FbRequest /\ \A r \in fbReqs : Behind(r)

\* What a request has read is so, unless something was saved since.
ReadRight(r) ==
  /\ r.at = "found" => IF r.row = 0 THEN fbRows[r.user] = <<>>
                       ELSE r.row = 1 /\ r.old = fbRows[r.user][1]
  /\ r.clean => /\ r.at = "loaded" => r.sum = FbSum(fbRows)
                /\ r.at = "done" => r.average = FbAvg

MarksRight ==
  /\ \A u \in FbUsers : fbRows[u] = IF fbLast[u] = 0 THEN <<>> ELSE <<fbLast[u]>>
  /\ \A r, s \in fbReqs : r.at = "found" /\ s.at = "found" /\ r.user = s.user => r = s
  /\ \A r \in fbReqs : ReadRight(r)
  /\ fbFresh => fbShown = FbAvg /\ fbStars = FbRound(FbAvg)

MarkInv == MarkTypes /\ (~fbOverlap => MarksRight)

\* No marks: the average is not shown; some: it is from one to five.
LEMMA AvgBound ==
  ASSUME MarkTypes, NEW u \in FbUsers, fbRows[u] # <<>>
  PROVE  FbAvg \in 10..50
  <1>1. /\ FbCount(fbRows) \in Nat /\ FbSum(fbRows) \in Nat
        /\ FbCount(fbRows) <= FbSum(fbRows) /\ FbSum(fbRows) <= 5 * FbCount(fbRows)
        /\ FbCount(fbRows) >= 1
    BY AllMarks DEF MarkTypes
  <1>2. PICK sum \in Nat, count \in Nat : sum = FbSum(fbRows) /\ count = FbCount(fbRows)
    BY <1>1
  <1>3. FbAverage(sum, count) \in 10..50
    BY <1>1, <1>2, AverageBound
  <1>. QED
    BY <1>2, <1>3, Zenon DEF FbAvg

LEMMA MarksInitial == FbInit => MarkInv
  <1>. SUFFICES ASSUME FbInit PROVE MarkInv
    OBVIOUS
  <1>1. PICK rows \in [FbUsers -> {<<>>} \cup {<<m>> : m \in FbMarks}] : FbStart(rows)
    BY DEF FbInit
  <1>2. ASSUME NEW u \in FbUsers
        PROVE  /\ rows[u] \in Seq(FbMarks)
               /\ rows[u] = <<>> \/ \E m \in FbMarks : rows[u] = <<m>> /\ rows[u][1] = m /\ m # 0
    <2>1. rows[u] = <<>> \/ \E m \in FbMarks : rows[u] = <<m>>
      OBVIOUS
    <2>2. CASE rows[u] = <<>>
      BY <2>2
    <2>3. ASSUME NEW m \in FbMarks, rows[u] = <<m>>
          PROVE  rows[u] \in Seq(FbMarks) /\ rows[u][1] = m /\ m # 0
      BY <2>3, FbFacts
    <2>. QED
      BY <2>1, <2>2, <2>3
  <1>3. /\ fbRows = rows /\ fbReqs = {} /\ fbSent = 0 /\ fbShown = 10 * fbStars /\ fbFresh = FALSE
        /\ fbLast = [u \in FbUsers |-> IF rows[u] = <<>> THEN 0 ELSE rows[u][1]]
        /\ fbStars = IF FbCount(rows) = 0 THEN 0
                     ELSE FbAverage(FbSum(rows), FbCount(rows)) \div 10
    BY <1>1 DEF FbStart
  <1>4. rows \in Marked
    BY <1>2 DEF Marked
  <1>5. fbStars \in 0..5
    <2>1. /\ FbCount(rows) \in Nat /\ FbSum(rows) \in Nat /\ FbSum(rows) <= 5 * FbCount(rows)
      BY <1>4, AllMarks
    <2>2. CASE FbCount(rows) = 0
      BY <1>3, <2>2
    <2>3. CASE FbCount(rows) # 0
      <3>1. PICK sum \in Nat, count \in Nat : sum = FbSum(rows) /\ count = FbCount(rows)
        BY <2>1
      <3>2. FbAverage(sum, count) \div 10 \in 0..5
        <4>1. count >= 1 /\ sum <= 5 * count
          BY <2>1, <2>3, <3>1
        <4>. QED
          BY <4>1, AverageBound
      <3>. QED
        BY <1>3, <2>3, <3>1, <3>2, Zenon
    <2>. QED
      BY <2>2, <2>3
  <1>6. fbShown \in 0..50
    <2>1. fbShown = 10 * fbStars
      BY <1>3
    <2>. QED
      BY <1>5, <2>1
  <1>7. fbLast \in [FbUsers -> FbMarks \cup {0}]
    BY <1>2, <1>3
  <1>8. \A u \in FbUsers : fbRows[u] = IF fbLast[u] = 0 THEN <<>> ELSE <<fbLast[u]>>
    BY <1>2, <1>3
  <1>9. 0 \in 0..FbMaxClicks
    BY FeedbackAssumption
  <1>. QED
    BY <1>3, <1>4, <1>5, <1>6, <1>7, <1>8, <1>9 DEF MarkInv, MarkTypes, MarksRight

\* Steps that leave the rows alone: at most one request, q, is new.
LEMMA RequestMoved ==
  ASSUME MarkInv, NEW q \in FbRequest, fbReqs' \subseteq fbReqs \cup {q}, Behind(q),
         UNCHANGED <<fbRows, fbLast>>,
         fbSent' \in 0..FbMaxClicks, fbStars' \in 0..5, fbShown' \in 0..50,
         ~fbOverlap' =>
           /\ ~fbOverlap /\ ReadRight(q)
           /\ \A s \in fbReqs' : q.at = "found" /\ s.at = "found" /\ s.user = q.user => s = q
           /\ fbFresh' => fbShown' = FbAvg /\ fbStars' = FbRound(FbAvg)
  PROVE  MarkInv'
  <1>1. FbAvg' = FbAvg /\ FbCount(fbRows)' = FbCount(fbRows) /\ FbSum(fbRows)' = FbSum(fbRows)
    BY DEF FbAvg
  <1>2. \A s : (Behind(s)' <=> Behind(s)) /\ (ReadRight(s)' <=> ReadRight(s))
    BY <1>1 DEF Behind, ReadRight
  <1>3. MarkTypes'
    BY <1>2 DEF MarkInv, MarkTypes
  <1>4. ASSUME ~fbOverlap' PROVE MarksRight'
    <2>1. MarksRight /\ ReadRight(q)
      BY <1>4 DEF MarkInv
    <2>2. \A s, t \in fbReqs' : s.at = "found" /\ t.at = "found" /\ s.user = t.user => s = t
      BY <1>4, <2>1 DEF MarksRight
    <2>3. \A s \in fbReqs' : ReadRight(s)'
      BY <1>2, <2>1 DEF MarksRight
    <2>4. fbFresh' => fbShown' = FbAvg' /\ fbStars' = FbRound(FbAvg')
      BY <1>1, <1>4
    <2>5. \A u \in FbUsers : fbRows'[u] = IF fbLast'[u] = 0 THEN <<>> ELSE <<fbLast'[u]>>
      BY <2>1 DEF MarksRight
    <2>. QED
      BY <2>2, <2>3, <2>4, <2>5 DEF MarksRight
  <1>. QED
    BY <1>3, <1>4 DEF MarkInv

LEMMA ClickStep ==
  ASSUME MarkInv, NEW u \in FbUsers, NEW m \in FbMarks, FbClick(u, m)
  PROVE  MarkInv'
  <1>1. PICK n \in FbFlights :
          fbReqs' = fbReqs \cup {[n |-> n, user |-> u, mark |-> m, at |-> "sent", row |-> 0,
                                  old |-> 0, sum |-> 0, average |-> 0, clean |-> FALSE]}
    BY DEF FbClick
  <1>2. PICK q : q = [n |-> n, user |-> u, mark |-> m, at |-> "sent", row |-> 0,
                      old |-> 0, sum |-> 0, average |-> 0, clean |-> FALSE]
    OBVIOUS
  <1>3. q \in FbRequest /\ q.at = "sent" /\ q.row = 0 /\ q.user = u /\ q.clean = FALSE
    BY <1>2 DEF FbRequest
  <1>4. Behind(q) /\ ReadRight(q)
    <2>1. Len(fbRows[u]) \in Nat
      BY DEF MarkInv, MarkTypes, Marked
    <2>. QED
      BY <1>3, <2>1 DEF Behind, ReadRight
  <1>5. fbSent' \in 0..FbMaxClicks
    BY FeedbackAssumption DEF FbClick, MarkInv, MarkTypes
  <1>6. UNCHANGED <<fbRows, fbLast, fbStars, fbShown, fbOverlap, fbFresh>>
    BY DEF FbClick
  <1>. QED
    BY <1>1, <1>2, <1>3, <1>4, <1>5, <1>6, RequestMoved DEF MarkInv, MarkTypes, MarksRight

LEMMA FbFindStep ==
  ASSUME MarkInv, NEW r \in fbReqs, FbFind(r)
  PROVE  MarkInv'
  <1>1. r \in FbRequest /\ r.at = "sent" /\ r.user \in FbUsers /\ fbRows[r.user] \in Seq(FbMarks)
    BY DEF MarkInv, MarkTypes, FbFind, FbRequest, Marked
  <1>2. UNCHANGED <<fbRows, fbSent, fbLast, fbStars, fbShown, fbFresh>> /\ fbOverlap' = FbSeen(r)
    BY DEF FbFind
  <1>3. PICK q \in FbRequest :
          /\ FbMove(r, q) /\ q.at = "found" /\ q.user = r.user /\ q.clean = r.clean
          /\ \/ fbRows[r.user] = <<>> /\ q.row = r.row
             \/ q.row \in 1..Len(fbRows[r.user]) /\ q.old = fbRows[r.user][q.row]
    <2>1. CASE fbRows[r.user] = <<>>
      <3>. DEFINE p == [r EXCEPT !.at = "found"]
      <3>1. p \in FbRequest /\ p.at = "found" /\ p.user = r.user /\ p.clean = r.clean /\ p.row = r.row
        BY <1>1 DEF FbRequest
      <3>2. FbMove(r, p)
        BY <2>1 DEF FbFind
      <3>. HIDE DEF p
      <3>. QED
        BY <2>1, <3>1, <3>2
    <2>2. CASE fbRows[r.user] # <<>>
      <3>1. PICK i \in 1..Len(fbRows[r.user]) :
              FbMove(r, [r EXCEPT !.at = "found", !.row = i, !.old = fbRows[r.user][i]])
        BY <2>2 DEF FbFind
      <3>. DEFINE p == [r EXCEPT !.at = "found", !.row = i, !.old = fbRows[r.user][i]]
      <3>2. i \in Nat /\ fbRows[r.user][i] \in FbMarks
        BY <1>1, <3>1
      <3>3. /\ p \in FbRequest /\ p.at = "found" /\ p.user = r.user /\ p.clean = r.clean
            /\ p.row = i /\ p.old = fbRows[r.user][i]
        BY <1>1, <3>2 DEF FbRequest
      <3>. HIDE DEF p
      <3>. QED
        BY <3>1, <3>3 DEF p
    <2>. QED
      BY <2>1, <2>2
  <1>4. Len(fbRows[r.user]) \in Nat /\ q.row \in Nat /\ r.row \in Nat
          /\ r.row <= Len(fbRows[r.user])
    BY <1>1, <1>3 DEF MarkInv, MarkTypes, FbRequest, Behind
  <1>5. Behind(q)
    BY <1>3, <1>4 DEF Behind
  <1>6. fbReqs' \subseteq fbReqs \cup {q} /\ \A s \in fbReqs' : s = q \/ s \in fbReqs \ {r}
    BY <1>3 DEF FbMove
  <1>7. ASSUME ~fbOverlap'
        PROVE  /\ ~fbOverlap /\ ReadRight(q)
               /\ \A s \in fbReqs' : q.at = "found" /\ s.at = "found" /\ s.user = q.user => s = q
               /\ fbFresh' => fbShown' = FbAvg /\ fbStars' = FbRound(FbAvg)
    <2>1. ~fbOverlap /\ \A s \in fbReqs \ {r} : ~(s.user = r.user /\ s.at = "found")
      BY <1>2, <1>7 DEF FbSeen
    <2>2. MarksRight
      BY <2>1 DEF MarkInv
    <2>3. ReadRight(q)
      <3>1. CASE fbRows[r.user] = <<>> /\ q.row = r.row
        <4>1. q.row = 0
          BY <1>4, <3>1
        <4>. QED
          BY <1>3, <3>1, <4>1 DEF ReadRight
      <3>2. CASE q.row \in 1..Len(fbRows[r.user]) /\ q.old = fbRows[r.user][q.row]
        <4>1. fbRows[r.user] = <<>> \/ fbRows[r.user] = <<fbLast[r.user]>>
          BY <1>1, <2>2 DEF MarksRight
        <4>2. q.row = 1
          BY <3>2, <4>1
        <4>. QED
          BY <1>3, <3>2, <4>2 DEF ReadRight
      <3>. QED
        BY <1>3, <3>1, <3>2
    <2>. QED
      BY <1>2, <1>3, <1>6, <2>1, <2>2, <2>3 DEF MarksRight
  <1>. QED
    BY <1>2, <1>5, <1>6, <1>7, RequestMoved DEF MarkInv, MarkTypes

LEMMA FbSaveStep ==
  ASSUME MarkInv, NEW r \in fbReqs, FbSave(r)
  PROVE  MarkInv'
  <1>. DEFINE u == r.user
              m == r.mark
              old(s) == [s EXCEPT !.clean = FALSE]
              q == [r EXCEPT !.at = "saved", !.row = 0, !.old = 0, !.clean = TRUE]
  <1>1. /\ r \in FbRequest /\ r.at = "found" /\ u \in FbUsers /\ m \in FbMarks /\ r.row \in Nat
        /\ r.row <= Len(fbRows[u]) /\ fbRows[u] \in Seq(FbMarks)
    BY DEF MarkInv, MarkTypes, FbSave, FbRequest, Marked, Behind
  <1>2. q \in FbRequest /\ q.at = "saved" /\ q.row = 0 /\ q.user = u /\ q.clean = TRUE
    BY <1>1 DEF FbRequest
  <1>3. ASSUME NEW s \in fbReqs
        PROVE  /\ old(s) \in FbRequest /\ old(s).at = s.at /\ old(s).row = s.row
               /\ old(s).user = s.user /\ old(s).clean = FALSE /\ old(s).sum = s.sum
               /\ old(s).old = s.old
    <2>1. s \in FbRequest
      BY DEF MarkInv, MarkTypes
    <2>. QED
      BY <2>1 DEF FbRequest
  <1>4. /\ fbReqs' = {old(s) : s \in fbReqs \ {r}} \cup {q}
        /\ fbLast' = [fbLast EXCEPT ![u] = m] /\ fbFresh' = FALSE
        /\ UNCHANGED <<fbSent, fbShown, fbStars, fbOverlap>>
    BY DEF FbSave
  <1>5. /\ fbRows' \in Marked /\ Len(fbRows[u]) <= Len(fbRows'[u]) /\ fbRows'[u] # <<>>
        /\ \A v \in FbUsers \ {u} : fbRows'[v] = fbRows[v]
        /\ r.row = 0 => fbRows'[u] = Append(fbRows[u], m)
        /\ r.row # 0 /\ r.old = m => fbRows'[u] = fbRows[u]
        /\ r.row # 0 /\ r.old # m => fbRows'[u] = [fbRows[u] EXCEPT ![r.row] = m]
    <2>1. fbRows \in [FbUsers -> Seq(FbMarks)]
      BY DEF MarkInv, MarkTypes, Marked
    <2>2. CASE r.row = 0
      <3>1. fbRows' = [fbRows EXCEPT ![u] = Append(fbRows[u], m)]
        BY <2>2 DEF FbSave
      <3>2. PICK s : s = Append(fbRows[u], m)
        OBVIOUS
      <3>3. s \in Seq(FbMarks) /\ Len(s) = Len(fbRows[u]) + 1 /\ Len(fbRows[u]) \in Nat
        BY <1>1, <3>2
      <3>4. s # <<>> /\ Len(fbRows[u]) <= Len(s)
        BY <3>3
      <3>5. fbRows' = [fbRows EXCEPT ![u] = s]
        BY <3>1, <3>2
      <3>. QED
        BY <1>1, <2>1, <2>2, <3>2, <3>3, <3>4, <3>5 DEF Marked
    <2>3. CASE r.row # 0 /\ r.old = m
      <3>1. fbRows' = fbRows
        BY <2>3 DEF FbSave
      <3>2. fbRows[u] # <<>> /\ Len(fbRows[u]) \in Nat
        BY <1>1, <2>3
      <3>. QED
        BY <2>1, <2>3, <3>1, <3>2 DEF Marked
    <2>4. CASE r.row # 0 /\ r.old # m
      <3>1. fbRows' = [fbRows EXCEPT ![u] = [fbRows[u] EXCEPT ![r.row] = m]]
        BY <2>4 DEF FbSave
      <3>2. r.row \in 1..Len(fbRows[u]) /\ Len(fbRows[u]) \in Nat
        BY <1>1, <2>4
      <3>3. PICK s : s = [fbRows[u] EXCEPT ![r.row] = m]
        OBVIOUS
      <3>4. s \in Seq(FbMarks) /\ Len(s) = Len(fbRows[u]) /\ s # <<>>
        BY <1>1, <3>2, <3>3
      <3>5. fbRows' = [fbRows EXCEPT ![u] = s]
        BY <3>1, <3>3
      <3>6. Len(fbRows[u]) <= Len(s)
        BY <3>2, <3>4
      <3>. QED
        BY <1>1, <2>1, <2>4, <3>3, <3>4, <3>5, <3>6 DEF Marked
    <2>. QED
      BY <2>2, <2>3, <2>4
  <1>6. FbCount(fbRows) <= FbCount(fbRows') /\ FbCount(fbRows) \in Nat /\ FbCount(fbRows') \in Nat
    <2>1. fbRows \in Marked
      BY DEF MarkInv, MarkTypes
    <2>2. PICK now \in Marked : now = fbRows'
      BY <1>5
    <2>3. FbCount(fbRows) <= FbCount(now)
      BY <1>1, <1>5, <2>1, <2>2, CountGrows
    <2>4. FbCount(fbRows) \in Nat /\ FbCount(now) \in Nat
      BY <2>1, AllMarks
    <2>. QED
      BY <2>2, <2>3, <2>4
  <1>. HIDE DEF q, old
  <1>7. ASSUME NEW s \in fbReqs PROVE Behind(old(s))'
    <2>1. Behind(s) /\ s \in FbRequest
      BY DEF MarkInv, MarkTypes
    <2>2. s.user \in FbUsers /\ s.row \in Nat /\ s.sum \in Nat
      BY <2>1 DEF FbRequest
    <2>3. Len(fbRows[s.user]) <= Len(fbRows'[s.user]) /\ Len(fbRows[s.user]) \in Nat
            /\ Len(fbRows'[s.user]) \in Nat
      <3>1. fbRows[s.user] \in Seq(FbMarks) /\ fbRows'[s.user] \in Seq(FbMarks)
        BY <1>5, <2>2 DEF MarkInv, MarkTypes, Marked
      <3>2. CASE s.user = u
        BY <1>5, <3>1, <3>2
      <3>3. CASE s.user # u
        BY <1>5, <2>2, <3>1, <3>3
      <3>. QED
        BY <3>2, <3>3
    <2>4. fbRows[s.user] # <<>> => fbRows'[s.user] # <<>>
      BY <1>5, <2>2
    <2>5. s.at = "loaded" => s.sum <= 5 * FbCount(fbRows')
      BY <1>6, <2>1, <2>2 DEF Behind
    <2>6. s.row <= Len(fbRows'[s.user])
      BY <2>1, <2>2, <2>3 DEF Behind
    <2>. QED
      BY <1>3, <2>1, <2>4, <2>5, <2>6 DEF Behind
  <1>8. Behind(q)'
    <2>1. fbRows'[u] \in Seq(FbMarks)
      BY <1>1, <1>5 DEF Marked
    <2>2. Len(fbRows'[u]) \in Nat
      BY <2>1
    <2>. QED
      BY <1>2, <1>5, <2>2 DEF Behind
  <1>9. MarkTypes'
    <2>1. fbReqs' \subseteq FbRequest /\ \A s \in fbReqs' : Behind(s)'
      BY <1>2, <1>3, <1>4, <1>7, <1>8 DEF MarkInv, MarkTypes
    <2>2. fbLast' \in [FbUsers -> FbMarks \cup {0}]
      BY <1>1, <1>4 DEF MarkInv, MarkTypes
    <2>. QED
      BY <1>4, <1>5, <2>1, <2>2 DEF MarkInv, MarkTypes
  <1>10. ASSUME ~fbOverlap' PROVE MarksRight'
    <2>1. MarksRight
      BY <1>4, <1>10 DEF MarkInv
    <2>2. fbRows'[u] = <<m>>
      <3>1. CASE r.row = 0
        <4>1. fbRows[u] = <<>>
          BY <1>1, <2>1, <3>1 DEF MarksRight, ReadRight
        <4>. QED
          BY <1>5, <3>1, <4>1
      <3>2. CASE r.row # 0
        <4>1. r.row = 1 /\ r.old = fbRows[u][1]
          BY <1>1, <2>1, <3>2 DEF MarksRight, ReadRight
        <4>2. fbRows[u] = <<fbLast[u]>>
          <5>1. fbRows[u] = <<>> \/ fbRows[u] = <<fbLast[u]>>
            BY <1>1, <2>1 DEF MarksRight
          <5>. QED
            BY <1>1, <4>1, <5>1
        <4>3. CASE r.old = m
          BY <1>5, <3>2, <4>1, <4>2, <4>3
        <4>4. CASE r.old # m
          BY <1>5, <3>2, <4>1, <4>2, <4>4
        <4>. QED
          BY <4>3, <4>4
      <3>. QED
        BY <3>1, <3>2
    <2>3. \A v \in FbUsers : fbRows'[v] = IF fbLast'[v] = 0 THEN <<>> ELSE <<fbLast'[v]>>
      <3>1. m # 0
        BY <1>1, FbFacts
      <3>2. fbLast'[u] = m /\ \A v \in FbUsers \ {u} : fbLast'[v] = fbLast[v]
        BY <1>1, <1>4 DEF MarkInv, MarkTypes
      <3>. QED
        BY <1>5, <2>1, <2>2, <3>1, <3>2 DEF MarksRight
    <2>4. \A s, t \in fbReqs' : s.at = "found" /\ t.at = "found" /\ s.user = t.user => s = t
      <3>. SUFFICES ASSUME NEW s \in fbReqs', NEW t \in fbReqs',
                           s.at = "found", t.at = "found", s.user = t.user
                    PROVE  s = t
        OBVIOUS
      <3>1. PICK a \in fbReqs, b \in fbReqs : s = old(a) /\ t = old(b)
        BY <1>2, <1>4
      <3>2. a.at = "found" /\ b.at = "found" /\ a.user = b.user
        BY <1>3, <3>1
      <3>. QED
        BY <2>1, <3>1, <3>2 DEF MarksRight
    <2>5. ASSUME NEW s \in fbReqs' PROVE ReadRight(s)'
      <3>1. CASE s = q
        BY <1>2, <3>1 DEF ReadRight
      <3>2. ASSUME NEW a \in fbReqs \ {r}, s = old(a) PROVE ReadRight(s)'
        <4>1. s.at = a.at /\ s.row = a.row /\ s.user = a.user /\ s.old = a.old /\ s.clean = FALSE
          BY <1>3, <3>2
        <4>2. ReadRight(a) /\ (a.at = "found" => a.user # u)
          BY <1>1, <2>1 DEF MarksRight
        <4>3. a.user \in FbUsers
          BY DEF MarkInv, MarkTypes, FbRequest
        <4>. QED
          BY <1>5, <4>1, <4>2, <4>3 DEF ReadRight
      <3>. QED
        BY <1>4, <3>1, <3>2
    <2>. QED
      BY <1>4, <2>3, <2>4, <2>5 DEF MarksRight
  <1>. QED
    BY <1>9, <1>10 DEF MarkInv

LEMMA AnswerSteps ==
  ASSUME MarkInv, NEW r \in fbReqs, FbLoadVotes(r) \/ FbDivide(r) \/ FbAnswered(r) \/ FbLost(r)
  PROVE  MarkInv'
  <1>1. /\ r \in FbRequest /\ r.user \in FbUsers /\ fbRows[r.user] # <<>> /\ Behind(r)
        /\ r.row \in Nat /\ r.sum \in Nat /\ r.average \in 0..50
    BY DEF MarkInv, MarkTypes, FbRequest, Behind, FbLoadVotes, FbDivide, FbAnswered, FbLost
  <1>2. /\ FbCount(fbRows) \in Nat /\ FbSum(fbRows) \in Nat /\ FbCount(fbRows) >= 1
        /\ FbSum(fbRows) <= 5 * FbCount(fbRows)
    BY <1>1, AllMarks DEF MarkInv, MarkTypes
  <1>3. UNCHANGED <<fbRows, fbLast, fbSent, fbOverlap>>
    BY DEF FbLoadVotes, FbDivide, FbAnswered, FbLost
  <1>4. CASE FbLoadVotes(r)
    <2>. DEFINE q == [r EXCEPT !.at = "loaded", !.sum = FbSum(fbRows)]
    <2>1. /\ q \in FbRequest /\ q.at = "loaded" /\ q.user = r.user /\ q.row = r.row
          /\ q.sum = FbSum(fbRows)
      BY <1>1, <1>2 DEF FbRequest
    <2>2. fbReqs' = (fbReqs \ {r}) \cup {q} /\ UNCHANGED <<fbShown, fbStars, fbFresh>>
      BY <1>4 DEF FbLoadVotes, FbMove
    <2>. HIDE DEF q
    <2>3. Behind(q) /\ ReadRight(q)
      BY <1>1, <1>2, <2>1 DEF Behind, ReadRight
    <2>. QED
      BY <1>3, <2>1, <2>2, <2>3, RequestMoved DEF MarkInv, MarkTypes, MarksRight
  <1>5. CASE FbDivide(r)
    <2>1. r.at = "loaded" /\ r.sum <= 5 * FbCount(fbRows)
      BY <1>1, <1>5 DEF FbDivide, Behind
    <2>2. PICK a \in 0..50 : a = FbAverage(r.sum, FbCount(fbRows))
      BY <1>1, <1>2, <2>1, AverageBound
    <2>. DEFINE q == [r EXCEPT !.at = "done", !.sum = 0, !.average = a]
    <2>3. /\ q \in FbRequest /\ q.at = "done" /\ q.user = r.user /\ q.row = r.row
          /\ q.average = a /\ q.clean = r.clean
      BY <1>1 DEF FbRequest
    <2>4. fbReqs' = (fbReqs \ {r}) \cup {q} /\ UNCHANGED <<fbShown, fbStars, fbFresh>>
      BY <1>5, <2>2 DEF FbDivide, FbMove
    <2>. HIDE DEF q
    <2>5. Behind(q)
      BY <1>1, <2>3 DEF Behind
    <2>6. ~fbOverlap => ReadRight(q)
      BY <2>1, <2>2, <2>3 DEF MarkInv, MarksRight, ReadRight, FbAvg
    <2>. QED
      BY <1>3, <2>3, <2>4, <2>5, <2>6, RequestMoved DEF MarkInv, MarkTypes, MarksRight
  <1>6. CASE FbAnswered(r)
    <2>1. /\ r.at = "done" /\ fbReqs' = fbReqs \ {r} /\ fbShown' = r.average /\ fbFresh' = r.clean
          /\ fbStars' = IF FbRound(r.average) \in 1..5 THEN FbRound(r.average) ELSE fbStars
      BY <1>6 DEF FbAnswered
    <2>2. ~fbOverlap => ReadRight(r)
      BY DEF MarkInv, MarksRight
    <2>3. fbStars' \in 0..5
      BY <2>1 DEF MarkInv, MarkTypes
    <2>4. ~fbOverlap /\ r.clean => fbShown' = FbAvg /\ fbStars' = FbRound(FbAvg)
      <3>. SUFFICES ASSUME ~fbOverlap, r.clean PROVE fbShown' = FbAvg /\ fbStars' = FbRound(FbAvg)
        OBVIOUS
      <3>1. r.average = FbAvg
        BY <2>1, <2>2 DEF ReadRight
      <3>2. FbAvg \in 10..50
        BY <1>1, AvgBound DEF MarkInv
      <3>3. FbRound(FbAvg) \in 1..5
        BY <3>2 DEF FbRound
      <3>. QED
        BY <2>1, <3>1, <3>3
    <2>5. fbShown' \in 0..50
      BY <1>1, <2>1
    <2>. QED
      BY <1>1, <1>3, <2>1, <2>2, <2>3, <2>4, <2>5, RequestMoved DEF MarkInv, MarkTypes, MarksRight
  <1>7. CASE FbLost(r)
    <2>1. fbReqs' = fbReqs \ {r} /\ UNCHANGED <<fbShown, fbStars, fbFresh>>
      BY <1>7 DEF FbLost
    <2>. QED
      BY <1>1, <1>3, <2>1, RequestMoved DEF MarkInv, MarkTypes, MarksRight
  <1>. QED
    BY <1>4, <1>5, <1>6, <1>7

LEMMA MarksStep == MarkInv /\ [FbNext]_fbVars => MarkInv'
  <1>. SUFFICES ASSUME MarkInv, [FbNext]_fbVars PROVE MarkInv'
    OBVIOUS
  <1>1. CASE UNCHANGED fbVars
    <2>1. FbAvg' = FbAvg /\ FbCount(fbRows)' = FbCount(fbRows) /\ FbSum(fbRows)' = FbSum(fbRows)
      BY <1>1 DEF fbVars, FbAvg
    <2>2. \A s : (Behind(s)' <=> Behind(s)) /\ (ReadRight(s)' <=> ReadRight(s))
      BY <1>1, <2>1 DEF fbVars, Behind, ReadRight
    <2>. QED
      BY <1>1, <2>1, <2>2 DEF fbVars, MarkInv, MarkTypes, MarksRight
  <1>. QED
    BY <1>1, ClickStep, FbFindStep, FbSaveStep, AnswerSteps DEF FbNext

LEMMA MarksCount == MarkInv => FbTypeOK /\ MarksCountOnce
  <1>. SUFFICES ASSUME MarkInv PROVE FbTypeOK /\ MarksCountOnce
    OBVIOUS
  <1>1. FbTypeOK
    BY DEF MarkInv, MarkTypes, Marked, FbTypeOK, FbRequest, Behind
  <1>2. ASSUME ~fbOverlap PROVE MarksCountOnce
    <2>1. MarksRight /\ MarkTypes
      BY <1>2 DEF MarkInv
    <2>2. PICK voters : voters = {u \in FbUsers : fbLast[u] # 0}
      OBVIOUS
    <2>3. PICK w, l : w = fbRows /\ l = fbLast
      OBVIOUS
    <2>4. /\ w \in Marked /\ l \in [FbUsers -> FbMarks \cup {0}]
          /\ \A u \in FbUsers : w[u] = IF l[u] = 0 THEN <<>> ELSE <<l[u]>>
          /\ voters = {u \in FbUsers : l[u] # 0}
      BY <2>1, <2>2, <2>3 DEF MarksRight, MarkTypes
    <2>5. FbSum(w) = Total(l, voters) /\ FbCount(w) = Cardinality(voters)
      BY <2>4, LastMarks
    <2>6. FbSum(fbRows) = Total(fbLast, voters) /\ FbCount(fbRows) = Cardinality(voters)
      BY <2>3, <2>5, Zenon
    <2>7. Total(fbLast, voters) = MapThenSumSet(LAMBDA u : fbLast[u], voters)
      BY DEF Total
    <2>8. FbAvg = FbAverage(MapThenSumSet(LAMBDA u : fbLast[u], {u \in FbUsers : fbLast[u] # 0}),
                            Cardinality({u \in FbUsers : fbLast[u] # 0}))
      BY <2>2, <2>6, <2>7, Zenon DEF FbAvg
    <2>. QED
      BY <1>2, <2>1, <2>8, Zenon DEF MarksRight, MarksCountOnce
  <1>. QED
    BY <1>1, <1>2 DEF MarksCountOnce

\* Whoever interleaves with whom, except two requests of one user, every user
\* counts once, with the last mark, and the answer shown is the average of
\* these marks (feedbacks_controller.rb:4-6, lecture.rb:48-54).
THEOREM MarksCountOnceAlways == FbSpec => []MarksCountOnce
  BY MarksInitial, MarksStep, MarksCount, PTL DEF FbSpec

\* Marks, averages and stars stay in their ranges, and no request points at a
\* row that is not there.
THEOREM MarkTypesAlways == FbSpec => []FbTypeOK
  BY MarksInitial, MarksStep, MarksCount, PTL DEF FbSpec

=============================================================================
