---------------------------- MODULE PageQueries ----------------------------
(***************************************************************************)
(* The pages whose controls ask the server at every change: the ticket     *)
(* forms, whose prices the server computes (promo.js, web/accounts.js,     *)
(* web/campaigns.js), and the lists with a filter (web/lectures.js,        *)
(* web/user_lectures.js, web/users.js).  A change sends its request and    *)
(* waits for nothing; answers come in any order, or never.  An answer      *)
(* brings one part of the page; another part is taken from the control as  *)
(* it is by then.                                                          *)
(***************************************************************************)
EXTENDS Integers, FiniteSets

CONSTANTS
  PqChoices,        \* the settings of the controls
  MaxSends        \* bound: changes of a page's control

ASSUME QueriesAssumption == MaxSends \in Nat

VARIABLES
  pqPage,      \* which page
  pqChoice,    \* what the control says
  pqAnswer,    \* the choice whose answer is shown: total and discounts, or the list
  pqHere,      \* the choice the page's own part shows: ticket prices, or the address
  pqAsked,     \* requests in flight: [n |-> when it was sent, choice |-> ...]
  pqSent,      \* how many were sent
  pqLast       \* ghost: the number of the request answered last

pqVars == <<pqPage, pqChoice, pqAnswer, pqHere, pqAsked, pqSent, pqLast>>

TicketPages == {"buy_now", "account"}
ListPages == {"lectures", "user_lectures", "users"}

\* The page as rendered shows its choice; the address may name the option,
\* which is selected before the handler of "change" is bound.
PqStart(p, c) ==
  /\ pqPage = p
  /\ pqChoice = c /\ pqAnswer = c /\ pqHere = c
  /\ pqAsked = {} /\ pqSent = 0 /\ pqLast = 0

PqInit == \E p \in TicketPages \cup ListPages, c \in PqChoices : PqStart(p, c)

-----------------------------------------------------------------------------
\* Mutant: the request is made before the control has its new value.
PqAskOld(c) ==
  /\ pqAsked' = pqAsked \cup {[n |-> pqSent + 1, choice |-> pqChoice]}
  /\ pqSent' = pqSent + 1
  /\ pqChoice' = c

\* The request carries the control's new value.
PqAsk(c) ==
  /\ pqAsked' = pqAsked \cup {[n |-> pqSent + 1, choice |-> c]}
  /\ pqSent' = pqSent + 1
  /\ pqChoice' = c

PqMayAsk(pages, c) == pqPage \in pages /\ pqSent < MaxSends /\ c # pqChoice

\* ticketsCountChanged, ticketChanged: calculatePrices.
ChooseTickets(c) ==
  /\ PqMayAsk(TicketPages, c)
  /\ PqAsk(c)
  /\ UNCHANGED <<pqPage, pqAnswer, pqHere, pqLast>>

\* change.fs of the filters.
ChooseLectures(c) ==
  /\ PqMayAsk({"lectures"}, c)
  /\ PqAsk(c)
  /\ UNCHANGED <<pqPage, pqAnswer, pqHere, pqLast>>

ChooseUserLectures(c) ==
  /\ PqMayAsk({"user_lectures"}, c)
  /\ PqAsk(c)
  /\ UNCHANGED <<pqPage, pqAnswer, pqHere, pqLast>>

ChooseUsers(c) ==
  /\ PqMayAsk({"users"}, c)
  /\ PqAsk(c)
  /\ UNCHANGED <<pqPage, pqAnswer, pqHere, pqLast>>

PqTake(q) == pqAsked' = pqAsked \ {q} /\ pqLast' = q.n /\ UNCHANGED <<pqPage, pqChoice, pqSent>>

\* The callback of ticketsCountChanged: the price of each kind is the count
\* selected now, the discounts and the total are those of the answer.
BuyNowAnswered(q) ==
  /\ pqPage = "buy_now" /\ PqTake(q)
  /\ pqAnswer' = q.choice
  /\ pqHere' = pqChoice

\* The callback of ticketChanged: the whole of it is the answer's.
AccountAnswered(q) ==
  /\ pqPage = "account" /\ PqTake(q)
  /\ pqAnswer' = q.choice
  /\ UNCHANGED pqHere

\* The answer is a script that replaces the list; pushState writes the option
\* selected now into the address.
LecturesAnswered(q) ==
  /\ pqPage \in {"lectures", "user_lectures"} /\ PqTake(q)
  /\ pqAnswer' = q.choice
  /\ pqHere' = pqChoice

\* The users' list has no address to keep.
UsersAnswered(q) ==
  /\ pqPage = "users" /\ PqTake(q)
  /\ pqAnswer' = q.choice
  /\ UNCHANGED pqHere

\* No handler of errors: the page stays as it is.
PqFails(q) ==
  /\ pqAsked' = pqAsked \ {q}
  /\ UNCHANGED <<pqPage, pqChoice, pqAnswer, pqHere, pqSent, pqLast>>

PqNext ==
  \/ \E c \in PqChoices : ChooseTickets(c) \/ ChooseLectures(c) \/ ChooseUserLectures(c) \/ ChooseUsers(c)
  \/ \E q \in pqAsked : BuyNowAnswered(q) \/ AccountAnswered(q) \/ LecturesAnswered(q)
                        \/ UsersAnswered(q) \/ PqFails(q)

PqSpec == PqInit /\ [][PqNext]_pqVars

-----------------------------------------------------------------------------
PqTypeOK ==
  /\ pqPage \in TicketPages \cup ListPages
  /\ {pqChoice, pqAnswer, pqHere} \subseteq PqChoices
  /\ \A q \in pqAsked : q.n \in 1..MaxSends /\ q.choice \in PqChoices
  /\ pqSent \in 0..MaxSends /\ pqLast \in 0..MaxSends

\* When nothing is in flight and the request sent last was answered last, the
\* total, or the list, is that of the control, and so are the ticket prices,
\* or the address, where the page has them; earlier failures and answers that
\* were overtaken leave no trace (promo.js:72-106, accounts.js:37-62, lectures.js:11-27).
AnswerIsOfChoice ==
  pqAsked = {} /\ pqLast = pqSent =>
    /\ pqAnswer = pqChoice
    /\ pqPage \in {"buy_now", "lectures", "user_lectures"} => pqHere = pqChoice

=============================================================================
