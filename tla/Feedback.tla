------------------------------ MODULE Feedback ------------------------------
(***************************************************************************)
(* The marks for one lecture: a click on a star sends the mark             *)
(* (web/user_lectures.js), the server finds or makes the visitor's row,    *)
(* saves it, and answers with the average of all rows                      *)
(* (api/lectures/feedbacks_controller.rb, Lecture#average_feedback_vote).  *)
(* Requests interleave at every access to the database, and answers come   *)
(* in any order.  Averages are counted in tenths.                          *)
(***************************************************************************)
EXTENDS Integers, Sequences, SequencesExt, FiniteSets, FiniteSetsExt

CONSTANTS
  FbUsers, FbMe,   \* those who have marks to give, and the visitor of the page
  FbMarks,         \* the marks that are tried, of 1..5
  FbFlights,       \* numbers of requests that are under way at once
  FbMaxClicks      \* bound: clicks

ASSUME FeedbackAssumption ==
  IsFiniteSet(FbUsers) /\ FbMe \in FbUsers /\ FbMarks \subseteq 1..5 /\ FbMaxClicks \in Nat

VARIABLES
  fbRows,      \* [FbUsers -> Seq(FbMarks)]: the rows of each user
  fbReqs,      \* requests under way
  fbSent,      \* how many were sent
  fbShown,     \* .feedback_result in tenths; 0: no marks yet
  fbStars,     \* how many stars have the class voted
  fbLast,      \* ghost: the mark each user saved last, 0 for none
  fbOverlap,   \* ghost: two requests of one user interleaved
  fbFresh      \* ghost: nothing was saved since the answer shown was computed

fbVars == <<fbRows, fbReqs, fbSent, fbShown, fbStars, fbLast, fbOverlap, fbFresh>>

FbCount(rows) == MapThenSumSet(LAMBDA u : Len(rows[u]), FbUsers)
FbSum(rows) == MapThenSumSet(LAMBDA u : FoldSeq(+, 0, rows[u]), FbUsers)

\* (sum / count.to_f).round(1), and Math.round of an average.
FbAverage(sum, count) == (20 * sum + count) \div (2 * count)
FbRound(tenths) == (tenths + 5) \div 10

FbNone == [u \in FbUsers |-> <<>>]

\* The page as rendered: setResultForFeedback cuts the average with parseInt.
FbStart(rows) ==
  /\ fbRows = rows
  /\ fbReqs = {} /\ fbSent = 0
  /\ fbStars = IF FbCount(rows) = 0 THEN 0 ELSE FbAverage(FbSum(rows), FbCount(rows)) \div 10
  /\ fbShown = 10 * fbStars
  /\ fbLast = [u \in FbUsers |-> IF rows[u] = <<>> THEN 0 ELSE rows[u][1]]
  /\ fbOverlap = FALSE /\ fbFresh = FALSE

FbInit == \E rows \in [FbUsers -> {<<>>} \cup {<<m>> : m \in FbMarks}] : FbStart(rows)

-----------------------------------------------------------------------------
\* A click on a star, of the visitor or of somebody else: nothing waits.
FbClick(u, m) ==
  /\ fbSent < FbMaxClicks
  /\ fbSent' = fbSent + 1
  /\ \E n \in FbFlights \ {r.n : r \in fbReqs} :
       fbReqs' = fbReqs \cup {[n |-> n, user |-> u, mark |-> m, at |-> "sent",
                           row |-> 0, old |-> 0, sum |-> 0, average |-> 0, clean |-> FALSE]}
  /\ UNCHANGED <<fbRows, fbShown, fbStars, fbLast, fbOverlap, fbFresh>>

FbMove(r, q) == fbReqs' = (fbReqs \ {r}) \cup {q}

FbSeen(r) == fbOverlap \/ \E s \in fbReqs \ {r} : s.user = r.user /\ s.at = "found"

\* Mutant: every mark is a new row.
FbFindNone(r) ==
  /\ r.at = "sent"
  /\ FbMove(r, [r EXCEPT !.at = "found"])
  /\ fbOverlap' = FbSeen(r)
  /\ UNCHANGED <<fbRows, fbSent, fbShown, fbStars, fbLast, fbFresh>>

\* find_or_initialize_by: a row of the user, or a new one.
FbFind(r) ==
  /\ r.at = "sent"
  /\ IF fbRows[r.user] = <<>>
       THEN FbMove(r, [r EXCEPT !.at = "found"])
       ELSE \E i \in 1..Len(fbRows[r.user]) :
              FbMove(r, [r EXCEPT !.at = "found", !.row = i, !.old = fbRows[r.user][i]])
  /\ fbOverlap' = FbSeen(r)
  /\ UNCHANGED <<fbRows, fbSent, fbShown, fbStars, fbLast, fbFresh>>

\* save: a row that was found with this mark is not written again.
FbSave(r) ==
  /\ r.at = "found"
  /\ fbRows' = IF r.row = 0 THEN [fbRows EXCEPT ![r.user] = Append(@, r.mark)]
               ELSE IF r.old = r.mark THEN fbRows
               ELSE [fbRows EXCEPT ![r.user][r.row] = r.mark]
  /\ fbReqs' = {[s EXCEPT !.clean = FALSE] : s \in fbReqs \ {r}}
                 \cup {[r EXCEPT !.at = "saved", !.row = 0, !.old = 0, !.clean = TRUE]}
  /\ fbLast' = [fbLast EXCEPT ![r.user] = r.mark]
  /\ fbFresh' = FALSE
  /\ UNCHANGED <<fbSent, fbShown, fbStars, fbOverlap>>

\* feedbacks.map(&:vote), and then feedbacks.count, another query.
FbLoadVotes(r) ==
  /\ r.at = "saved"
  /\ FbMove(r, [r EXCEPT !.at = "loaded", !.sum = FbSum(fbRows)])
  /\ UNCHANGED <<fbRows, fbSent, fbShown, fbStars, fbLast, fbOverlap, fbFresh>>

FbDivide(r) ==
  /\ r.at = "loaded"
  /\ FbMove(r, [r EXCEPT !.at = "done", !.sum = 0, !.average = FbAverage(r.sum, FbCount(fbRows))])
  /\ UNCHANGED <<fbRows, fbSent, fbShown, fbStars, fbLast, fbOverlap, fbFresh>>

\* success: changeAverageFeedback; no star has the number 0.
FbAnswered(r) ==
  LET stars == FbRound(r.average) IN
  /\ r.at = "done" /\ r.user = FbMe
  /\ fbReqs' = fbReqs \ {r}
  /\ fbShown' = r.average
  /\ fbStars' = IF stars \in 1..5 THEN stars ELSE fbStars
  /\ fbFresh' = r.clean
  /\ UNCHANGED <<fbRows, fbSent, fbLast, fbOverlap>>

\* The answer is another page's, or never comes.
FbLost(r) ==
  /\ r.at = "done"
  /\ fbReqs' = fbReqs \ {r}
  /\ UNCHANGED <<fbRows, fbSent, fbShown, fbStars, fbLast, fbOverlap, fbFresh>>

FbNext ==
  \/ \E u \in FbUsers, m \in FbMarks : FbClick(u, m)
  \/ \E r \in fbReqs : FbFind(r) \/ FbSave(r) \/ FbLoadVotes(r) \/ FbDivide(r)
                       \/ FbAnswered(r) \/ FbLost(r)

FbSpec == FbInit /\ [][FbNext]_fbVars

-----------------------------------------------------------------------------
FbTypeOK ==
  /\ fbRows \in [FbUsers -> Seq(FbMarks)]
  /\ fbLast \in [FbUsers -> FbMarks \cup {0}]
  /\ fbSent \in 0..FbMaxClicks /\ fbStars \in 0..5 /\ fbShown \in 0..50
  /\ \A r \in fbReqs : r.user \in FbUsers /\ r.n \in FbFlights /\ r.row <= Len(fbRows[r.user])

\* Unless two requests of one user interleave between the look-up and the save,
\* each user counts once, with the mark given last; and the answer shown, when
\* nothing was saved between its own save and now, is the average of exactly
\* these marks, in its number and its stars (user_lectures.js:76-116,
\* feedbacks_controller.rb:4-6, lecture.rb:48-54).
MarksCountOnce ==
  LET voters == {u \in FbUsers : fbLast[u] # 0}
      average == FbAverage(MapThenSumSet(LAMBDA u : fbLast[u], voters), Cardinality(voters)) IN
  ~fbOverlap =>
    /\ \A u \in FbUsers : fbRows[u] = IF fbLast[u] = 0 THEN <<>> ELSE <<fbLast[u]>>
    /\ fbFresh => fbShown = average /\ fbStars = FbRound(average)

=============================================================================
