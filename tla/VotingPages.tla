---------------------------- MODULE VotingPages ----------------------------
(***************************************************************************)
(* "I go to this lecture": the votings of the lectures on the server       *)
(* (app/models/extensions/voting_extension.rb, the api controllers) and    *)
(* the two pages of the site that change them, the list of the user        *)
(* lectures (web/user_lectures.js) and the schedule with its filters       *)
(* (web/schedules.js, views/web/schedules/_programm.html.haml).            *)
(*                                                                         *)
(* Requests are sent without waiting for the answers of earlier ones; the  *)
(* server takes them in any order and interleaves their database accesses; *)
(* a page that is left loses its answers, not its requests.                *)
(***************************************************************************)
EXTENDS Integers, FiniteSets, FiniteSetsExt

CONSTANTS
  Lectures, Sections, SectionOf,  \* workshops and the lectures they color
  Users, Me,                      \* the visitor of the pages and others
  Popular,                        \* bound: the lectures others vote on
  Requests,                       \* how many requests are in flight at most
  MaxClicks                       \* bound: clicks during one visit

ASSUME VotingAssumption ==
  /\ SectionOf \in [Lectures -> Sections]
  /\ Me \in Users /\ Popular \subseteq Lectures
  /\ IsFiniteSet(Users) /\ IsFiniteSet(Requests) /\ MaxClicks \in Nat

VARIABLES
  rows,        \* [Lectures -> [Users -> Nat]]: rows of votings
  counter,     \* [Lectures -> Nat]: lecture_votings_count
  reqs,        \* [Requests -> request]: what is in flight
  page,        \* the page of Me
  overlapped,  \* ghost: two requests of one user and lecture interleaved
  crossed      \* ghost: the page was touched while an answer was unsettled

vars == <<rows, counter, reqs, page, overlapped, crossed>>

Idle == [at |-> "idle"]
Free == {r \in Requests : reqs[r] = Idle}
Voted(l, u) == rows[l][u] > 0
MyVotes == {l \in Lectures : Voted(l, Me)}
Mine(r) == reqs[r] # Idle /\ reqs[r].user = Me
Busy == \E r \in Requests : Mine(r)
\* What an answer will say is not settled: a request is in flight, or an
\* interleaving has left a second row, which one request does not remove.
Unsettled == Busy \/ \E l \in Lectures : rows[l][Me] > 1

Dimmed == page.disable \ page.enable

-----------------------------------------------------------------------------
\* A page as it is rendered; what the other page shows is empty.
ListPage ==
  [kind |-> "list", clicks |-> 0, my |-> FALSE, checked |-> {}, disable |-> {}, enable |-> {},
   added |-> MyVotes, shown |-> counter,
   others |-> [l \in Lectures |-> counter[l] - rows[l][Me]]]

\* The schedule may be opened with a section in the address.
SchedulePage(ss) ==
  [kind |-> "schedule", clicks |-> 0, my |-> FALSE, checked |-> ss,
   disable |-> IF ss = {} THEN {} ELSE Lectures,
   enable |-> {l \in Lectures : SectionOf[l] \in ss},
   added |-> {}, shown |-> [l \in Lectures |-> 0], others |-> [l \in Lectures |-> 0]]

Init ==
  /\ rows = [l \in Lectures |-> [u \in Users |-> 0]]
  /\ counter = [l \in Lectures |-> 0]
  /\ reqs = [r \in Requests |-> Idle]
  /\ page = SchedulePage({})
  /\ overlapped = FALSE
  /\ crossed = FALSE

Send(r, u, op, l) ==
  /\ r \in Free
  /\ reqs' = [reqs EXCEPT ![r] = [at |-> "sent", user |-> u, op |-> op, lec |-> l, waits |-> u = Me]]

Answer(r, ok) == reqs' = [reqs EXCEPT ![r].at = IF ok THEN "done" ELSE "refused"]

-----------------------------------------------------------------------------
(* The server.  voted_by?, then the insert, or another look-up and the     *)
(* delete; each access is a step.                                          *)

Between(r) == reqs[r].at \in {"checked", "found"}

\* Mutant: vote_by without its first line.
CheckNothing(r) ==
  /\ reqs[r].at = "sent" /\ reqs[r].op # "mine"
  /\ reqs' = [reqs EXCEPT ![r].at = "checked"]
  /\ UNCHANGED <<rows, counter, page, overlapped, crossed>>

Check(r) ==
  /\ reqs[r].at = "sent" /\ reqs[r].op # "mine"
  /\ LET q == reqs[r] IN
       /\ IF Voted(q.lec, q.user) = (q.op = "unvote")
            THEN reqs' = [reqs EXCEPT ![r].at = "checked"]
            ELSE Answer(r, FALSE)
       /\ overlapped' = (overlapped \/ \E s \in Requests \ {r} :
                           /\ Between(s) /\ reqs[s].user = q.user /\ reqs[s].lec = q.lec)
  /\ UNCHANGED <<rows, counter, page, crossed>>

\* voting.save: the row and the counter in one transaction.
Insert(r) ==
  /\ reqs[r].at = "checked" /\ reqs[r].op = "vote"
  /\ rows' = [rows EXCEPT ![reqs[r].lec][reqs[r].user] = @ + 1]
  /\ counter' = [counter EXCEPT ![reqs[r].lec] = @ + 1]
  /\ Answer(r, TRUE)
  /\ UNCHANGED <<page, overlapped, crossed>>

\* where(user).first once more: a row that is gone by now is an error.
Find(r) ==
  /\ reqs[r].at = "checked" /\ reqs[r].op = "unvote"
  /\ IF Voted(reqs[r].lec, reqs[r].user)
       THEN reqs' = [reqs EXCEPT ![r].at = "found"]
       ELSE Answer(r, FALSE)
  /\ UNCHANGED <<rows, counter, page, overlapped, crossed>>

\* Mutant: delete, which skips the callbacks of the counter cache.
DeleteRow(r) ==
  LET q == reqs[r] IN
  /\ q.at = "found"
  /\ rows' = [rows EXCEPT ![q.lec][q.user] = @ - 1]
  /\ Answer(r, TRUE)
  /\ UNCHANGED <<counter, page, overlapped, crossed>>

\* voting.destroy answers true also when its row was deleted meanwhile; then
\* the counter is left alone.  Whoever found the same row finds it "gone".
Destroy(r) ==
  LET q == reqs[r]
      same == {s \in Requests \ {r} : reqs[s].at = "found"
                 /\ reqs[s].user = q.user /\ reqs[s].lec = q.lec} IN
  /\ q.at = "found"
  /\ rows' = [rows EXCEPT ![q.lec][q.user] = @ - 1]
  /\ counter' = [counter EXCEPT ![q.lec] = @ - 1]
  /\ reqs' = [s \in Requests |-> IF s = r THEN [q EXCEPT !.at = "done"]
                                 ELSE IF s \in same THEN [reqs[s] EXCEPT !.at = "gone"]
                                 ELSE reqs[s]]
  /\ UNCHANGED <<page, overlapped, crossed>>

\* Mutant: the counter follows every destroy, not every deleted row.
DestroyGoneCounted(r) ==
  /\ reqs[r].at = "gone"
  /\ counter' = [counter EXCEPT ![reqs[r].lec] = @ - 1]
  /\ Answer(r, TRUE)
  /\ UNCHANGED <<rows, page, overlapped, crossed>>

DestroyGone(r) ==
  /\ reqs[r].at = "gone"
  /\ Answer(r, TRUE)
  /\ UNCHANGED <<rows, counter, page, overlapped, crossed>>

\* Api::EventsController#my_programm.
ListMine(r) ==
  /\ reqs[r].at = "sent" /\ reqs[r].op = "mine"
  /\ reqs' = [reqs EXCEPT ![r] = [at |-> "done", user |-> Me, op |-> "mine",
                                  waits |-> reqs[r].waits, list |-> MyVotes]]
  /\ UNCHANGED <<rows, counter, page, overlapped, crossed>>

\* Nobody reads the answer: it was of a page that is left, or of somebody else.
Forget(r) ==
  /\ reqs[r].at \in {"done", "refused"} /\ ~reqs[r].waits
  /\ reqs' = [reqs EXCEPT ![r] = Idle]
  /\ UNCHANGED <<rows, counter, page, overlapped, crossed>>

OtherVotes(r) ==
  /\ \E u \in Users \ {Me}, l \in Popular, op \in {"vote", "unvote"} : Send(r, u, op, l)
  /\ UNCHANGED <<rows, counter, page, overlapped, crossed>>

Serve(r) == Check(r) \/ Insert(r) \/ Find(r) \/ Destroy(r) \/ DestroyGone(r) \/ ListMine(r)

-----------------------------------------------------------------------------
(* The browser.                                                            *)

\* Following a link or reloading: the answers in flight are lost.
Open ==
  /\ page' \in {ListPage} \cup {SchedulePage(ss) : ss \in {{}} \cup {{s} : s \in Sections}}
  /\ reqs' = [r \in Requests |-> IF Mine(r) THEN [reqs[r] EXCEPT !.waits = FALSE] ELSE reqs[r]]
  /\ crossed' = Unsettled
  /\ UNCHANGED <<rows, counter, overlapped>>

Click == page.clicks < MaxClicks

\* .voting_button without and with .added: nothing waits for the answer.
ClickVote(r, l) ==
  /\ page.kind = "list" /\ Click
  /\ Send(r, Me, IF l \in page.added THEN "unvote" ELSE "vote", l)
  /\ page' = [page EXCEPT !.clicks = @ + 1]
  /\ crossed' = (crossed \/ Busy)
  /\ UNCHANGED <<rows, counter, overlapped>>

\* Mutant: the page answers for the server, errors included.
ListAssumed(r) ==
  LET q == reqs[r] IN
  /\ page.kind = "list" /\ Mine(r) /\ q.waits /\ q.at \in {"done", "refused"}
  /\ page' = IF q.op = "vote"
               THEN [page EXCEPT !.shown[q.lec] = @ + 1, !.added = @ \cup {q.lec}]
               ELSE [page EXCEPT !.added = @ \ {q.lec}]
  /\ reqs' = [reqs EXCEPT ![r] = Idle]
  /\ UNCHANGED <<rows, counter, overlapped, crossed>>

\* success of the two requests; an error does nothing.
ListAnswered(r) ==
  LET q == reqs[r] IN
  /\ page.kind = "list" /\ Mine(r) /\ q.waits /\ q.at \in {"done", "refused"}
  /\ page' = IF q.at = "refused" THEN page
             ELSE IF q.op = "vote"
               THEN [page EXCEPT !.shown[q.lec] = @ + 1, !.added = @ \cup {q.lec}]
               ELSE [page EXCEPT !.shown[q.lec] = @ - 1, !.added = @ \ {q.lec}]
  /\ reqs' = [reqs EXCEPT ![r] = Idle]
  /\ UNCHANGED <<rows, counter, overlapped, crossed>>

\* The checkbox of "my program" asks for my votes, whether set or cleared.
ToggleMy(r) ==
  /\ page.kind = "schedule" /\ Click
  /\ r \in Free
  /\ reqs' = [reqs EXCEPT ![r] = [at |-> "sent", user |-> Me, op |-> "mine", waits |-> TRUE]]
  /\ page' = [page EXCEPT !.my = ~@, !.clicks = @ + 1]
  /\ crossed' = IF page.my THEN crossed \/ Busy ELSE Unsettled
  /\ UNCHANGED <<rows, counter, overlapped>>

\* Mutant: the filters of the sections are not cleared first.
MyAnsweredOverFilter(r) ==
  LET q == reqs[r] IN
  /\ page.kind = "schedule" /\ Mine(r) /\ q.waits /\ q.at = "done" /\ q.op = "mine"
  /\ page' = IF page.my
               THEN [page EXCEPT !.disable = Lectures, !.enable = @ \cup q.list]
               ELSE [page EXCEPT !.disable = {}, !.enable = @ \ q.list]
  /\ reqs' = [reqs EXCEPT ![r] = Idle]
  /\ UNCHANGED <<rows, counter, overlapped, crossed>>

\* Its answer is shown by what the checkbox says when it comes.
MyAnswered(r) ==
  LET q == reqs[r] IN
  /\ page.kind = "schedule" /\ Mine(r) /\ q.waits /\ q.at = "done" /\ q.op = "mine"
  /\ page' = IF page.my
               THEN [page EXCEPT !.checked = {}, !.disable = Lectures, !.enable = q.list]
               ELSE [page EXCEPT !.disable = {}, !.enable = @ \ q.list]
  /\ reqs' = [reqs EXCEPT ![r] = Idle]
  /\ UNCHANGED <<rows, counter, overlapped, crossed>>

\* A section's checkbox; a filter takes the place of "my program".
ToggleFilter(s) ==
  /\ page.kind = "schedule" /\ Click
  /\ LET ss == IF s \in page.checked THEN page.checked \ {s} ELSE page.checked \cup {s}
         of == {l \in Lectures : SectionOf[l] \in ss} IN
       page' = [page EXCEPT !.clicks = @ + 1, !.checked = ss, !.enable = of,
                            !.my = @ /\ ss = {},
                            !.disable = IF ss = {} THEN {} ELSE Lectures]
  /\ crossed' = (crossed \/ Busy)
  /\ UNCHANGED <<rows, counter, reqs, overlapped>>

\* lectureClick while "my program" is set: otherwise the page is left.
ClickLecture(r, l) ==
  /\ page.kind = "schedule" /\ page.my /\ Click
  /\ Send(r, Me, IF l \in Dimmed THEN "vote" ELSE "unvote", l)
  /\ page' = [page EXCEPT !.clicks = @ + 1]
  /\ crossed' = (crossed \/ Busy)
  /\ UNCHANGED <<rows, counter, overlapped>>

LectureAnswered(r) ==
  LET q == reqs[r] IN
  /\ page.kind = "schedule" /\ Mine(r) /\ q.waits /\ q.at \in {"done", "refused"} /\ q.op # "mine"
  /\ page' = IF q.at = "refused" THEN page
             ELSE IF q.op = "vote"
               THEN [page EXCEPT !.disable = @ \ {q.lec}, !.enable = @ \cup {q.lec}]
               ELSE [page EXCEPT !.disable = @ \cup {q.lec}, !.enable = @ \ {q.lec}]
  /\ reqs' = [reqs EXCEPT ![r] = Idle]
  /\ UNCHANGED <<rows, counter, overlapped, crossed>>

Next ==
  \/ Open
  \/ \E r \in Requests : Serve(r) \/ Forget(r) \/ OtherVotes(r)
  \/ \E r \in Requests : ToggleMy(r) \/ MyAnswered(r) \/ ListAnswered(r) \/ LectureAnswered(r)
  \/ \E r \in Requests, l \in Lectures : ClickVote(r, l) \/ ClickLecture(r, l)
  \/ \E s \in Sections : ToggleFilter(s)

Spec == Init /\ [][Next]_vars

-----------------------------------------------------------------------------
\* The state is what the tables, the requests and the page's classes can hold
\* (votings, lectures.lecture_votings_count, web/schedules.js).
TypeOK ==
  /\ rows \in [Lectures -> [Users -> 0..Cardinality(Requests)]]
  /\ counter \in [Lectures -> Nat]
  /\ \A r \in Requests :
       \/ reqs[r] = Idle
       \/ /\ reqs[r].at \in {"sent", "checked", "found", "gone", "done", "refused"}
          /\ \/ reqs[r].op = "mine" /\ reqs[r].user = Me
             \/ /\ reqs[r].op \in {"vote", "unvote"}
                /\ reqs[r].user \in Users /\ reqs[r].lec \in Lectures
  /\ page.kind \in {"list", "schedule"} /\ page.clicks \in 0..MaxClicks
  /\ page.checked \subseteq Sections
  /\ page.added \cup page.disable \cup page.enable \subseteq Lectures
  /\ {overlapped, crossed} \subseteq BOOLEAN

\* However the requests interleave, and although two of them may delete one
\* row, lecture_votings_count is the number of rows (the counter cache of
\* LectureVoting, voting_extension.rb:12 and :18).
CounterIsRows ==
  \A l \in Lectures : counter[l] = MapThenSumSet(LAMBDA u : rows[l][u], Users)

\* vote_by never counts a user twice unless two of the user's requests for one
\* lecture interleave between voted_by? and the write (voting_extension.rb:10-12).
OneVoteEach ==
  overlapped \/ \A l \in Lectures, u \in Users : rows[l][u] <= 1

\* When nothing is in flight and the visitor waited for each answer, the list
\* shows the visitor's votes and counts them once, on top of the votes of
\* others it was rendered with (user_lectures.js:35-65).
ListShowsVotes ==
  page.kind = "list" /\ ~Busy /\ ~crossed =>
    /\ page.added = MyVotes
    /\ \A l \in Lectures :
         page.shown[l] = page.others[l] + Cardinality({l} \cap MyVotes)

\* When nothing is in flight and the visitor waited for each answer since "my
\* program" was set, the schedule dims exactly what the checkboxes exclude: all
\* but my votes, all but the chosen sections, or nothing (schedules.js:9-58).
ScheduleShowsChoice ==
  page.kind = "schedule" /\ ~Busy /\ ~crossed =>
    Dimmed = IF page.my THEN Lectures \ MyVotes
             ELSE IF page.checked = {} THEN {}
             ELSE {l \in Lectures : SectionOf[l] \notin page.checked}

=============================================================================
