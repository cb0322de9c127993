---------------------------- MODULE VotingProofs ----------------------------
(***************************************************************************)
(* Theorems about VotingPages, for any number of lectures, users, requests *)
(* and clicks.                                                             *)
(***************************************************************************)
EXTENDS VotingPages, SumTheorems

Places == {"sent", "checked", "found", "gone", "done", "refused"}

VoteRequest ==
  [at : Places, user : Users, op : {"vote", "unvote"}, lec : Lectures, waits : BOOLEAN]

MineRequest ==
  [at : {"sent"}, user : {Me}, op : {"mine"}, waits : BOOLEAN] \cup
  [at : {"done"}, user : {Me}, op : {"mine"}, waits : BOOLEAN, list : SUBSET Lectures]

Request == {Idle} \cup VoteRequest \cup MineRequest

VoteTypes ==
  /\ rows \in [Lectures -> [Users -> Nat]]
  /\ counter \in [Lectures -> Int]
  /\ reqs \in [Requests -> Request]
  /\ \A r \in Requests : reqs[r].at \in {"found", "gone"} => reqs[r].op = "unvote"

Same(r, s) == reqs[r].user = reqs[s].user /\ reqs[r].lec = reqs[s].lec

RowsOf(r) == rows[reqs[r].lec][reqs[r].user]

\* A row that was found is there until somebody deletes it, and then it is not
\* found any more.
FoundIsThere == \A r \in Requests : reqs[r].at = "found" => RowsOf(r) >= 1

\* While requests of one user do not interleave, what a request has read is so.
ReadIsSo ==
  /\ \A r, s \in Requests : Between(r) /\ Between(s) /\ Same(r, s) => r = s
  /\ \A r \in Requests : reqs[r].at = "checked" /\ reqs[r].op = "vote" => RowsOf(r) = 0
  /\ \A l \in Lectures, u \in Users : rows[l][u] <= 1

VoteInv == VoteTypes /\ FoundIsThere /\ (~overlapped => ReadIsSo)

-----------------------------------------------------------------------------
LEMMA IsVote ==
  ASSUME VoteTypes, NEW r \in Requests,
         \/ reqs[r].at \in {"checked", "found", "gone", "refused"}
         \/ reqs[r].at \in Places /\ reqs[r].op # "mine"
  PROVE  reqs[r] \in VoteRequest
  <1>1. reqs[r] \in Request
    BY DEF VoteTypes
  <1>2. reqs[r] # Idle
    BY DEF Idle, Places
  <1>3. reqs[r] \notin MineRequest
    BY DEF MineRequest
  <1>. QED
    BY <1>1, <1>2, <1>3 DEF Request

LEMMA VoteFields ==
  ASSUME NEW q \in VoteRequest
  PROVE  /\ q.at \in Places /\ q.user \in Users /\ q.lec \in Lectures
         /\ q.op \in {"vote", "unvote"} /\ q.waits \in BOOLEAN /\ q # Idle
  BY DEF VoteRequest, Places, Idle

\* A request goes to another place, and nothing else about it changes.
LEMMA Retag ==
  ASSUME VoteTypes, NEW r \in Requests, reqs[r] \in VoteRequest, NEW a \in Places,
         a \in {"found", "gone"} => reqs[r].op = "unvote",
         reqs' = [reqs EXCEPT ![r].at = a], rows' \in [Lectures -> [Users -> Nat]],
         counter' \in [Lectures -> Int]
  PROVE  /\ VoteTypes' /\ reqs'[r] \in VoteRequest /\ reqs'[r].at = a
         /\ reqs'[r].user = reqs[r].user /\ reqs'[r].op = reqs[r].op
         /\ reqs'[r].lec = reqs[r].lec /\ reqs'[r].waits = reqs[r].waits
         /\ \A s \in Requests \ {r} : reqs'[s] = reqs[s]
  <1>. DEFINE q == [reqs[r] EXCEPT !.at = a]
  <1>1. q \in VoteRequest /\ q.at = a /\ q.user = reqs[r].user /\ q.op = reqs[r].op
          /\ q.lec = reqs[r].lec /\ q.waits = reqs[r].waits
    BY DEF VoteRequest
  <1>2. reqs' = [reqs EXCEPT ![r] = q]
    OBVIOUS
  <1>. HIDE DEF q
  <1>3. reqs'[r] = q /\ \A s \in Requests \ {r} : reqs'[s] = reqs[s]
    BY <1>2 DEF VoteTypes
  <1>4. reqs' \in [Requests -> Request]
    BY <1>1, <1>2 DEF VoteTypes, Request
  <1>5. \A s \in Requests : reqs'[s].at \in {"found", "gone"} => reqs'[s].op = "unvote"
    BY <1>1, <1>3 DEF VoteTypes
  <1>. QED
    BY <1>1, <1>3, <1>4, <1>5 DEF VoteTypes

LEMMA VotingInitial == Init => VoteInv
  BY DEF Init, VoteInv, VoteTypes, FoundIsThere, ReadIsSo, Idle, Request, Between, RowsOf

LEMMA CheckStep ==
  ASSUME VoteInv, NEW r \in Requests, Check(r)
  PROVE  VoteInv'
  <1>. USE DEF VoteInv
  <1>1. reqs[r] \in VoteRequest
    BY IsVote DEF Check, Places
  <1>2. PICK a \in {"checked", "refused"} :
          /\ reqs' = [reqs EXCEPT ![r].at = a]
          /\ a = "checked" => (Voted(reqs[r].lec, reqs[r].user) <=> reqs[r].op = "unvote")
    BY DEF Check, Answer
  <1>3. UNCHANGED <<rows, counter>>
    BY DEF Check
  <1>4. /\ VoteTypes' /\ reqs'[r].at = a
        /\ reqs'[r].user = reqs[r].user /\ reqs'[r].op = reqs[r].op /\ reqs'[r].lec = reqs[r].lec
        /\ \A s \in Requests \ {r} : reqs'[s] = reqs[s]
    BY <1>1, <1>2, <1>3, Retag DEF VoteTypes, Places
  <1>5. FoundIsThere'
    BY <1>3, <1>4 DEF FoundIsThere, RowsOf
  <1>6. ASSUME ~overlapped' PROVE ReadIsSo'
    <2>1. ~overlapped /\ \A s \in Requests \ {r} : ~(Between(s) /\ Same(s, r))
      BY <1>6 DEF Check, Same
    <2>2. \A s, t \in Requests : (Between(s) /\ Between(t) /\ Same(s, t))' => s = t
      BY <1>4, <2>1 DEF ReadIsSo, Between, Same
    <2>3. rows[reqs[r].lec][reqs[r].user] \in Nat
      BY <1>1, VoteFields DEF VoteTypes
    <2>4. \A s \in Requests : (reqs[s].at = "checked" /\ reqs[s].op = "vote" => RowsOf(s) = 0)'
      BY <1>2, <1>3, <1>4, <2>1, <2>3 DEF ReadIsSo, RowsOf, Voted
    <2>. QED
      BY <1>3, <2>1, <2>2, <2>4 DEF ReadIsSo
  <1>. QED
    BY <1>4, <1>5, <1>6

LEMMA InsertStep ==
  ASSUME VoteInv, NEW r \in Requests, Insert(r)
  PROVE  VoteInv'
  <1>. USE DEF VoteInv
  <1>. DEFINE l == reqs[r].lec
              u == reqs[r].user
  <1>1. reqs[r] \in VoteRequest /\ reqs[r].at = "checked" /\ reqs[r].op = "vote"
    BY IsVote DEF Insert
  <1>2. l \in Lectures /\ u \in Users
    BY <1>1, VoteFields
  <1>3. /\ reqs' = [reqs EXCEPT ![r].at = "done"]
        /\ rows' = [rows EXCEPT ![l][u] = @ + 1] /\ counter' = [counter EXCEPT ![l] = @ + 1]
        /\ UNCHANGED overlapped
    BY DEF Insert, Answer
  <1>. HIDE DEF l, u
  <1>4. /\ rows' \in [Lectures -> [Users -> Nat]] /\ counter' \in [Lectures -> Int]
        /\ \A k \in Lectures, v \in Users :
             rows'[k][v] = IF k = l /\ v = u THEN rows[k][v] + 1 ELSE rows[k][v]
    BY <1>2, <1>3 DEF VoteTypes
  <1>5. /\ VoteTypes' /\ reqs'[r].at = "done"
        /\ \A s \in Requests \ {r} : reqs'[s] = reqs[s]
    BY <1>1, <1>3, <1>4, Retag DEF Places
  <1>6. \A s \in Requests : reqs[s].at \in {"checked", "found"} =>
          reqs[s].lec \in Lectures /\ reqs[s].user \in Users
    BY IsVote, VoteFields
  <1>7. FoundIsThere'
    <2>. SUFFICES ASSUME NEW s \in Requests, reqs'[s].at = "found" PROVE RowsOf(s)' >= 1
      BY DEF FoundIsThere
    <2>1. s # r /\ reqs'[s] = reqs[s]
      BY <1>5
    <2>2. RowsOf(s) >= 1 /\ RowsOf(s) \in Nat /\ reqs[s].lec \in Lectures /\ reqs[s].user \in Users
      BY <1>6, <2>1 DEF FoundIsThere, RowsOf, VoteTypes
    <2>. QED
      BY <1>4, <2>1, <2>2 DEF RowsOf
  <1>8. ASSUME ~overlapped' PROVE ReadIsSo'
    <2>1. ReadIsSo
      BY <1>3, <1>8
    <2>2. \A s, t \in Requests : (Between(s) /\ Between(t) /\ Same(s, t))' => s = t
      BY <1>5, <2>1 DEF ReadIsSo, Between, Same
    <2>3. \A s \in Requests : (reqs[s].at = "checked" /\ reqs[s].op = "vote" => RowsOf(s) = 0)'
      <3>. SUFFICES ASSUME NEW s \in Requests, (reqs[s].at = "checked" /\ reqs[s].op = "vote")'
                    PROVE  RowsOf(s)' = 0
        OBVIOUS
      <3>1. s # r /\ reqs'[s] = reqs[s]
        BY <1>5
      <3>2. ~Same(s, r)
        BY <1>1, <2>1, <3>1 DEF ReadIsSo, Between
      <3>. QED
        BY <1>4, <1>6, <2>1, <3>1, <3>2 DEF ReadIsSo, RowsOf, Same, l, u
    <2>4. rows[l][u] = 0
      BY <1>1, <2>1 DEF ReadIsSo, RowsOf, l, u
    <2>5. \A k \in Lectures, v \in Users : rows'[k][v] <= 1
      BY <1>4, <2>1, <2>4 DEF ReadIsSo
    <2>. QED
      BY <2>2, <2>3, <2>5 DEF ReadIsSo
  <1>. QED
    BY <1>5, <1>7, <1>8

LEMMA FindStep ==
  ASSUME VoteInv, NEW r \in Requests, Find(r)
  PROVE  VoteInv'
  <1>. USE DEF VoteInv
  <1>1. reqs[r] \in VoteRequest /\ reqs[r].at = "checked" /\ reqs[r].op = "unvote"
    BY IsVote DEF Find
  <1>2. PICK a \in {"found", "refused"} :
          reqs' = [reqs EXCEPT ![r].at = a] /\ (a = "found" => Voted(reqs[r].lec, reqs[r].user))
    BY DEF Find, Answer
  <1>3. UNCHANGED <<rows, counter, overlapped>>
    BY DEF Find
  <1>4. /\ VoteTypes' /\ reqs'[r].at = a
        /\ reqs'[r].user = reqs[r].user /\ reqs'[r].op = reqs[r].op /\ reqs'[r].lec = reqs[r].lec
        /\ \A s \in Requests \ {r} : reqs'[s] = reqs[s]
    BY <1>1, <1>2, <1>3, Retag DEF VoteTypes, Places
  <1>5. RowsOf(r) \in Nat
    BY <1>1, VoteFields DEF VoteTypes, RowsOf
  <1>6. FoundIsThere'
    BY <1>2, <1>3, <1>4, <1>5 DEF FoundIsThere, RowsOf, Voted
  <1>7. ReadIsSo => ReadIsSo'
    BY <1>1, <1>3, <1>4 DEF ReadIsSo, Between, Same, RowsOf
  <1>. QED
    BY <1>3, <1>4, <1>6, <1>7

\* Whoever found the row that is deleted has it no longer; other rows stay.
LEMMA DestroyStep ==
  ASSUME VoteInv, NEW r \in Requests, Destroy(r)
  PROVE  VoteInv'
  <1>. USE DEF VoteInv
  <1>. DEFINE q == reqs[r]
              same == {s \in Requests \ {r} : reqs[s].at = "found" /\ Same(s, r)}
              gone(s) == [reqs[s] EXCEPT !.at = "gone"]
              answered == [q EXCEPT !.at = "done"]
  <1>1. q \in VoteRequest /\ q.at = "found"
    BY IsVote DEF Destroy
  <1>2. q.lec \in Lectures /\ q.user \in Users /\ rows[q.lec][q.user] \in Nat
          /\ rows[q.lec][q.user] >= 1
    BY <1>1, VoteFields DEF VoteTypes, FoundIsThere, RowsOf
  <1>3. /\ reqs' = [s \in Requests |-> IF s = r THEN answered
                                       ELSE IF s \in same THEN gone(s) ELSE reqs[s]]
        /\ rows' = [rows EXCEPT ![q.lec][q.user] = @ - 1]
        /\ counter' = [counter EXCEPT ![q.lec] = @ - 1]
        /\ UNCHANGED overlapped
    BY DEF Destroy, Same
  <1>4. /\ rows' \in [Lectures -> [Users -> Nat]] /\ counter' \in [Lectures -> Int]
        /\ \A k \in Lectures, v \in Users :
             rows'[k][v] = IF k = q.lec /\ v = q.user THEN rows[k][v] - 1 ELSE rows[k][v]
    BY <1>2, <1>3 DEF VoteTypes
  <1>5. answered \in VoteRequest /\ answered.at = "done"
    BY <1>1 DEF VoteRequest, Places
  <1>6. ASSUME NEW s \in same PROVE gone(s) \in VoteRequest /\ gone(s).at = "gone" /\ gone(s).op = "unvote"
    <2>1. reqs[s] \in VoteRequest /\ reqs[s].op = "unvote"
      BY IsVote DEF VoteTypes
    <2>. QED
      BY <2>1 DEF VoteRequest, Places
  <1>. HIDE DEF same, gone, answered
  <1>7. VoteTypes'
    <2>1. reqs' \in [Requests -> Request]
      BY <1>3, <1>5, <1>6 DEF VoteTypes, Request
    <2>2. \A s \in Requests : reqs'[s].at \in {"found", "gone"} => reqs'[s].op = "unvote"
      BY <1>3, <1>5, <1>6 DEF VoteTypes
    <2>. QED
      BY <1>4, <2>1, <2>2 DEF VoteTypes
  <1>8. \A s \in Requests : Between(s)' => s # r /\ s \notin same /\ reqs'[s] = reqs[s]
    BY <1>3, <1>5, <1>6 DEF Between
  <1>9. FoundIsThere'
    <2>. SUFFICES ASSUME NEW s \in Requests, reqs'[s].at = "found" PROVE RowsOf(s)' >= 1
      BY DEF FoundIsThere
    <2>1. s # r /\ s \notin same /\ reqs'[s] = reqs[s]
      BY <1>8 DEF Between
    <2>2. ~Same(s, r)
      BY <2>1 DEF same
    <2>3. reqs[s].lec \in Lectures /\ reqs[s].user \in Users /\ RowsOf(s) >= 1
      BY <2>1, IsVote, VoteFields DEF FoundIsThere
    <2>. QED
      BY <1>4, <2>1, <2>2, <2>3 DEF RowsOf, Same
  <1>10. ASSUME ReadIsSo PROVE ReadIsSo'
    <2>1. \A s, t \in Requests : (Between(s) /\ Between(t) /\ Same(s, t))' => s = t
      BY <1>8, <1>10 DEF ReadIsSo, Between, Same
    <2>2. \A s \in Requests : (reqs[s].at = "checked" /\ reqs[s].op = "vote" => RowsOf(s) = 0)'
      <3>. SUFFICES ASSUME NEW s \in Requests, (reqs[s].at = "checked" /\ reqs[s].op = "vote")'
                    PROVE  RowsOf(s)' = 0
        OBVIOUS
      <3>1. s # r /\ reqs'[s] = reqs[s]
        BY <1>8 DEF Between
      <3>2. ~Same(s, r)
        BY <1>1, <1>10, <3>1 DEF ReadIsSo, Between
      <3>3. reqs[s].lec \in Lectures /\ reqs[s].user \in Users /\ RowsOf(s) = 0
        BY <1>10, <3>1, IsVote, VoteFields DEF ReadIsSo
      <3>. QED
        BY <1>4, <3>1, <3>2, <3>3 DEF RowsOf, Same
    <2>3. \A k \in Lectures, v \in Users : rows'[k][v] <= 1
      BY <1>4, <1>10 DEF ReadIsSo, VoteTypes
    <2>. QED
      BY <2>1, <2>2, <2>3 DEF ReadIsSo
  <1>. QED
    BY <1>3, <1>7, <1>9, <1>10

\* Steps that send, answer or forget requests leave the tables, and the
\* requests between two accesses, as they are.
LEMMA Elsewhere ==
  ASSUME VoteInv, reqs' \in [Requests -> Request], UNCHANGED <<rows, counter, overlapped>>,
         \A s \in Requests : reqs'[s].at \in {"checked", "found", "gone"} =>
           /\ reqs'[s].at = reqs[s].at /\ reqs'[s].op = reqs[s].op
           /\ reqs'[s].user = reqs[s].user /\ reqs'[s].lec = reqs[s].lec
  PROVE  VoteInv'
  <1>. USE DEF VoteInv
  <1>1. VoteTypes'
    BY DEF VoteTypes
  <1>2. FoundIsThere'
    BY DEF FoundIsThere, RowsOf
  <1>3. ReadIsSo => ReadIsSo'
    BY DEF ReadIsSo, Between, Same, RowsOf
  <1>. QED
    BY <1>1, <1>2, <1>3

\* One request is replaced by another record.
LEMMA Replaced ==
  ASSUME VoteInv, NEW r \in Requests, NEW q \in Request, reqs' = [reqs EXCEPT ![r] = q],
         q.at \notin {"checked", "found", "gone"}, UNCHANGED <<rows, counter, overlapped>>
  PROVE  VoteInv'
  <1>1. reqs'[r] = q /\ \A s \in Requests \ {r} : reqs'[s] = reqs[s]
    BY DEF VoteInv, VoteTypes
  <1>2. reqs' \in [Requests -> Request]
    BY DEF VoteInv, VoteTypes
  <1>. QED
    BY <1>1, <1>2, Elsewhere

LEMMA Emptied ==
  ASSUME VoteInv, NEW r \in Requests, reqs' = [reqs EXCEPT ![r] = Idle],
         UNCHANGED <<rows, counter, overlapped>>
  PROVE  VoteInv'
  <1>1. Idle \in Request /\ Idle.at = "idle"
    BY DEF Request, Idle
  <1>. QED
    BY <1>1, Replaced

LEMMA Sent ==
  ASSUME VoteInv, NEW r \in Requests, NEW u \in Users, NEW op \in {"vote", "unvote"},
         NEW l \in Lectures, Send(r, u, op, l), UNCHANGED <<rows, counter, overlapped>>
  PROVE  VoteInv'
  <1>. DEFINE q == [at |-> "sent", user |-> u, op |-> op, lec |-> l, waits |-> u = Me]
  <1>1. q \in Request /\ q.at = "sent"
    BY DEF Request, VoteRequest, Places
  <1>2. reqs' = [reqs EXCEPT ![r] = q]
    BY DEF Send
  <1>. HIDE DEF q
  <1>. QED
    BY <1>1, <1>2, Replaced

LEMMA OpenStep == ASSUME VoteInv, Open PROVE VoteInv'
  <1>. DEFINE left(s) == [reqs[s] EXCEPT !.waits = FALSE]
  <1>1. reqs' = [s \in Requests |-> IF Mine(s) THEN left(s) ELSE reqs[s]]
    BY DEF Open
  <1>2. ASSUME NEW s \in Requests, Mine(s)
        PROVE  /\ left(s) \in Request /\ left(s).at = reqs[s].at /\ left(s).op = reqs[s].op
               /\ left(s).user = reqs[s].user
               /\ reqs[s].at \in {"checked", "found", "gone"} => left(s).lec = reqs[s].lec
    <2>1. CASE reqs[s] \in VoteRequest
      BY <2>1 DEF Request, VoteRequest
    <2>2. CASE reqs[s] \in [at : {"sent"}, user : {Me}, op : {"mine"}, waits : BOOLEAN]
      BY <2>2 DEF Request, MineRequest
    <2>3. CASE reqs[s] \in [at : {"done"}, user : {Me}, op : {"mine"}, waits : BOOLEAN,
                            list : SUBSET Lectures]
      BY <2>3 DEF Request, MineRequest
    <2>. QED
      BY <1>2, <2>1, <2>2, <2>3 DEF Mine, VoteInv, VoteTypes, Request, MineRequest
  <1>. HIDE DEF left
  <1>3. reqs' \in [Requests -> Request]
    BY <1>1, <1>2 DEF VoteInv, VoteTypes
  <1>. QED
    BY <1>1, <1>2, <1>3, Elsewhere DEF Open

LEMMA DestroyGoneStep == ASSUME VoteInv, NEW r \in Requests, DestroyGone(r) PROVE VoteInv'
  <1>. DEFINE q == [reqs[r] EXCEPT !.at = "done"]
  <1>1. reqs[r] \in VoteRequest
    BY IsVote DEF DestroyGone, VoteInv
  <1>2. q \in Request /\ q.at = "done"
    BY <1>1 DEF Request, VoteRequest, Places
  <1>3. reqs' = [reqs EXCEPT ![r] = q]
    BY DEF DestroyGone, Answer
  <1>. HIDE DEF q
  <1>. QED
    BY <1>2, <1>3, Replaced DEF DestroyGone

LEMMA ListMineStep == ASSUME VoteInv, NEW r \in Requests, ListMine(r) PROVE VoteInv'
  <1>. DEFINE q == [at |-> "done", user |-> Me, op |-> "mine", waits |-> reqs[r].waits,
                    list |-> MyVotes]
  <1>1. reqs[r].waits \in BOOLEAN
    <2>1. reqs[r] \in Request /\ reqs[r].at = "sent"
      BY DEF ListMine, VoteInv, VoteTypes
    <2>. QED
      BY <2>1 DEF Request, VoteRequest, MineRequest, Idle
  <1>2. q \in Request /\ q.at = "done"
    BY <1>1 DEF Request, MineRequest, MyVotes
  <1>3. reqs' = [reqs EXCEPT ![r] = q]
    BY DEF ListMine
  <1>. HIDE DEF q
  <1>. QED
    BY <1>2, <1>3, Replaced DEF ListMine

LEMMA ToggleMyStep == ASSUME VoteInv, NEW r \in Requests, ToggleMy(r) PROVE VoteInv'
  <1>. DEFINE q == [at |-> "sent", user |-> Me, op |-> "mine", waits |-> TRUE]
  <1>1. q \in Request /\ q.at = "sent"
    BY DEF Request, MineRequest
  <1>2. reqs' = [reqs EXCEPT ![r] = q]
    BY DEF ToggleMy
  <1>. HIDE DEF q
  <1>. QED
    BY <1>1, <1>2, Replaced DEF ToggleMy

LEMMA VotingStep == VoteInv /\ [Next]_vars => VoteInv'
  <1>. SUFFICES ASSUME VoteInv, [Next]_vars PROVE VoteInv'
    OBVIOUS
  <1>1. ASSUME NEW r \in Requests, Serve(r) PROVE VoteInv'
    BY <1>1, CheckStep, InsertStep, FindStep, DestroyStep, DestroyGoneStep, ListMineStep DEF Serve
  <1>2. ASSUME NEW r \in Requests, Forget(r) \/ MyAnswered(r) \/ ListAnswered(r) \/ LectureAnswered(r)
        PROVE  VoteInv'
    <2>1. reqs' = [reqs EXCEPT ![r] = Idle] /\ UNCHANGED <<rows, counter, overlapped>>
      BY <1>2 DEF Forget, MyAnswered, ListAnswered, LectureAnswered
    <2>. QED
      BY <2>1, Emptied
  <1>3. ASSUME NEW r \in Requests, OtherVotes(r) PROVE VoteInv'
    BY <1>3, Sent, VotingAssumption DEF OtherVotes
  <1>4. ASSUME NEW r \in Requests, NEW l \in Lectures, ClickVote(r, l) \/ ClickLecture(r, l)
        PROVE  VoteInv'
    <2>1. PICK op \in {"vote", "unvote"} : Send(r, Me, op, l) /\ UNCHANGED <<rows, counter, overlapped>>
      BY <1>4 DEF ClickVote, ClickLecture
    <2>. QED
      BY <2>1, Sent, VotingAssumption
  <1>5. ASSUME NEW s \in Sections, ToggleFilter(s) PROVE VoteInv'
    BY <1>5, Elsewhere DEF ToggleFilter, VoteInv, VoteTypes
  <1>6. CASE UNCHANGED vars
    BY <1>6, Elsewhere DEF vars, VoteInv, VoteTypes
  <1>. QED
    BY <1>1, <1>2, <1>3, <1>4, <1>5, <1>6, OpenStep, ToggleMyStep DEF Next

\* vote_by counts nobody twice unless two requests of the user for the lecture
\* interleave (voting_extension.rb:10-12).
THEOREM OneVoteEachAlways == Spec => []OneVoteEach
  <1>1. VoteInv => OneVoteEach
    BY DEF VoteInv, ReadIsSo, OneVoteEach
  <1>. QED
    BY <1>1, VotingInitial, VotingStep, PTL DEF Spec

-----------------------------------------------------------------------------
(* The pages.                                                              *)

PageTypes ==
  page \in [kind : {"list", "schedule"}, clicks : 0..MaxClicks, my : BOOLEAN,
            checked : SUBSET Sections, disable : SUBSET Lectures, enable : SUBSET Lectures,
            added : SUBSET Lectures, shown : [Lectures -> Int], others : [Lectures -> Int]]

Have(l) == IF Voted(l, Me) THEN 1 ELSE 0

\* What the pages show when nothing is unsettled; the list with these buttons
\* and numbers, the schedule with these lectures dimmed.
ListRight(added, shown) ==
  added = MyVotes /\ \A l \in Lectures : shown[l] = page.others[l] + Have(l)

DimRight(dimmed) ==
  dimmed = IF page.my THEN Lectures \ MyVotes
           ELSE IF page.checked = {} THEN {}
           ELSE {l \in Lectures : SectionOf[l] \notin page.checked}

PageRight ==
  IF page.kind = "list" THEN ListRight(page.added, page.shown)
  ELSE DimRight(Dimmed) /\ (page.my => page.checked = {})

\* What the answer to q will make of the page.
AddedAfter(q) == IF q.op = "vote" THEN page.added \cup {q.lec} ELSE page.added \ {q.lec}
ShownAfter(q) == [page.shown EXCEPT ![q.lec] = IF q.op = "vote" THEN @ + 1 ELSE @ - 1]
DimmedAfter(q) == IF q.op = "vote" THEN Dimmed \ {q.lec} ELSE Dimmed \cup {q.lec}

RightAfter(q) ==
  IF page.kind = "list" THEN ListRight(AddedAfter(q), ShownAfter(q))
  ELSE DimmedAfter(q) = Lectures \ MyVotes

\* The visitor's one request, a vote: the page is right until it takes effect,
\* and from then on the answer will make it right.
VoteUnderWay(q) ==
  /\ q.at \in {"sent", "checked", "found", "done"}
  /\ page.kind = "schedule" => page.my /\ page.checked = {}
  /\ IF q.at = "done" THEN RightAfter(q)
     ELSE PageRight /\ (Voted(q.lec, Me) <=> q.op = "unvote")

\* Or the question for the visitor's votes.
QuestionUnderWay(q) ==
  (~page.my => page.checked = {}) /\ (q.at = "done" => q.list = MyVotes)

Waited ==
  /\ \A l \in Lectures : rows[l][Me] <= 1
  /\ \A r, s \in Requests : Mine(r) /\ Mine(s) => r = s
  /\ \A r \in Requests : Mine(r) =>
       /\ reqs[r].waits
       /\ IF reqs[r].op = "mine" THEN QuestionUnderWay(reqs[r]) ELSE VoteUnderWay(reqs[r])
  /\ ~Busy => PageRight

\* The question is only asked, and waited for, on the schedule.
QuestionOfSchedule ==
  \A r \in Requests : Mine(r) /\ reqs[r].waits /\ reqs[r].op = "mine" => page.kind = "schedule"

PageInv == PageTypes /\ QuestionOfSchedule /\ (~crossed => Waited)

-----------------------------------------------------------------------------
LEMMA Unserved ==
  ASSUME VoteTypes, NEW r \in Requests, Serve(r)
  PROVE  /\ reqs[r] # Idle /\ UNCHANGED <<page, crossed>>
         /\ reqs[r] \in VoteRequest \/ (ListMine(r) /\ reqs[r] \in MineRequest)
  <1>1. CASE ListMine(r)
    <2>1. reqs[r] \in Request /\ reqs[r].at = "sent" /\ reqs[r].op = "mine"
      BY <1>1 DEF ListMine, VoteTypes
    <2>2. reqs[r] # Idle /\ reqs[r] \notin VoteRequest
      BY <2>1 DEF Idle, VoteRequest
    <2>. QED
      BY <1>1, <2>1, <2>2 DEF Request, ListMine
  <1>2. CASE Check(r) \/ Insert(r) \/ Find(r) \/ Destroy(r) \/ DestroyGone(r)
    <2>1. reqs[r] \in VoteRequest
      BY <1>2, IsVote DEF Check, Insert, Find, Destroy, DestroyGone, Places
    <2>. QED
      BY <1>2, <2>1, VoteFields DEF Check, Insert, Find, Destroy, DestroyGone
  <1>. QED
    BY <1>1, <1>2 DEF Serve

\* The server changes nothing about who asks what, and nothing at all about
\* other requests, except those that have lost the row they found.
LEMMA ServedFields ==
  ASSUME VoteTypes, NEW r \in Requests, Serve(r)
  PROVE  /\ \A s \in Requests : reqs'[s] = Idle <=> reqs[s] = Idle
         /\ \A s \in Requests : /\ reqs'[s].user = reqs[s].user /\ reqs'[s].op = reqs[s].op
                                /\ reqs'[s].waits = reqs[s].waits
         /\ \A s \in Requests \ {r} : reqs'[s] = reqs[s] \/ Same(s, r)
  <1>1. CASE Check(r) \/ Insert(r) \/ Find(r) \/ DestroyGone(r)
    <2>1. PICK a \in {"checked", "found", "done", "refused"} : reqs' = [reqs EXCEPT ![r].at = a]
      BY <1>1 DEF Check, Insert, Find, DestroyGone, Answer
    <2>2. reqs[r] \in VoteRequest
      BY <1>1, IsVote DEF Check, Insert, Find, DestroyGone, Places
    <2>. DEFINE q == [reqs[r] EXCEPT !.at = a]
    <2>3. /\ q # Idle /\ reqs[r] # Idle
          /\ q.user = reqs[r].user /\ q.op = reqs[r].op /\ q.waits = reqs[r].waits
      BY <2>1, <2>2 DEF VoteRequest, Idle, Places
    <2>4. reqs' = [reqs EXCEPT ![r] = q]
      BY <2>1
    <2>. HIDE DEF q
    <2>5. reqs'[r] = q /\ \A s \in Requests \ {r} : reqs'[s] = reqs[s]
      BY <2>4 DEF VoteTypes
    <2>. QED
      BY <2>3, <2>5
  <1>2. CASE ListMine(r)
    <2>. DEFINE q == [at |-> "done", user |-> Me, op |-> "mine", waits |-> reqs[r].waits,
                      list |-> MyVotes]
    <2>1. reqs[r] \in MineRequest /\ reqs[r].op = "mine"
      BY <1>2, Unserved DEF Serve, ListMine, VoteRequest
    <2>2. reqs[r].user = Me /\ reqs[r] # Idle /\ q # Idle
            /\ q.user = Me /\ q.op = "mine" /\ q.waits = reqs[r].waits
      BY <2>1 DEF MineRequest, Idle
    <2>3. reqs' = [reqs EXCEPT ![r] = q]
      BY <1>2 DEF ListMine
    <2>. HIDE DEF q
    <2>4. reqs'[r] = q /\ \A s \in Requests \ {r} : reqs'[s] = reqs[s]
      BY <2>3 DEF VoteTypes
    <2>. QED
      BY <2>1, <2>2, <2>4
  <1>3. CASE Destroy(r)
    <2>. DEFINE same == {s \in Requests \ {r} : reqs[s].at = "found" /\ Same(s, r)}
                gone(s) == [reqs[s] EXCEPT !.at = "gone"]
                answered == [reqs[r] EXCEPT !.at = "done"]
    <2>1. reqs' = [s \in Requests |-> IF s = r THEN answered
                                      ELSE IF s \in same THEN gone(s) ELSE reqs[s]]
      BY <1>3 DEF Destroy, Same
    <2>2. /\ answered # Idle /\ reqs[r] # Idle /\ answered.user = reqs[r].user
          /\ answered.op = reqs[r].op /\ answered.waits = reqs[r].waits
      <3>1. reqs[r] \in VoteRequest
        BY <1>3, IsVote DEF Destroy
      <3>. QED
        BY <3>1 DEF VoteRequest, Idle, Places
    <2>3. ASSUME NEW s \in same
          PROVE  /\ gone(s) # Idle /\ reqs[s] # Idle /\ gone(s).user = reqs[s].user
                 /\ gone(s).op = reqs[s].op /\ gone(s).waits = reqs[s].waits
      <3>1. reqs[s] \in VoteRequest
        BY IsVote
      <3>. QED
        BY <3>1 DEF VoteRequest, Idle, Places
    <2>4. \A s \in same : Same(s, r)
      OBVIOUS
    <2>. HIDE DEF same, gone, answered
    <2>. QED
      BY <2>1, <2>2, <2>3, <2>4
  <1>. QED
    BY <1>1, <1>2, <1>3 DEF Serve

LEMMA ServedMine ==
  ASSUME VoteTypes, NEW r \in Requests, Serve(r)
  PROVE  \A s \in Requests : Mine(s)' <=> Mine(s)
  BY ServedFields DEF Mine

LEMMA ServedQuestion ==
  ASSUME VoteTypes, QuestionOfSchedule, NEW r \in Requests, Serve(r)
  PROVE  QuestionOfSchedule'
  BY ServedFields, ServedMine, Unserved DEF QuestionOfSchedule

\* What the pages show depends on the visitor's rows and on the page only.
LEMMA VotesFramed ==
  ASSUME UNCHANGED page, \A l \in Lectures : rows'[l][Me] = rows[l][Me]
  PROVE  /\ MyVotes' = MyVotes /\ Dimmed' = Dimmed
         /\ \A l \in Lectures : (Voted(l, Me)' <=> Voted(l, Me)) /\ Have(l)' = Have(l)
         /\ PageRight' <=> PageRight
  <1>1. /\ MyVotes' = MyVotes /\ Dimmed' = Dimmed
        /\ \A l \in Lectures : (Voted(l, Me)' <=> Voted(l, Me)) /\ Have(l)' = Have(l)
    BY DEF MyVotes, Voted, Have, Dimmed
  <1>. QED
    BY <1>1 DEF PageRight, ListRight, DimRight

LEMMA Framed ==
  ASSUME VoteTypes, Waited, UNCHANGED page, \A l \in Lectures : rows'[l][Me] = rows[l][Me],
         \A s \in Requests : (Mine(s)' <=> Mine(s)) /\ (Mine(s) => reqs'[s] = reqs[s])
  PROVE  Waited'
  <1>1. /\ \A l \in Lectures : (rows[l][Me] <= 1)'
        /\ \A r, s \in Requests : (Mine(r) /\ Mine(s))' => r = s
    BY DEF Waited
  <1>2. (~Busy => PageRight)'
    BY VotesFramed DEF Waited, Busy
  <1>3. ASSUME NEW r \in Requests, Mine(r)'
        PROVE  /\ reqs'[r].waits
               /\ IF reqs'[r].op = "mine" THEN QuestionUnderWay(reqs[r])' ELSE VoteUnderWay(reqs[r])'
    <2>1. Mine(r) /\ reqs'[r] = reqs[r]
      BY <1>3
    <2>2. CASE reqs[r].op = "mine"
      BY <2>1, <2>2, VotesFramed DEF Waited, QuestionUnderWay
    <2>3. CASE reqs[r].op # "mine"
      <3>1. VoteUnderWay(reqs[r]) /\ reqs[r].lec \in Lectures
        <4>1. reqs[r] \in VoteRequest
          BY <2>1, <2>3, IsVote DEF Waited, VoteUnderWay, Places
        <4>. QED
          BY <2>1, <2>3, <4>1, VoteFields DEF Waited
      <3>2. VoteUnderWay(reqs[r])'
        BY <2>1, <3>1, VotesFramed
           DEF VoteUnderWay, RightAfter, ListRight, AddedAfter, ShownAfter, DimmedAfter
      <3>. QED
        BY <2>1, <2>3, <3>2 DEF Waited
    <2>. QED
      BY <2>2, <2>3
  <1>. QED
    BY <1>1, <1>2, <1>3 DEF Waited

\* A step after which q is the visitor's only request.
LEMMA OnlyMine ==
  ASSUME NEW r \in Requests, NEW q, reqs'[r] = q, Mine(r)', q.waits = TRUE,
         \A s \in Requests \ {r} : ~Mine(s)',
         \A l \in Lectures : rows'[l][Me] <= 1,
         IF q.op = "mine" THEN QuestionUnderWay(q)' ELSE VoteUnderWay(q)'
  PROVE  Waited'
  <1>1. IF reqs'[r].op = "mine" THEN QuestionUnderWay(reqs[r])' ELSE VoteUnderWay(reqs[r])'
    BY DEF QuestionUnderWay, VoteUnderWay, RightAfter, ListRight, AddedAfter, ShownAfter, DimmedAfter
  <1>2. Busy'
    BY DEF Busy
  <1>. QED
    BY <1>1, <1>2 DEF Waited

LEMMA NoneMine ==
  ASSUME \A s \in Requests : ~Mine(s)', \A l \in Lectures : rows'[l][Me] <= 1, PageRight'
  PROVE  Waited'
  BY DEF Waited

\* The vote takes effect on the server, and its answer will show it.
LEMMA TakesEffect ==
  ASSUME PageTypes, PageRight, UNCHANGED page, page.kind = "schedule" => page.my,
         NEW q \in VoteRequest, Voted(q.lec, Me) <=> q.op = "unvote",
         \A k \in Lectures \ {q.lec} : rows'[k][Me] = rows[k][Me],
         Voted(q.lec, Me)' <=> q.op = "vote"
  PROVE  RightAfter(q)'
  <1>1. q.lec \in Lectures /\ q.op \in {"vote", "unvote"}
    BY VoteFields
  <1>2. \A k \in Lectures : Voted(k, Me)' <=> IF k = q.lec THEN q.op = "vote" ELSE Voted(k, Me)
    BY <1>1 DEF Voted
  <1>3. MyVotes' = IF q.op = "vote" THEN MyVotes \cup {q.lec} ELSE MyVotes \ {q.lec}
    BY <1>1, <1>2 DEF MyVotes
  <1>4. CASE page.kind = "list"
    <2>1. page.added = MyVotes /\ \A l \in Lectures : page.shown[l] = page.others[l] + Have(l)
      BY <1>4 DEF PageRight, ListRight
    <2>2. AddedAfter(q)' = MyVotes'
      BY <1>3, <2>1 DEF AddedAfter
    <2>3. ASSUME NEW l \in Lectures PROVE ShownAfter(q)'[l] = page'.others[l] + Have(l)'
      <3>1. page.shown \in [Lectures -> Int] /\ page.others[l] \in Int
        BY DEF PageTypes
      <3>2. CASE l = q.lec
        BY <1>1, <1>2, <2>1, <3>1, <3>2 DEF ShownAfter, Have
      <3>3. CASE l # q.lec
        BY <1>2, <2>1, <3>1, <3>3 DEF ShownAfter, Have
      <3>. QED
        BY <3>2, <3>3
    <2>. QED
      BY <1>4, <2>2, <2>3 DEF RightAfter, ListRight
  <1>5. CASE page.kind = "schedule"
    <2>1. Dimmed = Lectures \ MyVotes /\ Dimmed' = Dimmed
      BY <1>5 DEF PageRight, DimRight, Dimmed
    <2>2. DimmedAfter(q)' = IF q.op = "vote" THEN Dimmed \ {q.lec} ELSE Dimmed \cup {q.lec}
      BY <2>1 DEF DimmedAfter
    <2>. QED
      BY <1>1, <1>3, <1>5, <2>1, <2>2 DEF RightAfter
  <1>. QED
    BY <1>4, <1>5 DEF PageTypes

\* A request of somebody else is served: the visitor's page and rows stay.
LEMMA OthersServed ==
  ASSUME VoteInv, PageInv, ~crossed, NEW r \in Requests, Serve(r), ~Mine(r)
  PROVE  Waited'
  <1>. USE DEF VoteInv
  <1>1. reqs[r] \in VoteRequest /\ reqs[r].user # Me
    <2>1. reqs[r].user # Me
      BY Unserved DEF Mine
    <2>. QED
      BY <2>1, Unserved DEF MineRequest
  <1>2. \A l \in Lectures : rows'[l][Me] = rows[l][Me]
    <2>1. reqs[r].lec \in Lectures /\ reqs[r].user \in Users
      BY <1>1, VoteFields
    <2>2. CASE Insert(r) \/ Destroy(r)
      <3>1. PICK d : rows' = [rows EXCEPT ![reqs[r].lec][reqs[r].user] = d]
        BY <2>2 DEF Insert, Destroy
      <3>. QED
        BY <1>1, <2>1, <3>1 DEF VoteTypes
    <2>3. CASE ~(Insert(r) \/ Destroy(r))
      BY <2>3 DEF Serve, Check, Find, DestroyGone, ListMine
    <2>. QED
      BY <2>2, <2>3
  <1>3. \A s \in Requests : Mine(s) => reqs'[s] = reqs[s]
    BY <1>1, ServedFields DEF Mine, Same
  <1>. QED
    BY <1>2, <1>3, ServedMine, Unserved, Framed DEF PageInv

\* The visitor's request is served: it is alone, and its answer will be right.
LEMMA MineServed ==
  ASSUME VoteInv, PageInv, ~crossed, NEW r \in Requests, Serve(r), Mine(r)
  PROVE  Waited'
  <1>. USE DEF VoteInv
  <1>1. /\ Waited /\ PageTypes /\ UNCHANGED page
        /\ Mine(r)' /\ \A s \in Requests \ {r} : ~Mine(s)'
    BY ServedMine, Unserved DEF PageInv, Waited
  <1>2. CASE ListMine(r)
    <2>. DEFINE q == [at |-> "done", user |-> Me, op |-> "mine", waits |-> reqs[r].waits,
                      list |-> MyVotes]
    <2>1. reqs[r].op = "mine" /\ reqs[r].waits /\ (~page.my => page.checked = {})
            /\ reqs[r] \in MineRequest
      BY <1>1, <1>2, Unserved DEF ListMine, Waited, QuestionUnderWay, VoteRequest
    <2>2. reqs' = [reqs EXCEPT ![r] = q] /\ rows' = rows
      BY <1>2 DEF ListMine
    <2>3. reqs'[r] = q /\ q.waits = TRUE /\ q.op = "mine" /\ q.list = MyVotes
      BY <2>1, <2>2 DEF VoteTypes, MineRequest
    <2>4. MyVotes' = MyVotes
      BY <1>1, <2>2, VotesFramed
    <2>5. \A l \in Lectures : rows'[l][Me] <= 1
      BY <1>1, <2>2 DEF Waited
    <2>. HIDE DEF q
    <2>6. PICK p : p = q
      OBVIOUS
    <2>7. reqs'[r] = p /\ p.waits = TRUE /\ p.op = "mine" /\ QuestionUnderWay(p)'
      BY <1>1, <2>1, <2>3, <2>4, <2>6 DEF QuestionUnderWay
    <2>. QED
      BY <1>1, <2>5, <2>7, OnlyMine
  <1>3. CASE ~ListMine(r)
    <2>1. reqs[r] \in VoteRequest
      BY <1>3, Unserved
    <2>. PICK l : l = reqs[r].lec
      OBVIOUS
    <2>2. /\ reqs[r].op \in {"vote", "unvote"} /\ l \in Lectures /\ reqs[r].user = Me
          /\ reqs[r].waits = TRUE /\ VoteUnderWay(reqs[r])
      BY <1>1, <2>1, VoteFields DEF Waited, Mine
    <2>3. /\ reqs[r].at \in {"sent", "checked", "found"} /\ PageRight
          /\ Voted(l, Me) <=> reqs[r].op = "unvote"
      <3>1. reqs[r].at # "done"
        BY <1>3 DEF Serve, Check, Insert, Find, Destroy, DestroyGone
      <3>. QED
        BY <2>2, <3>1 DEF VoteUnderWay
    <2>4. Me \in Users /\ rows[l][Me] \in Nat /\ rows[l][Me] <= 1
      BY <1>1, <2>2, VotingAssumption DEF VoteTypes, Waited
    <2>5. CASE Check(r) \/ Find(r)
      <3>1. PICK a \in {"checked", "found"} :
              reqs' = [reqs EXCEPT ![r].at = a] /\ rows' = rows /\ counter' = counter
                /\ (a = "found" => reqs[r].op = "unvote")
        <4>1. CASE Check(r)
          <5>1. Voted(reqs[r].lec, reqs[r].user) <=> reqs[r].op = "unvote"
            BY <2>2, <2>3
          <5>2. Voted(reqs[r].lec, reqs[r].user) = (reqs[r].op = "unvote")
            BY <5>1 DEF Voted
          <5>3. reqs' = [reqs EXCEPT ![r].at = "checked"] /\ rows' = rows /\ counter' = counter
            BY <4>1, <5>2 DEF Check
          <5>. QED
            BY <5>3
        <4>2. CASE Find(r)
          BY <2>2, <2>3, <4>2 DEF Find
        <4>. QED
          BY <2>5, <4>1, <4>2
      <3>2. PICK p \in VoteRequest : p = reqs'[r] /\ p.at = a /\ p.op = reqs[r].op
                                     /\ p.lec = l /\ p.waits = TRUE
        <4>1. a \in Places /\ (a \in {"found", "gone"} => reqs[r].op = "unvote")
          BY <3>1 DEF Places
        <4>2. rows' \in [Lectures -> [Users -> Nat]] /\ counter' \in [Lectures -> Int]
          BY <3>1 DEF VoteTypes
        <4>3. /\ reqs'[r] \in VoteRequest /\ reqs'[r].at = a /\ reqs'[r].op = reqs[r].op
              /\ reqs'[r].lec = l /\ reqs'[r].waits = TRUE
          BY <2>1, <2>2, <3>1, <4>1, <4>2, Retag
        <4>. QED
          BY <4>3
      <3>3. PageRight' /\ (Voted(l, Me)' <=> Voted(l, Me))
        <4>1. \A k \in Lectures : rows'[k][Me] = rows[k][Me]
          BY <3>1
        <4>. QED
          BY <1>1, <2>2, <2>3, <4>1, VotesFramed
      <3>4. VoteUnderWay(p)'
        BY <1>1, <2>2, <2>3, <3>2, <3>3 DEF VoteUnderWay
      <3>5. \A k \in Lectures : rows'[k][Me] <= 1
        BY <1>1, <3>1 DEF Waited
      <3>. QED
        BY <1>1, <2>2, <3>2, <3>4, <3>5, OnlyMine
    <2>6. CASE Insert(r) \/ Destroy(r)
      <3>1. /\ \A k \in Lectures \ {l} : rows'[k][Me] = rows[k][Me]
            /\ rows'[l][Me] \in {0, 1}
            /\ Voted(l, Me)' <=> reqs[r].op = "vote"
        <4>1. CASE Insert(r)
          <5>1. rows' = [rows EXCEPT ![l][Me] = @ + 1] /\ reqs[r].op = "vote"
            BY <2>2, <4>1 DEF Insert
          <5>2. rows[l][Me] = 0
            BY <2>3, <2>4, <5>1 DEF Voted
          <5>3. rows'[l][Me] = 1 /\ \A k \in Lectures \ {l} : rows'[k][Me] = rows[k][Me]
            BY <2>2, <2>4, <5>1, <5>2 DEF VoteTypes
          <5>. QED
            BY <5>1, <5>3 DEF Voted
        <4>2. CASE Destroy(r)
          <5>1. rows' = [rows EXCEPT ![l][Me] = @ - 1] /\ reqs[r].op = "unvote"
            BY <2>2, <4>2 DEF Destroy, VoteTypes
          <5>2. rows[l][Me] = 1
            BY <2>3, <2>4, <5>1 DEF Voted
          <5>3. rows'[l][Me] = 0 /\ \A k \in Lectures \ {l} : rows'[k][Me] = rows[k][Me]
            BY <2>2, <2>4, <5>1, <5>2 DEF VoteTypes
          <5>. QED
            BY <5>1, <5>3 DEF Voted
        <4>. QED
          BY <2>6, <4>1, <4>2
      <3>2. reqs'[r] = [reqs[r] EXCEPT !.at = "done"]
        BY <2>6 DEF Insert, Destroy, Answer, VoteTypes
      <3>3. PICK p \in VoteRequest : p = reqs'[r] /\ p.at = "done" /\ p.op = reqs[r].op
                                     /\ p.lec = l /\ p.waits = TRUE
        BY <2>1, <2>2, <3>2 DEF VoteRequest, Places
      <3>4. page.kind = "schedule" => page.my /\ page.checked = {}
        BY <2>2 DEF VoteUnderWay
      <3>5. RightAfter(p)'
        BY <1>1, <2>3, <3>1, <3>3, <3>4, TakesEffect
      <3>6. VoteUnderWay(p)'
        BY <1>1, <3>3, <3>4, <3>5 DEF VoteUnderWay
      <3>7. \A k \in Lectures : rows'[k][Me] <= 1
        BY <1>1, <3>1 DEF Waited
      <3>. QED
        BY <1>1, <2>2, <3>3, <3>6, <3>7, OnlyMine
    <2>7. ~DestroyGone(r)
      BY <2>3 DEF DestroyGone
    <2>. QED
      BY <1>3, <2>5, <2>6, <2>7 DEF Serve
  <1>. QED
    BY <1>2, <1>3

-----------------------------------------------------------------------------
LEMMA PageInitial == Init => PageInv
  <1>. SUFFICES ASSUME Init PROVE PageInv
    OBVIOUS
  <1>1. /\ page = SchedulePage({}) /\ reqs = [r \in Requests |-> Idle]
        /\ \A l \in Lectures, u \in Users : rows[l][u] = 0
    BY DEF Init
  <1>2. PageTypes
    BY <1>1, VotingAssumption DEF PageTypes, SchedulePage
  <1>3. ~Busy
    BY <1>1 DEF Busy, Mine
  <1>4. PageRight
    BY <1>1 DEF PageRight, DimRight, Dimmed, SchedulePage
  <1>5. Waited
    BY <1>1, <1>3, <1>4, VotingAssumption DEF Waited, Busy
  <1>. QED
    BY <1>2, <1>3, <1>5 DEF PageInv, QuestionOfSchedule, Busy

LEMMA OpenedPage ==
  ASSUME VoteInv, PageInv, Open
  PROVE  PageInv'
  <1>. USE DEF VoteInv, VoteTypes
  <1>1. \/ page' = ListPage
        \/ \E ss \in SUBSET Sections : page' = SchedulePage(ss)
    BY DEF Open
  <1>2. reqs' = [s \in Requests |-> IF Mine(s) THEN [reqs[s] EXCEPT !.waits = FALSE] ELSE reqs[s]]
          /\ rows' = rows /\ (crossed' <=> Unsettled)
    BY DEF Open, Unsettled
  <1>3. Me \in Users /\ \A l \in Lectures : rows[l][Me] \in Nat /\ counter[l] \in Int
    BY VotingAssumption
  <1>4. PageTypes'
    <2>1. CASE page' = ListPage
      BY <1>3, <2>1, VotingAssumption DEF PageTypes, ListPage, MyVotes
    <2>2. ASSUME NEW ss \in SUBSET Sections, page' = SchedulePage(ss) PROVE PageTypes'
      BY <2>2, VotingAssumption DEF PageTypes, SchedulePage
    <2>. QED
      BY <1>1, <2>1, <2>2
  <1>5. QuestionOfSchedule'
    <2>1. ASSUME NEW s \in Requests, Mine(s)', reqs'[s].waits, reqs'[s].op = "mine" PROVE FALSE
      <3>1. CASE Mine(s)
        <4>1. reqs[s] \in VoteRequest \cup MineRequest
          BY <3>1 DEF Mine, Request
        <4>2. [reqs[s] EXCEPT !.waits = FALSE].waits = FALSE
          BY <4>1 DEF VoteRequest, MineRequest
        <4>. QED
          BY <1>2, <2>1, <3>1, <4>2
      <3>2. CASE ~Mine(s)
        BY <1>2, <2>1, <3>2 DEF Mine
      <3>. QED
        BY <3>1, <3>2
    <2>. QED
      BY <2>1 DEF QuestionOfSchedule
  <1>6. ASSUME ~crossed' PROVE Waited'
    <2>1. (\A s \in Requests : ~Mine(s)) /\ \A l \in Lectures : rows[l][Me] <= 1
      BY <1>2, <1>3, <1>6 DEF Unsettled, Busy
    <2>2. \A s \in Requests : ~Mine(s)'
      BY <1>2, <2>1 DEF Mine
    <2>3. PageRight'
      <3>1. MyVotes' = MyVotes /\ \A l \in Lectures : Have(l)' = rows[l][Me]
        BY <1>2, <1>3, <2>1 DEF MyVotes, Have, Voted
      <3>2. CASE page' = ListPage
        <4>1. /\ page'.kind = "list" /\ page'.added = MyVotes /\ page'.shown = counter
              /\ \A l \in Lectures : page'.others[l] = counter[l] - rows[l][Me]
          BY <3>2 DEF ListPage
        <4>. QED
          BY <1>3, <3>1, <4>1 DEF PageRight, ListRight
      <3>3. ASSUME NEW ss \in SUBSET Sections, page' = SchedulePage(ss) PROVE PageRight'
        <4>1. /\ page'.kind = "schedule" /\ page'.my = FALSE /\ page'.checked = ss
              /\ page'.disable = IF ss = {} THEN {} ELSE Lectures
              /\ page'.enable = {l \in Lectures : SectionOf[l] \in ss}
          BY <3>3 DEF SchedulePage
        <4>. QED
          BY <4>1 DEF PageRight, DimRight, Dimmed
      <3>. QED
        BY <1>1, <3>2, <3>3
    <2>. QED
      BY <1>2, <2>1, <2>2, <2>3, NoneMine
  <1>. QED
    BY <1>4, <1>5, <1>6 DEF PageInv

\* Others ask, and answers that nobody waits for are dropped.
LEMMA ElsewhereOnThePage ==
  ASSUME VoteInv, PageInv, NEW r \in Requests, OtherVotes(r) \/ Forget(r)
  PROVE  PageInv'
  <1>. USE DEF VoteInv, VoteTypes
  <1>1. UNCHANGED <<rows, page, crossed>> /\ \A s \in Requests \ {r} : reqs'[s] = reqs[s]
    BY DEF OtherVotes, Forget, Send
  <1>2. ~Mine(r)'
    <2>1. CASE OtherVotes(r)
      <3>1. PICK u \in Users \ {Me} : reqs'[r].user = u
        BY <2>1 DEF OtherVotes, Send
      <3>. QED
        BY <3>1 DEF Mine
    <2>2. CASE Forget(r)
      BY <2>2 DEF Forget, Mine
    <2>. QED
      BY <2>1, <2>2
  <1>3. PageTypes' /\ QuestionOfSchedule'
    BY <1>1, <1>2 DEF PageInv, PageTypes, QuestionOfSchedule, Mine
  <1>4. ASSUME ~crossed' PROVE Waited'
    <2>1. ~Mine(r)
      <3>1. CASE OtherVotes(r)
        BY <3>1 DEF OtherVotes, Send, Free, Mine
      <3>2. CASE Forget(r)
        BY <1>1, <1>4, <3>2 DEF Forget, PageInv, Waited
      <3>. QED
        BY <3>1, <3>2
    <2>. QED
      BY <1>1, <1>2, <1>4, <2>1, Framed DEF PageInv, Mine
  <1>. QED
    BY <1>3, <1>4 DEF PageInv

\* A click of the visitor sends a vote; when nothing else is under way the
\* button or the dimmed lecture says rightly which.
LEMMA VoteClicked ==
  ASSUME VoteInv, PageInv, NEW r \in Requests, NEW l \in Lectures,
         ClickVote(r, l) \/ ClickLecture(r, l)
  PROVE  PageInv'
  <1>. USE DEF VoteInv, VoteTypes
  <1>. DEFINE marked == IF page.kind = "list" THEN l \in page.added ELSE l \notin Dimmed
              q == [at |-> "sent", user |-> Me, op |-> IF marked THEN "unvote" ELSE "vote",
                    lec |-> l, waits |-> TRUE]
  <1>1. /\ reqs[r] = Idle /\ reqs' = [reqs EXCEPT ![r] = q] /\ rows' = rows
        /\ page.clicks < MaxClicks /\ page' = [page EXCEPT !.clicks = @ + 1]
        /\ crossed' = (crossed \/ Busy)
        /\ page.kind = "schedule" => page.my
    BY DEF ClickVote, ClickLecture, Send, Free, Click
  <1>2. /\ PageTypes' /\ page'.kind = page.kind /\ page'.my = page.my
        /\ page'.checked = page.checked /\ page'.added = page.added /\ page'.shown = page.shown
        /\ page'.others = page.others /\ Dimmed' = Dimmed
    <2>1. page.clicks \in 0..MaxClicks /\ page.clicks + 1 \in 0..MaxClicks
      BY <1>1, VotingAssumption DEF PageInv, PageTypes
    <2>2. PageTypes'
      BY <1>1, <2>1 DEF PageInv, PageTypes
    <2>. QED
      BY <1>1, <2>2 DEF PageInv, PageTypes, Dimmed
  <1>3. /\ q.at = "sent" /\ q.user = Me /\ q.lec = l /\ q.waits = TRUE /\ q # Idle
        /\ q.op = IF marked THEN "unvote" ELSE "vote"
    BY DEF Idle
  <1>. HIDE DEF q
  <1>4. reqs'[r] = q /\ \A s \in Requests \ {r} : reqs'[s] = reqs[s]
    BY <1>1
  <1>5. QuestionOfSchedule'
    BY <1>2, <1>3, <1>4 DEF PageInv, QuestionOfSchedule, Mine
  <1>6. ASSUME ~crossed' PROVE Waited'
    <2>1. Waited /\ ~Busy /\ PageRight
      BY <1>1, <1>6 DEF PageInv, Waited
    <2>2. MyVotes' = MyVotes /\ \A k \in Lectures : Have(k)' = Have(k) /\ (Voted(k, Me)' <=> Voted(k, Me))
      BY <1>1 DEF MyVotes, Have, Voted
    <2>3. PageRight'
      BY <1>2, <2>1, <2>2 DEF PageRight, ListRight, DimRight
    <2>4. Voted(l, Me) <=> q.op = "unvote"
      <3>1. CASE page.kind = "list"
        BY <1>3, <2>1, <3>1 DEF PageRight, ListRight, MyVotes
      <3>2. CASE page.kind = "schedule"
        BY <1>1, <1>3, <2>1, <3>2 DEF PageRight, DimRight, MyVotes
      <3>. QED
        BY <3>1, <3>2 DEF PageInv, PageTypes
    <2>5. page.kind = "schedule" => page.my /\ page.checked = {}
      BY <1>1, <2>1 DEF PageRight
    <2>6. PICK p : p = q
      OBVIOUS
    <2>7. VoteUnderWay(p)'
      BY <1>2, <1>3, <2>2, <2>3, <2>4, <2>5, <2>6 DEF VoteUnderWay
    <2>8. \A s \in Requests \ {r} : ~Mine(s)'
      BY <1>4, <2>1 DEF Busy, Mine
    <2>9. \A k \in Lectures : rows'[k][Me] <= 1
      BY <1>1, <2>1 DEF Waited
    <2>10. reqs'[r] = p /\ Mine(r)' /\ p.waits = TRUE /\ p.op # "mine"
      BY <1>3, <1>4, <2>6 DEF Mine
    <2>. QED
      BY <2>7, <2>8, <2>9, <2>10, OnlyMine
  <1>. QED
    BY <1>2, <1>5, <1>6 DEF PageInv

\* An answer of the visitor's comes, and nothing is under way any more.
LEMMA NothingUnderWay ==
  ASSUME VoteInv, PageInv, NEW r \in Requests, Mine(r), reqs' = [reqs EXCEPT ![r] = Idle],
         rows' = rows, crossed' = crossed, page'.kind = page.kind, PageTypes',
         ~crossed => PageRight'
  PROVE  PageInv'
  <1>1. reqs'[r] = Idle /\ \A s \in Requests \ {r} : reqs'[s] = reqs[s]
    BY DEF VoteInv, VoteTypes
  <1>2. QuestionOfSchedule'
    BY <1>1 DEF PageInv, QuestionOfSchedule, Mine
  <1>3. ASSUME ~crossed PROVE Waited'
    <2>1. \A s \in Requests : ~Mine(s)'
      BY <1>1, <1>3 DEF PageInv, Waited, Mine
    <2>2. \A l \in Lectures : rows'[l][Me] <= 1
      BY <1>3 DEF PageInv, Waited
    <2>. QED
      BY <1>3, <2>1, <2>2, NoneMine
  <1>. QED
    BY <1>2, <1>3 DEF PageInv

LEMMA ListAnsweredStep ==
  ASSUME VoteInv, PageInv, NEW r \in Requests, ListAnswered(r)
  PROVE  PageInv'
  <1>. DEFINE q == reqs[r]
  <1>1. /\ page.kind = "list" /\ Mine(r) /\ q.waits /\ q.at \in {"done", "refused"}
        /\ reqs' = [reqs EXCEPT ![r] = Idle] /\ UNCHANGED <<rows, crossed>>
    BY DEF ListAnswered
  <1>2. q \in VoteRequest /\ q.lec \in Lectures /\ q.op \in {"vote", "unvote"}
    <2>1. q.op # "mine"
      BY <1>1 DEF PageInv, QuestionOfSchedule
    <2>. QED
      BY <1>1, <2>1, IsVote, VoteFields DEF VoteInv, Places
  <1>3. \/ q.at = "refused" /\ page' = page
        \/ q.at = "done" /\ page' = [page EXCEPT !.shown = ShownAfter(q), !.added = AddedAfter(q)]
    BY <1>1, <1>2 DEF ListAnswered, ShownAfter, AddedAfter
  <1>4. ShownAfter(q) \in [Lectures -> Int] /\ AddedAfter(q) \in SUBSET Lectures
    BY <1>2 DEF PageInv, PageTypes, ShownAfter, AddedAfter
  <1>5. PageTypes' /\ page'.kind = "list" /\ page'.others = page.others
    BY <1>1, <1>3, <1>4 DEF PageInv, PageTypes
  <1>6. ASSUME ~crossed PROVE PageRight'
    <2>1. q.at = "done" /\ RightAfter(q)
      BY <1>1, <1>2, <1>6 DEF PageInv, Waited, VoteUnderWay
    <2>2. ListRight(AddedAfter(q), ShownAfter(q))
      BY <1>1, <2>1 DEF RightAfter
    <2>3. page'.added = AddedAfter(q) /\ page'.shown = ShownAfter(q)
      BY <1>3, <2>1 DEF PageInv, PageTypes
    <2>4. MyVotes' = MyVotes /\ \A l \in Lectures : Have(l)' = Have(l)
      BY <1>1 DEF MyVotes, Have, Voted
    <2>. HIDE DEF q
    <2>. QED
      BY <1>5, <2>2, <2>3, <2>4 DEF PageRight, ListRight
  <1>. QED
    BY <1>1, <1>5, <1>6, NothingUnderWay

LEMMA LectureAnsweredStep ==
  ASSUME VoteInv, PageInv, NEW r \in Requests, LectureAnswered(r)
  PROVE  PageInv'
  <1>. DEFINE q == reqs[r]
  <1>1. /\ page.kind = "schedule" /\ Mine(r) /\ q.at \in {"done", "refused"} /\ q.op # "mine"
        /\ reqs' = [reqs EXCEPT ![r] = Idle] /\ UNCHANGED <<rows, crossed>>
    BY DEF LectureAnswered
  <1>2. q.lec \in Lectures /\ q.op \in {"vote", "unvote"}
    BY <1>1, IsVote, VoteFields DEF VoteInv, Places
  <1>3. \/ q.at = "refused" /\ page' = page
        \/ q.at = "done" /\ q.op = "vote"
             /\ page' = [page EXCEPT !.disable = @ \ {q.lec}, !.enable = @ \cup {q.lec}]
        \/ q.at = "done" /\ q.op = "unvote"
             /\ page' = [page EXCEPT !.disable = @ \cup {q.lec}, !.enable = @ \ {q.lec}]
    BY <1>1, <1>2 DEF LectureAnswered
  <1>4. PageTypes' /\ page'.kind = "schedule" /\ page'.my = page.my /\ page'.checked = page.checked
    <2>1. page.disable \cup {q.lec} \in SUBSET Lectures /\ page.enable \cup {q.lec} \in SUBSET Lectures
            /\ page.disable \ {q.lec} \in SUBSET Lectures /\ page.enable \ {q.lec} \in SUBSET Lectures
      BY <1>2 DEF PageInv, PageTypes
    <2>. HIDE DEF q
    <2>. QED
      BY <1>1, <1>3, <2>1 DEF PageInv, PageTypes
  <1>5. ASSUME ~crossed PROVE PageRight'
    <2>1. q.at = "done" /\ DimmedAfter(q) = Lectures \ MyVotes /\ page.my /\ page.checked = {}
      BY <1>1, <1>5 DEF PageInv, Waited, VoteUnderWay, RightAfter
    <2>2. Dimmed' = DimmedAfter(q)
      BY <1>2, <1>3, <2>1 DEF PageInv, PageTypes, Dimmed, DimmedAfter
    <2>3. MyVotes' = MyVotes
      BY <1>1 DEF MyVotes, Voted
    <2>. QED
      BY <1>4, <2>1, <2>2, <2>3 DEF PageRight, DimRight
  <1>. QED
    BY <1>1, <1>4, <1>5, NothingUnderWay

LEMMA MyAnsweredStep ==
  ASSUME VoteInv, PageInv, NEW r \in Requests, MyAnswered(r)
  PROVE  PageInv'
  <1>. DEFINE q == reqs[r]
  <1>1. /\ page.kind = "schedule" /\ Mine(r) /\ q.at = "done" /\ q.op = "mine"
        /\ reqs' = [reqs EXCEPT ![r] = Idle] /\ UNCHANGED <<rows, crossed>>
        /\ page' = IF page.my
                     THEN [page EXCEPT !.checked = {}, !.disable = Lectures, !.enable = q.list]
                     ELSE [page EXCEPT !.disable = {}, !.enable = @ \ q.list]
    BY DEF MyAnswered
  <1>2. q.list \in SUBSET Lectures
    <2>1. q \in MineRequest /\ q.at = "done"
      BY <1>1 DEF VoteInv, VoteTypes, Request, VoteRequest, Mine
    <2>. QED
      BY <2>1 DEF MineRequest
  <1>3. PageTypes' /\ page'.kind = "schedule" /\ page'.my = page.my
    <2>1. CASE page.my
      BY <1>1, <1>2, <2>1 DEF PageInv, PageTypes
    <2>2. CASE ~page.my
      BY <1>1, <1>2, <2>2 DEF PageInv, PageTypes
    <2>. QED
      BY <2>1, <2>2
  <1>4. ASSUME ~crossed PROVE PageRight'
    <2>1. q.list = MyVotes /\ (~page.my => page.checked = {})
      BY <1>1, <1>4 DEF PageInv, Waited, QuestionUnderWay
    <2>2. MyVotes' = MyVotes
      BY <1>1 DEF MyVotes, Voted
    <2>3. CASE page.my
      <3>1. Dimmed' = Lectures \ MyVotes /\ page'.checked = {}
        BY <1>1, <2>1, <2>3 DEF PageInv, PageTypes, Dimmed
      <3>. QED
        BY <1>3, <2>2, <2>3, <3>1 DEF PageRight, DimRight
    <2>4. CASE ~page.my
      <3>1. Dimmed' = {} /\ page'.checked = {}
        BY <1>1, <2>1, <2>4 DEF PageInv, PageTypes, Dimmed
      <3>. QED
        BY <1>3, <2>4, <3>1 DEF PageRight, DimRight
    <2>. QED
      BY <2>3, <2>4
  <1>. QED
    BY <1>1, <1>3, <1>4, NothingUnderWay

LEMMA MyToggled ==
  ASSUME VoteInv, PageInv, NEW r \in Requests, ToggleMy(r)
  PROVE  PageInv'
  <1>. USE DEF VoteInv, VoteTypes
  <1>. DEFINE q == [at |-> "sent", user |-> Me, op |-> "mine", waits |-> TRUE]
  <1>1. /\ page.kind = "schedule" /\ page.clicks < MaxClicks /\ reqs[r] = Idle
        /\ reqs' = [reqs EXCEPT ![r] = q] /\ rows' = rows
        /\ page' = [page EXCEPT !.my = ~@, !.clicks = @ + 1]
        /\ crossed' = IF page.my THEN crossed \/ Busy ELSE Unsettled
    BY DEF ToggleMy, Free, Click
  <1>2. q.at = "sent" /\ q.user = Me /\ q.op = "mine" /\ q.waits = TRUE /\ q # Idle
    BY DEF Idle
  <1>. HIDE DEF q
  <1>3. reqs'[r] = q /\ \A s \in Requests \ {r} : reqs'[s] = reqs[s]
    BY <1>1
  <1>4. PageTypes'
    <2>1. page.clicks \in 0..MaxClicks /\ page.clicks < MaxClicks /\ MaxClicks \in Nat
      BY <1>1, VotingAssumption DEF PageInv, PageTypes
    <2>2. page.clicks + 1 \in 0..MaxClicks /\ (~page.my) \in BOOLEAN
      BY <2>1
    <2>. QED
      BY <1>1, <2>2 DEF PageInv, PageTypes
  <1>5. page'.kind = "schedule" /\ page'.my = ~page.my /\ page'.checked = page.checked
    BY <1>1 DEF PageInv, PageTypes
  <1>6. QuestionOfSchedule'
    BY <1>5 DEF QuestionOfSchedule
  <1>7. ASSUME ~crossed' PROVE Waited'
    <2>1. /\ ~Busy /\ \A l \in Lectures : rows[l][Me] <= 1
          /\ page.my => page.checked = {}
      <3>1. CASE page.my
        <4>1. ~crossed /\ ~Busy
          BY <1>1, <1>7, <3>1
        <4>. QED
          BY <1>1, <4>1 DEF PageInv, Waited, PageRight
      <3>2. CASE ~page.my
        <4>1. ~Unsettled /\ Me \in Users
          BY <1>1, <1>7, <3>2, VotingAssumption
        <4>. QED
          BY <3>2, <4>1 DEF Unsettled
      <3>. QED
        BY <3>1, <3>2
    <2>2. PICK p : p = q
      OBVIOUS
    <2>3. reqs'[r] = p /\ Mine(r)' /\ p.waits = TRUE /\ p.op = "mine" /\ p.at = "sent"
      BY <1>2, <1>3, <2>2 DEF Mine
    <2>4. QuestionUnderWay(p)'
      BY <1>5, <2>1, <2>3 DEF QuestionUnderWay
    <2>5. \A s \in Requests \ {r} : ~Mine(s)'
      BY <1>3, <2>1 DEF Busy, Mine
    <2>6. \A l \in Lectures : rows'[l][Me] <= 1
      BY <1>1, <2>1
    <2>. QED
      BY <2>3, <2>4, <2>5, <2>6, OnlyMine
  <1>. QED
    BY <1>4, <1>6, <1>7 DEF PageInv

LEMMA FilterToggled ==
  ASSUME VoteInv, PageInv, NEW s \in Sections, ToggleFilter(s)
  PROVE  PageInv'
  <1>. DEFINE ss == IF s \in page.checked THEN page.checked \ {s} ELSE page.checked \cup {s}
              shown == {l \in Lectures : SectionOf[l] \in ss}
  <1>1. /\ page.kind = "schedule" /\ page.clicks < MaxClicks
        /\ UNCHANGED <<rows, reqs>> /\ crossed' = (crossed \/ Busy)
        /\ page' = [page EXCEPT !.clicks = @ + 1, !.checked = ss, !.enable = shown,
                                !.my = @ /\ ss = {}, !.disable = IF ss = {} THEN {} ELSE Lectures]
    BY DEF ToggleFilter, Click
  <1>2. ss \in SUBSET Sections /\ shown \in SUBSET Lectures
    BY DEF PageInv, PageTypes
  <1>3. ss = {} => page.checked # {}
    OBVIOUS
  <1>. HIDE DEF ss
  <1>4. PageTypes'
    <2>1. page.clicks + 1 \in 0..MaxClicks /\ (page.my /\ ss = {}) \in BOOLEAN
      BY <1>1, VotingAssumption DEF PageInv, PageTypes
    <2>2. (IF ss = {} THEN {} ELSE Lectures) \in SUBSET Lectures
      OBVIOUS
    <2>. QED
      BY <1>1, <1>2, <2>1, <2>2 DEF PageInv, PageTypes
  <1>5. /\ page'.kind = "schedule" /\ page'.checked = ss /\ page'.my = (page.my /\ ss = {})
        /\ Dimmed' = (IF ss = {} THEN {} ELSE Lectures) \ shown
    BY <1>1 DEF PageInv, PageTypes, Dimmed
  <1>6. QuestionOfSchedule'
    BY <1>5 DEF QuestionOfSchedule
  <1>7. ASSUME ~crossed' PROVE Waited'
    <2>1. Waited /\ ~Busy /\ PageRight
      BY <1>1, <1>7 DEF PageInv, Waited
    <2>2. ~page'.my
      BY <1>1, <1>3, <1>5, <2>1 DEF PageRight
    <2>3. PageRight'
      BY <1>5, <2>2 DEF PageRight, DimRight
    <2>4. \A r \in Requests : ~Mine(r)'
      BY <1>1, <2>1 DEF Busy, Mine
    <2>5. \A l \in Lectures : rows'[l][Me] <= 1
      BY <1>1, <2>1 DEF Waited
    <2>. QED
      BY <2>3, <2>4, <2>5, NoneMine
  <1>. QED
    BY <1>4, <1>6, <1>7 DEF PageInv

LEMMA PageStep == VoteInv /\ PageInv /\ [Next]_vars => PageInv'
  <1>. SUFFICES ASSUME VoteInv, PageInv, [Next]_vars PROVE PageInv'
    OBVIOUS
  <1>1. ASSUME NEW r \in Requests, Serve(r) PROVE PageInv'
    <2>1. PageTypes' /\ QuestionOfSchedule' /\ crossed' = crossed
      BY <1>1, Unserved, ServedQuestion DEF VoteInv, PageInv, PageTypes
    <2>2. ~crossed => Waited'
      BY <1>1, OthersServed, MineServed
    <2>. QED
      BY <2>1, <2>2 DEF PageInv
  <1>2. CASE UNCHANGED vars
    <2>1. UNCHANGED <<page, rows, reqs, crossed>>
      BY <1>2 DEF vars
    <2>2. PageTypes' /\ QuestionOfSchedule'
      BY <2>1 DEF PageInv, PageTypes, QuestionOfSchedule, Mine
    <2>3. ~crossed => Waited'
      BY <2>1, Framed DEF PageInv, VoteInv, Mine
    <2>. QED
      BY <2>1, <2>2, <2>3 DEF PageInv
  <1>. QED
    BY <1>1, <1>2, OpenedPage, ElsewhereOnThePage, VoteClicked, ListAnsweredStep, MyAnsweredStep,
       LectureAnsweredStep, MyToggled, FilterToggled DEF Next

LEMMA PageInvariant == Spec => []PageInv
  BY VotingInitial, VotingStep, PageInitial, PageStep, PTL DEF Spec

\* Once every answer has come to a visitor who waited for each, the list has
\* the visitor's votes and counts each once (user_lectures.js:35-65).
THEOREM ListShowsVotesAlways == Spec => []ListShowsVotes
  <1>1. PageInv => ListShowsVotes
    <2>. SUFFICES ASSUME PageInv, page.kind = "list", ~Busy, ~crossed
                  PROVE  /\ page.added = MyVotes
                         /\ \A l \in Lectures :
                              page.shown[l] = page.others[l] + Cardinality({l} \cap MyVotes)
      BY DEF ListShowsVotes
    <2>1. ListRight(page.added, page.shown)
      BY DEF PageInv, Waited, PageRight
    <2>2. ASSUME NEW l \in Lectures PROVE Cardinality({l} \cap MyVotes) = Have(l)
      <3>1. CASE Voted(l, Me)
        <4>1. {l} \cap MyVotes = {l}
          BY <3>1 DEF MyVotes
        <4>. QED
          BY <3>1, <4>1, FS_Singleton DEF Have
      <3>2. CASE ~Voted(l, Me)
        <4>1. {l} \cap MyVotes = {}
          BY <3>2 DEF MyVotes
        <4>. QED
          BY <3>2, <4>1, FS_EmptySet DEF Have
      <3>. QED
        BY <3>1, <3>2
    <2>. QED
      BY <2>1, <2>2 DEF ListRight
  <1>. QED
    BY <1>1, PageInvariant, PTL

\* And the schedule dims what its checkboxes exclude (schedules.js:9-58).
THEOREM ScheduleShowsChoiceAlways == Spec => []ScheduleShowsChoice
  <1>1. PageInv => ScheduleShowsChoice
    BY DEF PageInv, Waited, PageRight, DimRight, ScheduleShowsChoice
  <1>. QED
    BY <1>1, PageInvariant, PTL

-----------------------------------------------------------------------------
(* The counter cache.                                                      *)

CounterInv == \A l \in Lectures : counter[l] = Total(rows[l], Users)

\* The rows of one user change: the sum of the lecture changes by as much.
LEMMA RowsChanged ==
  ASSUME VoteTypes, VoteTypes', NEW l \in Lectures, NEW u \in Users,
         \A k \in Lectures, v \in Users : k # l \/ v # u => rows'[k][v] = rows[k][v]
  PROVE  /\ \A k \in Lectures : Total(rows[k], Users) \in Int
         /\ \A k \in Lectures \ {l} : Total(rows'[k], Users) = Total(rows[k], Users)
         /\ Total(rows'[l], Users) = Total(rows[l], Users) + rows'[l][u] - rows[l][u]
  <1>1. IsFiniteSet(Users)
    BY VotingAssumption
  <1>2. \A k \in Lectures, v \in Users : rows[k][v] \in Int /\ rows'[k][v] \in Int
    BY DEF VoteTypes
  <1>3. ASSUME NEW k \in Lectures
        PROVE  /\ Total(rows[k], Users) \in Int
               /\ k # l => Total(rows'[k], Users) = Total(rows[k], Users)
               /\ k = l => Total(rows'[k], Users) = Total(rows[k], Users) + rows'[l][u] - rows[l][u]
    <2>1. PICK g, h : g = rows[k] /\ h = rows'[k]
      OBVIOUS
    <2>2. /\ \A v \in Users : g[v] \in Int /\ h[v] \in Int
          /\ \A v \in Users \ {u} : h[v] = g[v]
          /\ k # l => \A v \in Users : h[v] = g[v]
      BY <1>2, <2>1
    <2>3. Total(h, Users) = Total(g, Users) + h[u] - g[u] /\ Total(g, Users) \in Int
      BY <1>1, <2>2, TotalChange, TotalInt
    <2>4. k # l => Total(h, Users) = Total(g, Users)
      BY <1>1, <2>2, TotalSame
    <2>. QED
      BY <2>1, <2>3, <2>4
  <1>. QED
    BY <1>3

\* Steps other than the insert and the delete leave the tables alone, and only
\* voted_by? lets a request go on.
LEMMA OtherSteps ==
  ASSUME VoteInv, [Next]_vars, \A r \in Requests : ~Check(r) /\ ~Insert(r) /\ ~Destroy(r)
  PROVE  /\ UNCHANGED <<rows, counter, overlapped>>
         /\ \A s \in Requests : reqs'[s].at = "checked" =>
              /\ reqs[s].at = "checked" /\ reqs'[s].op = reqs[s].op
              /\ reqs'[s].lec = reqs[s].lec /\ reqs'[s].user = reqs[s].user
  <1>. DEFINE Kept == \A s \in Requests : reqs'[s].at = "checked" =>
                        /\ reqs[s].at = "checked" /\ reqs'[s].op = reqs[s].op
                        /\ reqs'[s].lec = reqs[s].lec /\ reqs'[s].user = reqs[s].user
              Still == UNCHANGED <<rows, counter, overlapped>> /\ Kept
  <1>1. ASSUME NEW r \in Requests, NEW q, reqs' = [reqs EXCEPT ![r] = q], q.at # "checked"
        PROVE  Kept
    BY <1>1 DEF VoteInv, VoteTypes
  <1>2. CASE Open
    <2>. DEFINE left(s) == [reqs[s] EXCEPT !.waits = FALSE]
    <2>1. reqs' = [s \in Requests |-> IF Mine(s) THEN left(s) ELSE reqs[s]]
      BY <1>2 DEF Open
    <2>2. ASSUME NEW s \in Requests, left(s).at = "checked", Mine(s)
          PROVE  /\ reqs[s].at = "checked" /\ left(s).op = reqs[s].op
                 /\ left(s).lec = reqs[s].lec /\ left(s).user = reqs[s].user
      <3>1. reqs[s] \in VoteRequest \cup MineRequest
        BY <2>2 DEF VoteInv, VoteTypes, Request, Mine
      <3>2. CASE reqs[s] \in MineRequest
        <4>1. left(s).at = reqs[s].at /\ reqs[s].at \in {"sent", "done"}
          BY <3>2 DEF MineRequest
        <4>. QED
          BY <2>2, <4>1
      <3>3. CASE reqs[s] \in VoteRequest
        BY <2>2, <3>3 DEF VoteRequest
      <3>. QED
        BY <3>1, <3>2, <3>3
    <2>. HIDE DEF left
    <2>3. Kept
      BY <2>1, <2>2
    <2>. QED
      BY <1>2, <2>3 DEF Open
  <1>3. ASSUME NEW r \in Requests, Find(r) \/ DestroyGone(r)
        PROVE  Still
    <2>1. PICK a \in {"found", "refused", "done"} : reqs' = [reqs EXCEPT ![r].at = a]
      BY <1>3 DEF Find, DestroyGone, Answer
    <2>. DEFINE q == [reqs[r] EXCEPT !.at = a]
    <2>2. reqs[r] \in VoteRequest
      BY <1>3, IsVote DEF Find, DestroyGone, VoteInv
    <2>3. q.at # "checked" /\ reqs' = [reqs EXCEPT ![r] = q]
      BY <2>1, <2>2 DEF VoteRequest
    <2>. HIDE DEF q
    <2>4. Kept
      BY <1>1, <2>3
    <2>. QED
      BY <1>3, <2>4 DEF Find, DestroyGone
  <1>4. ASSUME NEW r \in Requests, ListMine(r) PROVE Still
    <2>. DEFINE q == [at |-> "done", user |-> Me, op |-> "mine", waits |-> reqs[r].waits,
                      list |-> MyVotes]
    <2>1. reqs' = [reqs EXCEPT ![r] = q] /\ q.at # "checked"
      BY <1>4 DEF ListMine
    <2>. HIDE DEF q
    <2>. QED
      BY <1>1, <1>4, <2>1 DEF ListMine
  <1>5. ASSUME NEW r \in Requests, Forget(r) \/ MyAnswered(r) \/ ListAnswered(r) \/ LectureAnswered(r)
        PROVE  Still
    <2>1. reqs' = [reqs EXCEPT ![r] = Idle] /\ UNCHANGED <<rows, counter, overlapped>>
      BY <1>5 DEF Forget, MyAnswered, ListAnswered, LectureAnswered
    <2>2. Idle.at # "checked"
      BY DEF Idle
    <2>3. Kept
      BY <1>1, <2>1, <2>2
    <2>. QED
      BY <2>1, <2>3
  <1>6. ASSUME NEW r \in Requests, NEW u, NEW op, NEW l, Send(r, u, op, l) PROVE Kept
    <2>. DEFINE q == [at |-> "sent", user |-> u, op |-> op, lec |-> l, waits |-> u = Me]
    <2>1. reqs' = [reqs EXCEPT ![r] = q] /\ q.at # "checked"
      BY <1>6 DEF Send
    <2>. HIDE DEF q
    <2>. QED
      BY <1>1, <2>1
  <1>7. ASSUME NEW r \in Requests, OtherVotes(r) PROVE Still
    <2>1. PICK u \in Users \ {Me}, l \in Popular, op \in {"vote", "unvote"} : Send(r, u, op, l)
      BY <1>7 DEF OtherVotes
    <2>2. Kept
      BY <1>6, <2>1
    <2>. QED
      BY <1>7, <2>2 DEF OtherVotes
  <1>8. ASSUME NEW r \in Requests, NEW l \in Lectures, ClickVote(r, l) \/ ClickLecture(r, l)
        PROVE  Still
    <2>1. PICK op : Send(r, Me, op, l)
      BY <1>8 DEF ClickVote, ClickLecture
    <2>2. Kept
      BY <1>6, <2>1
    <2>. QED
      BY <1>8, <2>2 DEF ClickVote, ClickLecture
  <1>9. ASSUME NEW r \in Requests, ToggleMy(r) PROVE Still
    <2>. DEFINE q == [at |-> "sent", user |-> Me, op |-> "mine", waits |-> TRUE]
    <2>1. reqs' = [reqs EXCEPT ![r] = q] /\ q.at # "checked"
      BY <1>9 DEF ToggleMy
    <2>. HIDE DEF q
    <2>. QED
      BY <1>1, <1>9, <2>1 DEF ToggleMy
  <1>10. ASSUME NEW s \in Sections, ToggleFilter(s) PROVE Still
    BY <1>10 DEF ToggleFilter
  <1>11. CASE UNCHANGED vars
    BY <1>11 DEF vars
  <1>. HIDE DEF Kept
  <1>12. Open => Still
    BY <1>2 DEF Open, Kept
  <1>. HIDE DEF Still
  <1>13. Still
    BY <1>3, <1>4, <1>5, <1>7, <1>8, <1>9, <1>10, <1>11, <1>12 DEF Next, Serve, Still, Kept
  <1>. QED
    BY <1>13 DEF Still, Kept

LEMMA CounterStep == VoteInv /\ CounterInv /\ [Next]_vars => CounterInv'
  <1>. SUFFICES ASSUME VoteInv, CounterInv, [Next]_vars PROVE CounterInv'
    OBVIOUS
  <1>1. ASSUME NEW r \in Requests, Check(r) PROVE CounterInv'
    BY <1>1 DEF Check, CounterInv
  <1>2. ASSUME NEW r \in Requests, Insert(r) PROVE CounterInv'
    <2>1. PICK l \in Lectures, u \in Users : l = reqs[r].lec /\ u = reqs[r].user
      BY <1>2, IsVote, VoteFields DEF Insert, VoteInv
    <2>2. rows' = [rows EXCEPT ![l][u] = @ + 1] /\ counter' = [counter EXCEPT ![l] = @ + 1]
      BY <1>2, <2>1 DEF Insert
    <2>3. /\ rows'[l][u] = rows[l][u] + 1 /\ rows[l][u] \in Int
          /\ \A k \in Lectures, v \in Users : k # l \/ v # u => rows'[k][v] = rows[k][v]
          /\ \A k \in Lectures : counter'[k] = IF k = l THEN counter[k] + 1 ELSE counter[k]
      BY <2>2 DEF VoteInv, VoteTypes
    <2>4. VoteTypes /\ VoteTypes'
      BY <1>2, InsertStep DEF VoteInv
    <2>. QED
      BY <2>3, <2>4, RowsChanged DEF CounterInv
  <1>3. ASSUME NEW r \in Requests, Destroy(r) PROVE CounterInv'
    <2>1. PICK l \in Lectures, u \in Users : l = reqs[r].lec /\ u = reqs[r].user
      BY <1>3, IsVote, VoteFields DEF Destroy, VoteInv
    <2>2. rows' = [rows EXCEPT ![l][u] = @ - 1] /\ counter' = [counter EXCEPT ![l] = @ - 1]
      BY <1>3, <2>1 DEF Destroy
    <2>3. /\ rows'[l][u] = rows[l][u] - 1 /\ rows[l][u] \in Int
          /\ \A k \in Lectures, v \in Users : k # l \/ v # u => rows'[k][v] = rows[k][v]
          /\ \A k \in Lectures : counter'[k] = IF k = l THEN counter[k] - 1 ELSE counter[k]
      BY <2>2 DEF VoteInv, VoteTypes
    <2>4. VoteTypes /\ VoteTypes'
      BY <1>3, DestroyStep DEF VoteInv
    <2>. QED
      BY <2>3, <2>4, RowsChanged DEF CounterInv
  <1>4. CASE \A r \in Requests : ~Check(r) /\ ~Insert(r) /\ ~Destroy(r)
    BY <1>4, OtherSteps DEF CounterInv
  <1>. QED
    BY <1>1, <1>2, <1>3, <1>4

LEMMA CounterInitial == Init => CounterInv
  <1>. SUFFICES ASSUME Init, NEW l \in Lectures PROVE counter[l] = Total(rows[l], Users)
    BY DEF CounterInv
  <1>1. counter[l] = 0 /\ \A u \in Users : rows[l][u] = 0
    BY DEF Init
  <1>2. Total(rows[l], Users) = Total(rows[l], {})
    BY <1>1, TotalWithout, VotingAssumption
  <1>. QED
    BY <1>1, <1>2, TotalEmpty

\* However the requests interleave, the counter cache is the number of rows
\* (voting_extension.rb:12 and :18).
THEOREM CounterIsRowsAlways == Spec => []CounterIsRows
  <1>1. CounterInv => CounterIsRows
    BY DEF CounterInv, CounterIsRows, Total
  <1>. QED
    BY <1>1, VotingInitial, VotingStep, CounterInitial, CounterStep, PTL DEF Spec

-----------------------------------------------------------------------------
(* How many rows there can be: a row takes a request, which found none.    *)

Inserting(l, u) ==
  {r \in Requests : /\ reqs[r].at = "checked" /\ reqs[r].op = "vote"
                    /\ reqs[r].lec = l /\ reqs[r].user = u}

RoomInv ==
  /\ \A l \in Lectures, u \in Users :
       rows[l][u] + Cardinality(Inserting(l, u)) <= Cardinality(Requests)
  /\ overlapped \in BOOLEAN /\ crossed \in BOOLEAN

LEMMA InsertingSize ==
  /\ Cardinality(Requests) \in Nat
  /\ \A A \in SUBSET Requests : /\ Cardinality(A) \in Nat /\ Cardinality(A) <= Cardinality(Requests)
                                /\ \A B \in SUBSET A : Cardinality(B) <= Cardinality(A)
                                /\ \A r \in A : Cardinality(A \ {r}) = Cardinality(A) - 1
  <1>1. IsFiniteSet(Requests)
    BY VotingAssumption
  <1>2. ASSUME NEW A \in SUBSET Requests PROVE IsFiniteSet(A)
    BY <1>1, FS_Subset
  <1>. QED
    BY <1>1, <1>2, FS_CardinalityType, FS_Subset, FS_RemoveElement

LEMMA RoomInitial == Init => RoomInv
  <1>. SUFFICES ASSUME Init PROVE RoomInv
    OBVIOUS
  <1>1. \A l \in Lectures, u \in Users : rows[l][u] = 0 /\ Inserting(l, u) \in SUBSET Requests
    BY DEF Init, Inserting
  <1>2. ASSUME NEW l \in Lectures, NEW u \in Users
        PROVE  rows[l][u] + Cardinality(Inserting(l, u)) <= Cardinality(Requests)
    <2>1. PICK A \in SUBSET Requests : A = Inserting(l, u)
      BY <1>1
    <2>2. Cardinality(A) \in Nat /\ Cardinality(A) <= Cardinality(Requests)
      BY InsertingSize
    <2>. QED
      BY <1>1, <2>1, <2>2
  <1>. QED
    BY <1>2 DEF Init, RoomInv

LEMMA RoomKept ==
  ASSUME VoteInv, RoomInv, VoteInv', overlapped' \in BOOLEAN, crossed' \in BOOLEAN,
         \A l \in Lectures, u \in Users :
           /\ rows'[l][u] <= rows[l][u]
           /\ rows[l][u] # 0 => Inserting(l, u)' \subseteq Inserting(l, u)
  PROVE  RoomInv'
  <1>. SUFFICES ASSUME NEW l \in Lectures, NEW u \in Users
                PROVE  rows'[l][u] + Cardinality(Inserting(l, u)') <= Cardinality(Requests)
    BY DEF RoomInv
  <1>1. PICK A, B : A = Inserting(l, u) /\ B = Inserting(l, u)'
    OBVIOUS
  <1>2. A \in SUBSET Requests /\ B \in SUBSET Requests
    BY <1>1 DEF Inserting
  <1>3. rows[l][u] \in Nat /\ rows'[l][u] \in Nat
    BY DEF VoteInv, VoteTypes
  <1>4. CASE rows[l][u] = 0
    <2>1. rows'[l][u] = 0
      BY <1>3, <1>4
    <2>2. Cardinality(B) \in Nat /\ Cardinality(B) <= Cardinality(Requests)
      BY <1>2, InsertingSize
    <2>. QED
      BY <1>1, <2>1, <2>2
  <1>5. CASE rows[l][u] # 0
    <2>1. Cardinality(B) <= Cardinality(A) /\ Cardinality(A) \in Nat /\ Cardinality(B) \in Nat
            /\ Cardinality(Requests) \in Nat
      BY <1>1, <1>2, <1>5, InsertingSize
    <2>2. rows[l][u] + Cardinality(A) <= Cardinality(Requests)
      BY <1>1 DEF RoomInv
    <2>3. rows'[l][u] <= rows[l][u]
      OBVIOUS
    <2>. QED
      BY <1>1, <1>3, <2>1, <2>2, <2>3
  <1>. QED
    BY <1>4, <1>5

LEMMA CrossedBoolean ==
  ASSUME crossed \in BOOLEAN, [Next]_vars
  PROVE  crossed' \in BOOLEAN
  <1>1. CASE Open
    BY <1>1 DEF Open, Unsettled
  <1>2. ASSUME NEW r \in Requests, Serve(r) PROVE crossed' \in BOOLEAN
    BY <1>2 DEF Serve, Check, Insert, Find, Destroy, DestroyGone, ListMine
  <1>3. ASSUME NEW r \in Requests, Forget(r) \/ OtherVotes(r) \/ MyAnswered(r) \/ ListAnswered(r)
                                   \/ LectureAnswered(r)
        PROVE  crossed' \in BOOLEAN
    BY <1>3 DEF Forget, OtherVotes, MyAnswered, ListAnswered, LectureAnswered
  <1>4. ASSUME NEW r \in Requests, ToggleMy(r) PROVE crossed' \in BOOLEAN
    BY <1>4 DEF ToggleMy, Unsettled
  <1>5. ASSUME NEW r \in Requests, NEW l \in Lectures, ClickVote(r, l) \/ ClickLecture(r, l)
        PROVE  crossed' \in BOOLEAN
    BY <1>5 DEF ClickVote, ClickLecture
  <1>6. ASSUME NEW s \in Sections, ToggleFilter(s) PROVE crossed' \in BOOLEAN
    BY <1>6 DEF ToggleFilter
  <1>7. CASE UNCHANGED vars
    BY <1>7 DEF vars
  <1>. QED
    BY <1>1, <1>2, <1>3, <1>4, <1>5, <1>6, <1>7 DEF Next

LEMMA RoomStep == VoteInv /\ RoomInv /\ [Next]_vars => RoomInv'
  <1>. SUFFICES ASSUME VoteInv, RoomInv, [Next]_vars PROVE RoomInv'
    OBVIOUS
  <1>1. VoteInv' /\ crossed' \in BOOLEAN
    BY VotingStep, CrossedBoolean DEF RoomInv
  <1>2. \A l \in Lectures, u \in Users : rows[l][u] \in Nat
    BY DEF VoteInv, VoteTypes
  <1>3. ASSUME NEW r \in Requests, Check(r) PROVE RoomInv'
    <2>1. reqs[r] \in VoteRequest
      BY <1>3, IsVote DEF Check, VoteInv, Places
    <2>2. PICK a \in {"checked", "refused"} :
            /\ reqs' = [reqs EXCEPT ![r].at = a]
            /\ a = "checked" => (Voted(reqs[r].lec, reqs[r].user) <=> reqs[r].op = "unvote")
      BY <1>3 DEF Check, Answer
    <2>3. /\ reqs'[r].at = a /\ reqs'[r].op = reqs[r].op
          /\ reqs'[r].lec = reqs[r].lec /\ reqs'[r].user = reqs[r].user
          /\ \A s \in Requests \ {r} : reqs'[s] = reqs[s]
      BY <1>3, <2>1, <2>2, Retag DEF VoteInv, VoteTypes, Places, Check
    <2>4. UNCHANGED rows /\ overlapped' \in BOOLEAN
      BY <1>3 DEF Check
    <2>5. ASSUME NEW l \in Lectures, NEW u \in Users, rows[l][u] # 0
          PROVE  Inserting(l, u)' \subseteq Inserting(l, u)
      <3>1. rows[l][u] > 0
        BY <1>2, <2>5
      <3>2. ~(a = "checked" /\ reqs[r].op = "vote" /\ reqs[r].lec = l /\ reqs[r].user = u)
        BY <2>2, <3>1 DEF Voted
      <3>. QED
        BY <2>3, <3>2 DEF Inserting
    <2>. QED
      BY <1>1, <1>2, <2>4, <2>5, RoomKept
  <1>4. ASSUME NEW r \in Requests, Insert(r) PROVE RoomInv'
    <2>1. PICK l \in Lectures, u \in Users : l = reqs[r].lec /\ u = reqs[r].user
      BY <1>4, IsVote, VoteFields DEF Insert, VoteInv
    <2>2. /\ rows' = [rows EXCEPT ![l][u] = @ + 1] /\ reqs' = [reqs EXCEPT ![r].at = "done"]
          /\ reqs[r].at = "checked" /\ reqs[r].op = "vote" /\ UNCHANGED overlapped
      BY <1>4, <2>1 DEF Insert, Answer
    <2>3. /\ rows'[l][u] = rows[l][u] + 1
          /\ \A k \in Lectures, v \in Users : k # l \/ v # u => rows'[k][v] = rows[k][v]
      BY <2>2 DEF VoteInv, VoteTypes
    <2>4. reqs'[r].at = "done" /\ \A s \in Requests \ {r} : reqs'[s] = reqs[s]
      <3>1. reqs[r] \in VoteRequest
        BY <2>2, IsVote DEF VoteInv
      <3>2. [reqs[r] EXCEPT !.at = "done"].at = "done"
        BY <3>1 DEF VoteRequest
      <3>. QED
        BY <2>2, <3>2 DEF VoteInv, VoteTypes
    <2>5. ASSUME NEW k \in Lectures, NEW v \in Users
          PROVE  (rows[k][v] + Cardinality(Inserting(k, v)) <= Cardinality(Requests))'
      <3>1. PICK A, B : A = Inserting(k, v) /\ B = Inserting(k, v)'
        OBVIOUS
      <3>2. A \in SUBSET Requests /\ B \in SUBSET A
        BY <2>4, <3>1 DEF Inserting
      <3>3. rows[k][v] + Cardinality(A) <= Cardinality(Requests) /\ rows[k][v] \in Nat
        BY <1>2, <3>1 DEF RoomInv
      <3>4. CASE k = l /\ v = u
        <4>1. r \in A /\ B \in SUBSET (A \ {r})
          BY <2>1, <2>2, <2>4, <3>1, <3>4 DEF Inserting
        <4>2. A \ {r} \in SUBSET Requests /\ B \in SUBSET Requests
          BY <3>2
        <4>3. /\ Cardinality(B) <= Cardinality(A \ {r}) /\ Cardinality(A \ {r}) = Cardinality(A) - 1
              /\ Cardinality(A) \in Nat /\ Cardinality(B) \in Nat /\ Cardinality(Requests) \in Nat
          BY <3>2, <4>1, <4>2, InsertingSize
        <4>. QED
          BY <2>3, <3>1, <3>3, <3>4, <4>3
      <3>5. CASE k # l \/ v # u
        <4>1. /\ Cardinality(B) <= Cardinality(A)
              /\ Cardinality(A) \in Nat /\ Cardinality(B) \in Nat /\ Cardinality(Requests) \in Nat
          BY <3>2, InsertingSize
        <4>. QED
          BY <2>3, <3>1, <3>3, <3>5, <4>1
      <3>. QED
        BY <3>4, <3>5
    <2>. QED
      BY <1>1, <2>2, <2>5 DEF RoomInv
  <1>5. ASSUME NEW r \in Requests, Destroy(r) PROVE RoomInv'
    <2>1. PICK l \in Lectures, u \in Users : l = reqs[r].lec /\ u = reqs[r].user
      BY <1>5, IsVote, VoteFields DEF Destroy, VoteInv
    <2>2. rows' = [rows EXCEPT ![l][u] = @ - 1] /\ UNCHANGED overlapped
      BY <1>5, <2>1 DEF Destroy
    <2>3. \A k \in Lectures, v \in Users : rows'[k][v] <= rows[k][v]
      BY <1>2, <2>2 DEF VoteInv, VoteTypes
    <2>4. \A s \in Requests : reqs'[s].at = "checked" => reqs'[s] = reqs[s]
      <3>. DEFINE q == reqs[r]
                  same == {s \in Requests \ {r} : reqs[s].at = "found" /\ Same(s, r)}
                  gone(s) == [reqs[s] EXCEPT !.at = "gone"]
                  answered == [q EXCEPT !.at = "done"]
      <3>1. reqs' = [s \in Requests |-> IF s = r THEN answered
                                        ELSE IF s \in same THEN gone(s) ELSE reqs[s]]
        BY <1>5 DEF Destroy, Same
      <3>2. q \in VoteRequest /\ \A s \in same : reqs[s] \in VoteRequest
        BY <1>5, IsVote DEF Destroy, VoteInv
      <3>3. answered.at = "done" /\ \A s \in same : gone(s).at = "gone"
        BY <3>2 DEF VoteRequest
      <3>. HIDE DEF q, same, gone, answered
      <3>. QED
        BY <3>1, <3>3
    <2>5. \A k \in Lectures, v \in Users : Inserting(k, v)' \subseteq Inserting(k, v)
      BY <2>4 DEF Inserting
    <2>6. overlapped' \in BOOLEAN
      BY <2>2 DEF RoomInv
    <2>. QED
      BY <1>1, <2>3, <2>5, <2>6, RoomKept
  <1>6. CASE \A r \in Requests : ~Check(r) /\ ~Insert(r) /\ ~Destroy(r)
    <2>1. /\ UNCHANGED <<rows, overlapped>>
          /\ \A k \in Lectures, v \in Users : Inserting(k, v)' \subseteq Inserting(k, v)
      BY <1>6, OtherSteps DEF Inserting
    <2>2. \A k \in Lectures, v \in Users : rows'[k][v] <= rows[k][v]
      BY <1>2, <2>1
    <2>3. overlapped' \in BOOLEAN
      BY <2>1 DEF RoomInv
    <2>. QED
      BY <1>1, <2>1, <2>2, <2>3, RoomKept
  <1>. QED
    BY <1>3, <1>4, <1>5, <1>6

\* The tables, the requests and the page hold what they can hold; no user has
\* more rows for a lecture than requests can be in flight.
THEOREM VotingTypesAlways == Spec => []TypeOK
  <1>1. ASSUME VoteInv, PageInv, CounterInv, RoomInv PROVE TypeOK
    <2>1. rows \in [Lectures -> [Users -> 0..Cardinality(Requests)]]
      <3>1. ASSUME NEW l \in Lectures, NEW u \in Users PROVE rows[l][u] \in 0..Cardinality(Requests)
        <4>1. Inserting(l, u) \in SUBSET Requests
          BY DEF Inserting
        <4>2. Cardinality(Inserting(l, u)) \in Nat /\ Cardinality(Requests) \in Nat
          BY <4>1, InsertingSize
        <4>3. rows[l][u] \in Nat /\ rows[l][u] + Cardinality(Inserting(l, u)) <= Cardinality(Requests)
          BY <1>1 DEF VoteInv, VoteTypes, RoomInv
        <4>. QED
          BY <4>2, <4>3
      <3>. QED
        BY <1>1, <3>1 DEF VoteInv, VoteTypes
    <2>2. counter \in [Lectures -> Nat]
      <3>1. ASSUME NEW l \in Lectures PROVE counter[l] \in Nat
        <4>1. PICK g : g = rows[l]
          OBVIOUS
        <4>2. \A u \in Users : g[u] \in Nat
          BY <1>1, <4>1 DEF VoteInv, VoteTypes
        <4>3. Total(g, Users) \in Nat
          BY <4>2, TotalNat, VotingAssumption
        <4>. QED
          BY <1>1, <4>1, <4>3 DEF CounterInv
      <3>. QED
        BY <1>1, <3>1 DEF VoteInv, VoteTypes
    <2>3. \A r \in Requests :
            \/ reqs[r] = Idle
            \/ /\ reqs[r].at \in {"sent", "checked", "found", "gone", "done", "refused"}
               /\ \/ reqs[r].op = "mine" /\ reqs[r].user = Me
                  \/ /\ reqs[r].op \in {"vote", "unvote"}
                     /\ reqs[r].user \in Users /\ reqs[r].lec \in Lectures
      BY <1>1, VoteFields DEF VoteInv, VoteTypes, Request, MineRequest, Places
    <2>4. /\ page.kind \in {"list", "schedule"} /\ page.clicks \in 0..MaxClicks
          /\ page.checked \subseteq Sections
          /\ page.added \cup page.disable \cup page.enable \subseteq Lectures
      BY <1>1 DEF PageInv, PageTypes
    <2>5. {overlapped, crossed} \subseteq BOOLEAN
      BY <1>1 DEF RoomInv
    <2>. QED
      BY <2>1, <2>2, <2>3, <2>4, <2>5 DEF TypeOK
  <1>. QED
    BY <1>1, VotingInitial, VotingStep, PageInvariant, CounterInitial, CounterStep,
       RoomInitial, RoomStep, PTL DEF Spec

=============================================================================
