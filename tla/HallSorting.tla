----------------------------- MODULE HallSorting -----------------------------
(***************************************************************************)
(* The administrator's list of halls, sorted by dragging: every drop sends *)
(* the whole order (admin/sortable.js), and the server loads and saves the *)
(* halls one after the other (controllers/api/halls_controller.rb).        *)
(* Requests may overtake each other, overlap, and stop half way: at a hall *)
(* that another administrator has deleted, or when their worker is killed. *)
(***************************************************************************)
EXTENDS Integers, Sequences, SequencesExt, FiniteSets

CONSTANTS
  Halls,        \* the halls of the list
  MaxDrops      \* bound: drops

ASSUME SortingAssumption == IsFiniteSet(Halls) /\ MaxDrops \in Nat

VARIABLES
  hsList,       \* the order shown
  hsPos,        \* [Halls -> Int]: position_sorting; -1: the hall is deleted
  hsReqs,       \* requests under way: [n, ids, done, seen]; seen is the position
                \* the next hall was loaded with, -1 until it is loaded
  hsDrops,      \* drops so far
  hsAlone       \* ghost: the drop that is, or was last, processed since its first
                \* hall with no step of another in between; 0: none

hsVars == <<hsList, hsPos, hsReqs, hsDrops, hsAlone>>

HsStart(order) ==
  /\ hsList = order
  /\ hsPos = [h \in Halls |-> (CHOOSE i \in 1..Len(order) : order[i] = h) - 1]
  /\ hsReqs = {} /\ hsDrops = 0 /\ hsAlone = 0

HsInit == \E order \in SetToSeqs(Halls) : HsStart(order)

-----------------------------------------------------------------------------
\* update of sortable: one hall is moved, the ids of all are sent.
Drop(i, j) ==
  /\ hsDrops < MaxDrops /\ i # j
  /\ hsList' = InsertAt(RemoveAt(hsList, i), j, hsList[i])
  /\ hsReqs' = hsReqs \cup {[n |-> hsDrops + 1, ids |-> hsList', done |-> 0, seen |-> -1]}
  /\ hsDrops' = hsDrops + 1
  /\ UNCHANGED <<hsPos, hsAlone>>

HsHall(r) == r.ids[r.done + 1]

\* Request r takes a step, after its own last one or after another's.
HsStep(r) == hsAlone' = IF hsAlone = r.n \/ (r.done = 0 /\ r.seen = -1) THEN r.n ELSE 0

\* sort: Hall.find of the next hall.
FindHall(r) ==
  /\ r.seen = -1 /\ hsPos[HsHall(r)] # -1
  /\ hsReqs' = (hsReqs \ {r}) \cup {[r EXCEPT !.seen = hsPos[HsHall(r)]]}
  /\ HsStep(r)
  /\ UNCHANGED <<hsList, hsPos, hsDrops>>

HsGoOn(r) ==
  hsReqs' = (hsReqs \ {r}) \cup
    (IF r.done + 1 < Len(r.ids) THEN {[r EXCEPT !.done = @ + 1, !.seen = -1]} ELSE {})

\* Mutant: a hall only ever moves down the list.
SaveHallDown(r) ==
  /\ r.seen # -1
  /\ hsPos' = IF r.seen >= r.done \/ hsPos[HsHall(r)] = -1
              THEN hsPos ELSE [hsPos EXCEPT ![HsHall(r)] = r.done]
  /\ HsGoOn(r) /\ HsStep(r)
  /\ UNCHANGED <<hsList, hsDrops>>

\* hall.save: an UPDATE by id, none when the position is the one loaded.
SaveHall(r) ==
  /\ r.seen # -1
  /\ hsPos' = IF r.seen = r.done \/ hsPos[HsHall(r)] = -1
              THEN hsPos ELSE [hsPos EXCEPT ![HsHall(r)] = r.done]
  /\ HsGoOn(r) /\ HsStep(r)
  /\ UNCHANGED <<hsList, hsDrops>>

\* Hall.find raises, hall.save is refused, or the worker is killed: what was
\* saved stays, the rest of the order is dropped.
SortFails(r) ==
  /\ hsReqs' = hsReqs \ {r}
  /\ hsAlone' = 0
  /\ UNCHANGED <<hsList, hsPos, hsDrops>>

\* Another administrator deletes a hall; this list is not told.
DeleteHall(h) ==
  /\ \A g \in Halls : hsPos[g] # -1
  /\ hsPos' = [hsPos EXCEPT ![h] = -1]
  /\ UNCHANGED <<hsList, hsReqs, hsDrops, hsAlone>>

HsNext ==
  \/ \E i \in 1..Len(hsList), j \in 1..Len(hsList) : Drop(i, j)
  \/ \E r \in hsReqs : FindHall(r) \/ SaveHall(r) \/ SortFails(r)
  \/ \E h \in Halls : DeleteHall(h)

HsSpec == HsInit /\ [][HsNext]_hsVars

-----------------------------------------------------------------------------
HsTypeOK ==
  /\ hsList \in SetToSeqs(Halls)
  /\ hsPos \in [Halls -> -1..Cardinality(Halls)]
  /\ \A r \in hsReqs :
       /\ r.n \in 1..MaxDrops /\ r.done \in 0..(Len(r.ids) - 1)
       /\ r.seen \in -1..Cardinality(Halls)
  /\ hsAlone \in 0..hsDrops

\* Every drop sends the whole order, so the request of the last one, processed to
\* its end with no step of another in between, gives the schedule's columns the
\* order of the list, whatever order and equal positions earlier requests that
\* overlapped, failed or came late had left (halls_controller.rb:7-14).
SavedAsShown ==
  hsAlone = hsDrops /\ hsDrops > 0 /\ (\A r \in hsReqs : r.n # hsDrops) =>
    \A i \in 1..Len(hsList) : hsPos[hsList[i]] \in {i - 1, -1}

=============================================================================
