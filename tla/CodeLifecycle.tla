--------------------------- MODULE CodeLifecycle ---------------------------
(***************************************************************************)
(* The life of an activation code as app/models/ticket_code.rb declares it *)
(* and the messages of its forms promise it: a code is redeemed at most    *)
(* once, by one user who has no ticket of its kind, or whose ticket is     *)
(* canceled in exchange; a canceled code never comes back; only a code     *)
(* nobody used is deleted.  Activation.tla is the implementation.          *)
(***************************************************************************)
EXTENDS CodeBook

VARIABLES
  codeState,  \* [Codes -> CodeStates]
  owner       \* [Codes -> Users \cup {NoUser}]: who has the code's ticket

vars == <<codeState, owner>>

Owned(u, k) == {c \in Codes : owner[c] = u /\ CodeKind[c] = k}

Init ==
  /\ codeState \in [Codes -> {"absent", "new"}]
  /\ owner = [c \in Codes |-> NoUser]

Issue(c) ==
  /\ codeState[c] = "absent"
  /\ codeState' = [codeState EXCEPT ![c] = "new"]
  /\ UNCHANGED owner

\* event :activate, together with the ticket.
Redeem(c, u) ==
  /\ codeState[c] = "new" /\ Owned(u, CodeKind[c]) = {}
  /\ codeState' = [codeState EXCEPT ![c] = "active"]
  /\ owner' = [owner EXCEPT ![c] = u]

\* The administrator's activation cancels what the user had.
Replace(c, u) ==
  /\ codeState[c] = "new"
  /\ \E d \in Owned(u, CodeKind[c]) :
       /\ codeState' = [codeState EXCEPT ![d] = "canceled", ![c] = "active"]
       /\ owner' = [owner EXCEPT ![d] = NoUser, ![c] = u]

\* event :cancel of some codes; their tickets are taken back now, or later.
Cancel(cs) ==
  /\ \A c \in cs : codeState[c] \in {"new", "active", "canceled"}
  /\ codeState' = [c \in Codes |-> IF c \in cs THEN "canceled" ELSE codeState[c]]
  /\ \E now \in SUBSET cs : owner' = [c \in Codes |-> IF c \in now THEN NoUser ELSE owner[c]]

Release(c) ==
  /\ codeState[c] = "canceled"
  /\ owner' = [owner EXCEPT ![c] = NoUser]
  /\ UNCHANGED codeState

Destroy(c) ==
  /\ codeState[c] = "new" /\ owner[c] = NoUser
  /\ codeState' = [codeState EXCEPT ![c] = "destroyed"]
  /\ UNCHANGED owner

Next ==
  \/ \E c \in Codes : Issue(c) \/ Release(c) \/ Destroy(c)
  \/ \E c \in Codes, u \in Users : Redeem(c, u) \/ Replace(c, u)
  \/ \E cs \in SUBSET Codes : Cancel(cs)

Spec == Init /\ [][Next]_vars

=============================================================================
