-------------------------- MODULE ActivationProofs --------------------------
(***************************************************************************)
(* Theorems about Activation, for any number of workers, codes and         *)
(* tickets; those of the last sections for requests that do not overlap.   *)
(***************************************************************************)
EXTENDS Activation, TLAPS

(* Helpers: the request records the handlers build are well typed.         *)

LEMMA IdleType == Idle \in Requests
  BY DEF Idle, Requests, Places, CodeStates

LEMMA RequestType ==
  ASSUME TypeOK, NEW u \in Users, NEW c \in Codes, NEW p \in Places
  PROVE  Request(u, c, p) \in Requests
  BY IdleType DEF Request, Idle, Requests, TypeOK

LEMMA DoneType ==
  ASSUME TypeOK, NEW w \in Workers, Done(w)
  PROVE  req' \in [Workers -> Requests]
  BY IdleType DEF Done, TypeOK

LEMMA GoOnType ==
  ASSUME TypeOK, NEW w \in Workers, NEW p \in Places, GoOn(w, p)
  PROVE  req' \in [Workers -> Requests]
<1>1. [req[w] EXCEPT !.at = p] \in Requests
  BY DEF TypeOK, Requests
<1>2. req' = [req EXCEPT ![w] = [req[w] EXCEPT !.at = p]]
  BY DEF GoOn, TypeOK
<1>. QED
  BY <1>1, <1>2 DEF TypeOK

LEMMA RowTypes ==
  ASSUME NEW u, NEW k, NEW c, NEW r \in Requests
  PROVE  /\ Held(u, k) \subseteq Tickets
         /\ TicketsWith(c) \subseteq Tickets
         /\ OneOf(Held(u, k)) \subseteq Tickets \cup {NoTicket}
         /\ OneOf(TicketsWith(c)) \subseteq Tickets \cup {NoTicket}
         /\ Rows(r.found) \subseteq Tickets
         /\ Rows(NoTicket) \subseteq Tickets
  BY DEF Held, TicketsWith, OneOf, Rows, Requests

\* Every variable of a reachable state has its type.
THEOREM ActivationTypeCorrect == Spec => []TypeOK
<1>1. Init => TypeOK
  BY IdleType, ActivationAssumption, CodeBookAssumption
  DEF Init, TypeOK, CodeStates, SoldTickets, SoldCodes
<1>2. TypeOK /\ [Next]_vars => TypeOK'
  <2> SUFFICES ASSUME TypeOK, [Next]_vars PROVE TypeOK'
    OBVIOUS
  <2> USE DEF tables
  <2>0. /\ {"vacant", "service", "own", "find", "release", "cancel", "commit"} \subseteq Places
        /\ {"active", "canceled", "new", "destroyed"} \subseteq CodeStates
    BY DEF Places, CodeStates
  <2>1. ASSUME NEW c \in Codes, CreateCode(c) PROVE TypeOK'
    BY <2>0, <2>1 DEF CreateCode, TypeOK
  <2>2. ASSUME NEW w \in Workers, Refund(w) PROVE TypeOK'
    BY <2>0, <2>2 DEF Refund, TypeOK
  <2>3. ASSUME NEW w \in Workers, NEW c \in Codes, DestroyRequest(w, c) PROVE TypeOK'
    <3>1. [Idle EXCEPT !.at = "destroy", !.code = c] \in Requests
      BY IdleType DEF Requests, Places
    <3>. QED
      BY <2>3, <3>1 DEF DestroyRequest, TypeOK
  <2>4. ASSUME NEW w \in Workers, NEW c \in Codes, NEW u \in Users, Activate(w, u, c)
        PROVE  TypeOK'
    <3>1. Request(u, c, "own") \in Requests
      BY <2>0, RequestType
    <3>. QED
      BY <2>4, <3>1 DEF Activate, TypeOK
  <2>5. ASSUME NEW w \in Workers, NEW c \in Codes, NEW u \in Users, ActivateForUser(w, u, c)
        PROVE  TypeOK'
    <3>0. Request(u, c, "service") \in Requests
      BY <2>0, RequestType
    <3>1. [Request(u, c, "service") EXCEPT !.admin = TRUE] \in Requests
      BY <3>0 DEF Requests
    <3>. QED
      BY <2>5, <3>1 DEF ActivateForUser, TypeOK
  <2>6. ASSUME NEW w \in Workers, NEW c \in Codes, NEW u \in Users, ActivateOnCodePage(w, u, c)
        PROVE  TypeOK'
    <3>0. Request(u, c, "vacant") \in Requests
      BY <2>0, RequestType
    <3>1. [Request(u, c, "vacant") EXCEPT !.admin = TRUE] \in Requests
      BY <3>0 DEF Requests
    <3>. QED
      BY <2>6, <3>1 DEF ActivateOnCodePage, TypeOK
  <2>7. ASSUME NEW w \in Workers, NEW u \in Users, NEW k \in Kinds, CancelTicket(w, u, k)
        PROVE  TypeOK'
    <3>1. PICK h \in Held(u, k) :
            req' = [req EXCEPT ![w] = [Idle EXCEPT !.at = "cancel", !.user = u, !.held = h]]
      BY <2>7 DEF CancelTicket
    <3>2. h \in Tickets
      BY DEF Held
    <3>3. [Idle EXCEPT !.at = "cancel", !.user = u, !.held = h] \in Requests
      BY <2>0, <3>2, IdleType DEF Requests
    <3>. QED
      BY <2>7, <3>1, <3>3 DEF CancelTicket, TypeOK
  <2>8. ASSUME NEW w \in Workers, CheckVacant(w) PROVE TypeOK'
    <3>1. req' \in [Workers -> Requests]
      BY <2>0, <2>8, DoneType, GoOnType DEF CheckVacant
    <3>. QED
      BY <2>8, <3>1 DEF CheckVacant, TypeOK
  <2>9. ASSUME NEW w \in Workers, FindNewCode(w) PROVE TypeOK'
    <3>1. [req[w] EXCEPT !.at = "own", !.seen = "new"] \in Requests
      BY <2>0 DEF TypeOK, Requests
    <3>2. req' \in [Workers -> Requests]
      BY <2>9, <3>1, DoneType DEF FindNewCode, TypeOK
    <3>. QED
      BY <2>9, <3>2 DEF FindNewCode, TypeOK
  <2>10. ASSUME NEW w \in Workers, ReadOwn(w) PROVE TypeOK'
    <3>1. ASSUME NEW h \in Tickets \cup {NoTicket},
                 req' = [req EXCEPT ![w] = [@ EXCEPT !.at = "commit", !.held = h]]
          PROVE  req' \in [Workers -> Requests]
      <4>1. PICK r : r = [req[w] EXCEPT !.at = "commit", !.held = h]
        OBVIOUS
      <4>2. r \in Requests
        BY <2>0, <4>1 DEF TypeOK, Requests
      <4>3. req' = [req EXCEPT ![w] = r]
        BY <3>1, <4>1
      <4>. QED
        BY <4>2, <4>3 DEF TypeOK
    <3>2. req' \in [Workers -> Requests]
      BY <2>0, <2>10, <3>1, RowTypes, DoneType, GoOnType, IdleType DEF ReadOwn
    <3>. QED
      BY <2>10, <3>2 DEF ReadOwn, TypeOK
  <2>11. ASSUME NEW w \in Workers, FindTicket(w) PROVE TypeOK'
    <3>1. PICK t \in OneOf(TicketsWith(req[w].code)) :
            req' = [req EXCEPT ![w] = [@ EXCEPT !.at = "commit", !.found = t,
                                          !.mine = t # NoTicket /\ holder[t] = req[w].user]]
      BY <2>11 DEF FindTicket
    <3>2. PICK mine \in BOOLEAN : mine = (t # NoTicket /\ holder[t] = req[w].user)
      OBVIOUS
    <3>3. PICK r : r = [req[w] EXCEPT !.at = "commit", !.found = t, !.mine = mine]
      OBVIOUS
    <3>4. r \in Requests
      BY <2>0, <3>3, RowTypes, IdleType DEF TypeOK, Requests
    <3>5. req' = [req EXCEPT ![w] = r]
      BY <3>1, <3>2, <3>3
    <3>. QED
      BY <2>11, <3>4, <3>5 DEF FindTicket, TypeOK
  <2>12. ASSUME NEW w \in Workers, CommitUser(w) PROVE TypeOK'
    <3>. DEFINE r == req[w]
    <3>1. r \in Requests
      BY DEF TypeOK
    <3>2. CASE Activates(r)
      <4>1. PICK t \in Rows(r.found) :
              /\ ticketCode' = [ticketCode EXCEPT ![t] = r.code]
              /\ holder' = IF r.mine THEN holder ELSE [holder EXCEPT ![t] = r.user]
        BY <2>12, <3>2 DEF CommitUser
      <4>2. codeState' = [codeState EXCEPT ![r.code] = "active"]
        BY <2>12, <3>2 DEF CommitUser
      <4>3. r.code \in Codes \cup {NoCode} /\ r.user \in Users \cup {NoUser}
        BY <3>1 DEF Requests
      <4>4. req' \in [Workers -> Requests]
        BY <2>12, DoneType DEF CommitUser
      <4>. QED
        BY <2>0, <2>12, <4>1, <4>2, <4>3, <4>4 DEF CommitUser, TypeOK
    <3>3. CASE ~Activates(r)
      BY <2>12, <3>3, DoneType DEF CommitUser, TypeOK
    <3>. QED
      BY <3>2, <3>3
  <2>13. ASSUME NEW w \in Workers, CommitAdmin(w) PROVE TypeOK'
    <3>. DEFINE r == req[w]
    <3>1. r \in Requests
      BY DEF TypeOK
    <3>2. CASE Activates(r)
      <4>1. PICK t \in Rows(NoTicket) :
              /\ ticketCode' = [ticketCode EXCEPT ![t] = r.code]
              /\ holder' = [s \in Tickets |-> IF s = t THEN r.user
                                              ELSE IF s = r.held THEN NoUser ELSE holder[s]]
        BY <2>13, <3>2 DEF CommitAdmin
      <4>2. codeState' = [c \in Codes |-> IF c = r.code THEN "active"
                                          ELSE IF c \in Released(r) THEN "canceled"
                                          ELSE codeState[c]]
        BY <2>13, <3>2 DEF CommitAdmin
      <4>3. r.code \in Codes \cup {NoCode} /\ r.user \in Users \cup {NoUser}
        BY <3>1 DEF Requests
      <4>4. req' \in [Workers -> Requests]
        BY <2>13, DoneType DEF CommitAdmin
      <4>. QED
        BY <2>0, <2>13, <4>1, <4>2, <4>3, <4>4 DEF CommitAdmin, TypeOK
    <3>3. CASE ~Activates(r)
      BY <2>13, <3>3, DoneType DEF CommitAdmin, TypeOK
    <3>. QED
      BY <3>2, <3>3
  <2>14. ASSUME NEW w \in Workers, DestroyCode(w) PROVE TypeOK'
    BY <2>0, <2>14, DoneType DEF DestroyCode, TypeOK
  <2>15. ASSUME NEW w \in Workers, CancelCode(w) PROVE TypeOK'
    BY <2>0, <2>15, GoOnType DEF CancelCode, TypeOK
  <2>16. ASSUME NEW w \in Workers, ReleaseTicket(w) PROVE TypeOK'
    BY <2>16, DoneType DEF ReleaseTicket, TypeOK
  <2>17. ASSUME NEW w \in Workers, Abort(w) PROVE TypeOK'
    BY <2>17, DoneType DEF Abort, TypeOK
  <2>18. CASE UNCHANGED vars
    BY <2>18 DEF vars, TypeOK
  <2>19. ASSUME NEW w \in Workers, Arrive(w) PROVE TypeOK'
    BY <2>2, <2>3, <2>4, <2>5, <2>6, <2>7, <2>19 DEF Arrive
  <2>20. ASSUME NEW w \in Workers, Serve(w) PROVE TypeOK'
    BY <2>8, <2>9, <2>10, <2>11, <2>12, <2>13, <2>14, <2>15, <2>16, <2>20 DEF Serve
  <2>. QED
    BY <2>1, <2>17, <2>18, <2>19, <2>20 DEF Next
<1>. QED
  BY <1>1, <1>2, PTL DEF Spec

-----------------------------------------------------------------------------
(* A held ticket's code was activated with it.                             *)

\* A ticket keeps its code, a used code stays used, no code vanishes unseen.
LEMMA CodesStay ==
  ASSUME TypeOK, UsedInv, [Next]_vars
  PROVE  /\ \A t \in Tickets : ticketCode[t] # NoCode => ticketCode'[t] = ticketCode[t]
         /\ \A t \in Tickets : Used(t) => Used(t)'
         /\ \A c \in Codes : codeState[c] # "absent" => codeState'[c] # "absent"
<1> USE DEF tables
<1>. DEFINE Stay == /\ \A t \in Tickets : ticketCode[t] # NoCode => ticketCode'[t] = ticketCode[t]
                    /\ \A t \in Tickets : Used(t) => Used(t)'
                    /\ \A c \in Codes : codeState[c] # "absent" => codeState'[c] # "absent"
<1>1. CASE UNCHANGED <<codeState, ticketCode>>
  BY <1>1 DEF Used
<1>2. ASSUME NEW c \in Codes, CreateCode(c) PROVE Stay
  BY <1>2 DEF CreateCode, Used, TypeOK
<1>3. ASSUME NEW w \in Workers, Refund(w) PROVE Stay
  BY <1>3 DEF Refund, Used, TypeOK
<1>4. ASSUME NEW w \in Workers, DestroyCode(w) PROVE Stay
  BY <1>4 DEF DestroyCode, TicketsWith, Used, TypeOK
<1>5. ASSUME NEW w \in Workers, CommitUser(w) PROVE Stay
  <2>. DEFINE r == req[w]
  <2>1. r \in Requests /\ Sound(r)
    BY DEF TypeOK, UsedInv
  <2>2. CASE ~Activates(r)
    BY <1>1, <1>5, <2>2 DEF CommitUser
  <2>3. CASE Activates(r)
    <3>1. PICK t \in Rows(r.found) : ticketCode' = [ticketCode EXCEPT ![t] = r.code]
      BY <1>5, <2>3 DEF CommitUser
    <3>2. codeState' = [codeState EXCEPT ![r.code] = "active"]
      BY <1>5, <2>3 DEF CommitUser
    <3>3. t \in Tickets /\ (ticketCode[t] # NoCode => ticketCode[t] = r.code)
      BY <2>1 DEF Rows, Sound, Requests
    <3>. QED
      BY <3>1, <3>2, <3>3 DEF Used, TypeOK
  <2>. QED
    BY <2>2, <2>3
<1>6. ASSUME NEW w \in Workers, CommitAdmin(w) PROVE Stay
  <2>. DEFINE r == req[w]
  <2>1. r \in Requests /\ Sound(r)
    BY DEF TypeOK, UsedInv
  <2>2. CASE ~Activates(r)
    BY <1>1, <1>6, <2>2 DEF CommitAdmin
  <2>3. CASE Activates(r)
    <3>1. PICK t \in Rows(NoTicket) : ticketCode' = [ticketCode EXCEPT ![t] = r.code]
      BY <1>6, <2>3 DEF CommitAdmin
    <3>2. codeState' = [c \in Codes |-> IF c = r.code THEN "active"
                                        ELSE IF c \in Released(r) THEN "canceled"
                                        ELSE codeState[c]]
      BY <1>6, <2>3 DEF CommitAdmin
    <3>3. t \in Tickets /\ ticketCode[t] = NoCode
      BY DEF Rows
    <3>4. \A s \in Tickets : s # t => ticketCode'[s] = ticketCode[s]
      BY <3>1 DEF TypeOK
    <3>5. \A c \in Codes : \/ codeState'[c] \in {"active", "canceled"}
                           \/ codeState'[c] = codeState[c]
      BY <3>2
    <3>. QED
      BY <3>3, <3>4, <3>5 DEF Used, TypeOK
  <2>. QED
    BY <2>2, <2>3
<1>7. ASSUME NEW w \in Workers, CancelCode(w) PROVE Stay
  BY <1>7 DEF CancelCode, Used, TypeOK
<1>. QED
  BY <1>1, <1>2, <1>3, <1>4, <1>5, <1>6, <1>7
  DEF Next, Arrive, Serve, vars, DestroyRequest, Activate, ActivateForUser,
      ActivateOnCodePage, CancelTicket, CheckVacant, FindNewCode, ReadOwn, FindTicket,
      ReleaseTicket, Abort

LEMMA SoundStays ==
  ASSUME TypeOK, UsedInv, [Next]_vars, NEW r \in Requests, Sound(r)
  PROVE  Sound(r)'
<1>1. r.found # NoTicket => r.found \in Tickets /\ ticketCode[r.found] # NoCode
  BY ActivationAssumption DEF Sound, Requests
<1>2. r.held # NoTicket => r.held \in Tickets
  BY DEF Requests
<1>3. r.found # NoTicket => ticketCode'[r.found] = r.code
  BY <1>1, CodesStay DEF Sound
<1>4. r.held # NoTicket => Used(r.held)'
  BY <1>2, CodesStay DEF Sound
<1>. QED
  BY <1>3, <1>4, CodesStay DEF Sound

LEMMA IdleSound == Sound(Idle)
  BY DEF Sound, Idle

\* A step gives at most one worker another request, and a sound one.
LEMMA RequestStep ==
  ASSUME TypeOK, UsedInv, [Next]_vars
  PROVE  \/ UNCHANGED req
         \/ \E w \in Workers, r \in Requests : Sound(r) /\ req' = [req EXCEPT ![w] = r]
<1> USE DEF tables
<1>. DEFINE Good == \/ UNCHANGED req
                    \/ \E w \in Workers, r \in Requests :
                         Sound(r) /\ req' = [req EXCEPT ![w] = r]
<1>0. \A w \in Workers : req[w] \in Requests /\ Sound(req[w])
  BY DEF TypeOK, UsedInv
<1>1. ASSUME NEW w \in Workers, Done(w) PROVE Good
  BY <1>1, IdleType, IdleSound DEF Done
<1>2. ASSUME NEW w \in Workers, NEW p \in Places, GoOn(w, p), req[w].at # "idle",
             \/ p \in {"service", "own", "find"} /\ req[w].at \in {"vacant", "own"}
             \/ p = "release" /\ req[w].at = "cancel",
             req[w].found = NoTicket
      PROVE  Good
  <2>1. PICK r : r = [req[w] EXCEPT !.at = p]
    OBVIOUS
  <2>2. r \in Requests
    BY <1>0, <2>1 DEF Requests
  <2>3. Sound(r)
    BY <1>0, <1>2, <2>1 DEF Sound, Requests
  <2>4. req' = [req EXCEPT ![w] = r]
    BY <1>2, <2>1 DEF GoOn
  <2>. QED
    BY <2>2, <2>3, <2>4
<1>2a. \A w \in Workers : req[w].at # "commit" => req[w].found = NoTicket
  BY <1>0 DEF Sound
<1>3. ASSUME NEW w \in Workers, NEW c \in Codes, DestroyRequest(w, c) PROVE Good
  <2>1. PICK r : r = [Idle EXCEPT !.at = "destroy", !.code = c]
    OBVIOUS
  <2>2. r \in Requests
    BY <2>1, IdleType DEF Requests, Places
  <2>3. Sound(r)
    BY <1>3, <2>1 DEF Sound, Idle, DestroyRequest
  <2>. QED
    BY <1>3, <2>1, <2>2, <2>3 DEF DestroyRequest
<1>4. ASSUME NEW u \in Users, NEW c \in Codes, NEW p \in {"own", "service", "vacant"},
             codeState[c] # "absent", NEW r,
             \/ r = Request(u, c, p)
             \/ r = [Request(u, c, p) EXCEPT !.admin = TRUE]
      PROVE  r \in Requests /\ Sound(r)
  <2>1. Request(u, c, p) \in Requests
    BY RequestType DEF Places
  <2>2. r \in Requests
    BY <1>4, <2>1 DEF Requests
  <2>3. r.at = p /\ r.user = u /\ r.code = c /\ r.found = NoTicket /\ r.held = NoTicket
    BY <1>4 DEF Request, Idle
  <2>4. u # NoUser
    BY CodeBookAssumption
  <2>5. Sound(r)
    BY <1>4, <2>3, <2>4 DEF Sound
  <2>. QED
    BY <2>2, <2>5
<1>5. ASSUME NEW w \in Workers, NEW u \in Users, NEW c \in Codes, Activate(w, u, c) PROVE Good
  <2>1. codeState[c] # "absent"
    BY <1>5 DEF Activate
  <2>2. Request(u, c, "own") \in Requests /\ Sound(Request(u, c, "own"))
    BY <1>4, <2>1
  <2>. QED
    BY <1>5, <2>2 DEF Activate
<1>6. ASSUME NEW w \in Workers, NEW u \in Users, NEW c \in Codes, ActivateForUser(w, u, c)
      PROVE  Good
  <2>1. PICK r : r = [Request(u, c, "service") EXCEPT !.admin = TRUE]
    OBVIOUS
  <2>2. r \in Requests /\ Sound(r)
    BY <1>4, <1>6, <2>1 DEF ActivateForUser
  <2>. QED
    BY <1>6, <2>1, <2>2 DEF ActivateForUser
<1>7. ASSUME NEW w \in Workers, NEW u \in Users, NEW c \in Codes, ActivateOnCodePage(w, u, c)
      PROVE  Good
  <2>1. PICK r : r = [Request(u, c, "vacant") EXCEPT !.admin = TRUE]
    OBVIOUS
  <2>2. r \in Requests /\ Sound(r)
    BY <1>4, <1>7, <2>1 DEF ActivateOnCodePage
  <2>. QED
    BY <1>7, <2>1, <2>2 DEF ActivateOnCodePage
<1>8. ASSUME NEW w \in Workers, NEW u \in Users, NEW k \in Kinds, CancelTicket(w, u, k)
      PROVE  Good
  <2>1. PICK h \in Held(u, k) :
          req' = [req EXCEPT ![w] = [Idle EXCEPT !.at = "cancel", !.user = u, !.held = h]]
    BY <1>8 DEF CancelTicket
  <2>2. PICK r : r = [Idle EXCEPT !.at = "cancel", !.user = u, !.held = h]
    OBVIOUS
  <2>3. h \in Tickets /\ holder[h] # NoUser
    BY CodeBookAssumption DEF Held
  <2>4. r \in Requests
    BY <2>2, <2>3, IdleType DEF Requests, Places
  <2>5. Sound(r)
    BY <2>2, <2>3, ActivationAssumption DEF Sound, Idle, UsedInv
  <2>. QED
    BY <2>1, <2>2, <2>4, <2>5
<1>9. ASSUME NEW w \in Workers, CheckVacant(w) PROVE Good
  <2>1. "service" \in Places /\ req[w].at = "vacant"
    BY <1>9 DEF Places, CheckVacant
  <2>2. CASE GoOn(w, "service")
    BY <1>2, <1>2a, <2>1, <2>2
  <2>. QED
    BY <1>1, <1>9, <2>2 DEF CheckVacant
<1>10. ASSUME NEW w \in Workers, FindNewCode(w) PROVE Good
  <2>1. PICK r : r = [req[w] EXCEPT !.at = "own", !.seen = "new"]
    OBVIOUS
  <2>2. r \in Requests
    BY <1>0, <2>1 DEF Requests, Places, CodeStates
  <2>3. Sound(r)
    BY <1>0, <1>2a, <1>10, <2>1 DEF Sound, Requests, FindNewCode
  <2>. QED
    BY <1>1, <1>10, <2>1, <2>2, <2>3 DEF FindNewCode
<1>11. ASSUME NEW w \in Workers, ReadOwn(w) PROVE Good
  <2>. DEFINE held == Held(req[w].user, CodeKind[req[w].code])
  <2>1. "find" \in Places /\ req[w].at = "own"
    BY <1>11 DEF Places, ReadOwn
  <2>2. CASE GoOn(w, "find")
    BY <1>2, <1>2a, <2>1, <2>2
  <2>3. ASSUME NEW h \in OneOf(held), req[w].admin,
               req' = [req EXCEPT ![w] = [@ EXCEPT !.at = "commit", !.held = h]]
        PROVE  Good
    <3>1. PICK r : r = [req[w] EXCEPT !.at = "commit", !.held = h]
      OBVIOUS
    <3>2. h \in Tickets \cup {NoTicket}
      BY RowTypes, IdleType
    <3>3. r \in Requests
      BY <1>0, <3>1, <3>2 DEF Requests, Places
    <3>4. h # NoTicket => Used(h)
      <4>1. SUFFICES ASSUME h # NoTicket PROVE Used(h)
        OBVIOUS
      <4>2. h \in held
        BY <4>1 DEF OneOf
      <4>3. ticketCode[h] # NoCode /\ h \in Tickets /\ holder[h] = req[w].user
        BY <4>2 DEF Held
      <4>4. req[w].user # NoUser
        BY <1>0, <2>1 DEF Sound
      <4>. QED
        BY <4>3, <4>4 DEF UsedInv
    <3>5. Sound(r)
      BY <1>0, <1>2a, <2>1, <3>1, <3>4 DEF Sound, Requests
    <3>6. req' = [req EXCEPT ![w] = r]
      BY <2>3, <3>1
    <3>. QED
      BY <3>3, <3>5, <3>6
  <2>. QED
    BY <1>1, <1>11, <2>2, <2>3 DEF ReadOwn
<1>12. ASSUME NEW w \in Workers, FindTicket(w) PROVE Good
  <2>1. PICK t \in OneOf(TicketsWith(req[w].code)) :
          req' = [req EXCEPT ![w] = [@ EXCEPT !.at = "commit", !.found = t,
                                        !.mine = t # NoTicket /\ holder[t] = req[w].user]]
    BY <1>12 DEF FindTicket
  <2>2. PICK mine \in BOOLEAN : mine = (t # NoTicket /\ holder[t] = req[w].user)
    OBVIOUS
  <2>3. PICK r : r = [req[w] EXCEPT !.at = "commit", !.found = t, !.mine = mine]
    OBVIOUS
  <2>4. r \in Requests
    BY <1>0, <2>3, RowTypes, IdleType DEF Requests, Places
  <2>5. t # NoTicket => ticketCode[t] = req[w].code
    BY DEF OneOf, TicketsWith
  <2>6. Sound(r)
    BY <1>0, <1>12, <2>3, <2>5 DEF Sound, Requests, FindTicket
  <2>7. req' = [req EXCEPT ![w] = r]
    BY <2>1, <2>2, <2>3
  <2>. QED
    BY <2>4, <2>6, <2>7
<1>13. ASSUME NEW w \in Workers, CancelCode(w) PROVE Good
  <2>1. "release" \in Places /\ req[w].at = "cancel" /\ GoOn(w, "release")
    BY <1>13 DEF Places, CancelCode
  <2>. QED
    BY <1>2, <1>2a, <2>1
<1>14. ASSUME NEW w \in Workers,
              CommitUser(w) \/ CommitAdmin(w) \/ DestroyCode(w) \/ ReleaseTicket(w) \/ Abort(w)
       PROVE  Good
  BY <1>1, <1>14 DEF CommitUser, CommitAdmin, DestroyCode, ReleaseTicket, Abort
<1>15. ASSUME NEW w \in Workers, Arrive(w) PROVE Good
  BY <1>3, <1>5, <1>6, <1>7, <1>8, <1>15 DEF Arrive, Refund
<1>16. ASSUME NEW w \in Workers, Serve(w) PROVE Good
  BY <1>9, <1>10, <1>11, <1>12, <1>13, <1>14, <1>16 DEF Serve
<1>. QED
  BY <1>14, <1>15, <1>16 DEF Next, CreateCode, vars

LEMMA UsedStep == TypeOK /\ UsedInv /\ [Next]_vars => UsedInv'
<1> SUFFICES ASSUME TypeOK, UsedInv, [Next]_vars PROVE UsedInv'
  OBVIOUS
<1> USE DEF tables
<1>. DEFINE Coded == \A t \in Tickets :
                       ticketCode[t] # NoCode => codeState[ticketCode[t]] \notin {"absent", "destroyed"}
            Held1 == \A t \in Tickets : holder[t] # NoUser => Used(t)
<1>0. Coded /\ Held1
  BY DEF UsedInv
<1>1. \A v \in Workers : Sound(req[v])'
  <2>1. \A v \in Workers : req[v] \in Requests /\ Sound(req[v])
    BY DEF TypeOK, UsedInv
  <2>2. CASE UNCHANGED req
    BY <2>1, <2>2, SoundStays
  <2>3. ASSUME NEW w \in Workers, NEW r \in Requests, Sound(r), req' = [req EXCEPT ![w] = r]
        PROVE  \A v \in Workers : Sound(req[v])'
    <3>1. \A v \in Workers : req'[v] \in Requests /\ Sound(req'[v])
      BY <2>1, <2>3 DEF TypeOK
    <3>2. ASSUME NEW v \in Workers PROVE Sound(req[v])'
      <4>1. PICK q \in Requests : q = req'[v] /\ Sound(q)
        BY <3>1
      <4>2. Sound(q)'
        BY <4>1, SoundStays
      <4>. QED
        BY <4>1, <4>2 DEF Sound
    <3>. QED
      BY <3>2
  <2>. QED
    BY <2>2, <2>3, RequestStep
<1>2. Coded' /\ Held1'
  <2>1. CASE UNCHANGED <<codeState, ticketCode, holder>>
    BY <1>0, <2>1 DEF Used
  <2>2. ASSUME NEW c \in Codes, CreateCode(c) PROVE Coded' /\ Held1'
    BY <1>0, <2>2 DEF CreateCode, Used, TypeOK
  <2>3. ASSUME NEW w \in Workers, Refund(w) PROVE Coded' /\ Held1'
    BY <1>0, <2>3 DEF Refund, Used, TypeOK
  <2>4. ASSUME NEW w \in Workers, DestroyCode(w) PROVE Coded' /\ Held1'
    BY <1>0, <2>4 DEF DestroyCode, TicketsWith, Used, TypeOK
  <2>5. ASSUME NEW w \in Workers, CommitUser(w), Activates(req[w]) PROVE Coded' /\ Held1'
    <3>. DEFINE r == req[w]
    <3>1. r \in Requests /\ Sound(r) /\ r.at = "commit"
      BY <2>5 DEF TypeOK, UsedInv, CommitUser
    <3>2. PICK t \in Rows(r.found) :
            /\ ticketCode' = [ticketCode EXCEPT ![t] = r.code]
            /\ holder' = IF r.mine THEN holder ELSE [holder EXCEPT ![t] = r.user]
      BY <2>5 DEF CommitUser
    <3>3. codeState' = [codeState EXCEPT ![r.code] = "active"]
      BY <2>5 DEF CommitUser
    <3>4. t \in Tickets /\ r.code \in Codes /\ r.code # NoCode
      BY <3>1, RowTypes, ActivationAssumption DEF Sound
    <3>5. ticketCode'[t] = r.code /\ codeState'[r.code] = "active"
      BY <3>2, <3>3, <3>4 DEF TypeOK
    <3>6. ASSUME NEW s \in Tickets, s # t
          PROVE  /\ ticketCode'[s] = ticketCode[s] /\ holder'[s] = holder[s]
                 /\ codeState'[ticketCode[s]] \in {"active", codeState[ticketCode[s]]}
      BY <3>2, <3>3, <3>6 DEF TypeOK
    <3>7. Used(t)' /\ \A s \in Tickets : s # t /\ Used(s) => Used(s)'
      BY <3>4, <3>5, <3>6 DEF Used
    <3>. QED
      BY <1>0, <3>5, <3>6, <3>7
  <2>6. ASSUME NEW w \in Workers, CommitAdmin(w), Activates(req[w]) PROVE Coded' /\ Held1'
    <3>. DEFINE r == req[w]
    <3>1. r \in Requests /\ Sound(r) /\ r.at = "commit"
      BY <2>6 DEF TypeOK, UsedInv, CommitAdmin
    <3>2. PICK t \in Rows(NoTicket) :
            /\ ticketCode' = [ticketCode EXCEPT ![t] = r.code]
            /\ holder' = [s \in Tickets |-> IF s = t THEN r.user
                                            ELSE IF s = r.held THEN NoUser ELSE holder[s]]
      BY <2>6 DEF CommitAdmin
    <3>3. codeState' = [c \in Codes |-> IF c = r.code THEN "active"
                                        ELSE IF c \in Released(r) THEN "canceled"
                                        ELSE codeState[c]]
      BY <2>6 DEF CommitAdmin
    <3>4. t \in Tickets /\ r.code \in Codes /\ r.code # NoCode
      BY <3>1, RowTypes, ActivationAssumption DEF Sound
    <3>5. ticketCode'[t] = r.code /\ codeState'[r.code] = "active"
      BY <3>2, <3>3, <3>4 DEF TypeOK
    <3>6. ASSUME NEW s \in Tickets, s # t
          PROVE  /\ ticketCode'[s] = ticketCode[s] /\ holder'[s] \in {NoUser, holder[s]}
                 /\ ticketCode[s] # NoCode =>
                      codeState'[ticketCode[s]] \in {"active", "canceled", codeState[ticketCode[s]]}
      <4>1. ticketCode[s] \in Codes \cup {NoCode}
        BY DEF TypeOK
      <4>. QED
        BY <3>2, <3>3, <3>6, <4>1 DEF TypeOK
    <3>7. Used(t)' /\ \A s \in Tickets : s # t /\ Used(s) => Used(s)'
      BY <3>4, <3>5, <3>6 DEF Used
    <3>. QED
      BY <1>0, <3>5, <3>6, <3>7
  <2>7. ASSUME NEW w \in Workers, CommitUser(w) \/ CommitAdmin(w), ~Activates(req[w])
        PROVE  Coded' /\ Held1'
    BY <2>1, <2>7 DEF CommitUser, CommitAdmin
  <2>8. ASSUME NEW w \in Workers, CancelCode(w) PROVE Coded' /\ Held1'
    BY <1>0, <2>8 DEF CancelCode, Used, TypeOK
  <2>9. ASSUME NEW w \in Workers, ReleaseTicket(w) PROVE Coded' /\ Held1'
    BY <1>0, <2>9 DEF ReleaseTicket, Used, TypeOK
  <2>10. ASSUME NEW w \in Workers, Arrive(w) PROVE Coded' /\ Held1'
    BY <2>1, <2>3, <2>10
    DEF Arrive, DestroyRequest, Activate, ActivateForUser, ActivateOnCodePage, CancelTicket
  <2>11. ASSUME NEW w \in Workers, Serve(w) \/ Abort(w) PROVE Coded' /\ Held1'
    BY <2>1, <2>4, <2>5, <2>6, <2>7, <2>8, <2>9, <2>11
    DEF Serve, CheckVacant, FindNewCode, ReadOwn, FindTicket, Abort
  <2>. QED
    BY <2>1, <2>2, <2>10, <2>11 DEF Next, vars
<1>3. \A t \in SoldTickets : ticketCode'[t] = Sold[t]
  <2>1. \A t \in SoldTickets : t \in Tickets /\ Sold[t] # NoCode
    BY ActivationAssumption DEF SoldTickets
  <2>. QED
    BY <2>1, CodesStay DEF UsedInv
<1>. QED
  BY <1>1, <1>2, <1>3 DEF UsedInv

LEMMA UsedInit == Init => UsedInv
<1> SUFFICES ASSUME Init PROVE UsedInv
  OBVIOUS
<1>1. ASSUME NEW t \in Tickets, ticketCode[t] # NoCode
      PROVE  codeState[ticketCode[t]] = "new"
  <2>1. t \in SoldTickets /\ ticketCode[t] = Sold[t]
    BY <1>1 DEF Init
  <2>2. Sold[t] \in SoldCodes /\ Sold[t] \in Codes
    BY <2>1, ActivationAssumption DEF SoldTickets, SoldCodes
  <2>. QED
    BY <2>1, <2>2 DEF Init
<1>2. \A t \in Tickets : holder[t] = NoUser
  BY DEF Init
<1>3. \A w \in Workers : Sound(req[w])
  BY IdleSound DEF Init
<1>4. \A t \in SoldTickets : ticketCode[t] = Sold[t]
  BY ActivationAssumption DEF Init, SoldTickets
<1>. QED
  BY <1>1, <1>2, <1>3, <1>4 DEF UsedInv

\* However activations, refunds, cancellations and deletions interleave, and
\* wherever requests die: the code of a held ticket was activated with it.
THEOREM HeldWasActivatedAlways == Spec => []HeldWasActivated
<1>1. UsedInv => HeldWasActivated
  BY DEF UsedInv, HeldWasActivated, Used
<1>. QED
  BY <1>1, UsedInit, UsedStep, ActivationTypeCorrect, PTL DEF Spec

-----------------------------------------------------------------------------
(* Requests that do not overlap.                                           *)

Serial == \A v, w \in Workers : v = w

LEMMA CurrentFrame ==
  ASSUME UNCHANGED tables, NEW r, Current(r)
  PROVE  Current(r)'
  BY DEF tables, Current, Held

LEMMA IdleCurrent == Current(Idle) /\ Current(Idle)'
  BY DEF Current, Idle

\* With one worker, its request stays current.
LEMMA CurrentStep ==
  ASSUME Serial, TypeOK, UsedInv, SerialInv, [Next]_vars
  PROVE  \A w \in Workers : Current(req[w])'
<1> USE DEF tables
<1>. DEFINE Good == \A w \in Workers : Current(req[w])'
<1>0. \A w \in Workers : req[w] \in Requests /\ Sound(req[w]) /\ Current(req[w])
  BY DEF TypeOK, UsedInv, SerialInv
<1>1. ASSUME NEW w \in Workers, NEW r, Current(r)', req' = [req EXCEPT ![w] = r] PROVE Good
  <2>1. req'[w] = r /\ \A v \in Workers : v = w
    BY <1>1 DEF TypeOK, Serial
  <2>2. Current(req[w])'
    BY <1>1, <2>1 DEF Current
  <2>. QED
    BY <2>1, <2>2
<1>2. ASSUME NEW w \in Workers, Done(w) PROVE Good
  BY <1>1, <1>2, IdleCurrent DEF Done
<1>3. ASSUME NEW w \in Workers, NEW r, Current(r), UNCHANGED tables,
             req' = [req EXCEPT ![w] = r]
      PROVE  Good
  BY <1>1, <1>3, CurrentFrame
<1>4. CASE UNCHANGED vars
  <2>1. ASSUME NEW w \in Workers PROVE Current(req[w])'
    BY <1>0, <1>4 DEF vars, Current, Held
  <2>. QED
    BY <2>1
<1>5. ASSUME NEW c \in Codes, CreateCode(c) PROVE Good
  <2>1. ASSUME NEW w \in Workers PROVE Current(req[w])'
    <3>1. codeState[c] = "absent" /\ codeState' = [codeState EXCEPT ![c] = "new"]
          /\ UNCHANGED <<ticketCode, holder, req>>
      BY <1>5 DEF CreateCode
    <3>2. \A d \in Codes : codeState[d] # "absent" => codeState'[d] = codeState[d]
      BY <3>1 DEF TypeOK
    <3>3. Current(req[w]) /\ Sound(req[w])
      BY <1>0
    <3>4. \A u, k : Held(u, k)' = Held(u, k)
      BY <3>1 DEF Held
    <3>5. /\ req[w].at = "release" => ticketCode[req[w].held] \in Codes
          /\ req[w].at \in {"own", "find", "commit", "destroy"} => req[w].code \in Codes
      BY <3>3 DEF Sound, Current
    <3>. QED
      BY <3>1, <3>2, <3>3, <3>4, <3>5 DEF Current, Sound
  <2>. QED
    BY <2>1
<1>6. ASSUME NEW w \in Workers, Refund(w) PROVE Good
  <2>1. req[w].at = "idle" /\ UNCHANGED req /\ \A v \in Workers : v = w
    BY <1>6 DEF Refund, Serial
  <2>2. Current(req[w])'
    BY <1>0, <2>1 DEF Current
  <2>. QED
    BY <2>1, <2>2
<1>7. ASSUME NEW w \in Workers, NEW c \in Codes, DestroyRequest(w, c) PROVE Good
  <2>1. PICK r : r = [Idle EXCEPT !.at = "destroy", !.code = c]
    OBVIOUS
  <2>2. Current(r)
    BY <1>7, <2>1 DEF Current, Idle, DestroyRequest
  <2>. QED
    BY <1>3, <1>7, <2>1, <2>2 DEF DestroyRequest
<1>8. ASSUME NEW w \in Workers, NEW u \in Users, NEW c \in Codes,
             Activate(w, u, c) \/ ActivateForUser(w, u, c) \/ ActivateOnCodePage(w, u, c)
      PROVE  Good
  <2>1. PICK r : /\ req' = [req EXCEPT ![w] = r]
                 /\ \/ r = Request(u, c, "own")
                    \/ \E p \in {"service", "vacant"} :
                         r = [Request(u, c, p) EXCEPT !.admin = TRUE]
    BY <1>8 DEF Activate, ActivateForUser, ActivateOnCodePage
  <2>2. /\ r.at \in {"own", "service", "vacant"} /\ r.code = c /\ ~r.mine
        /\ r.seen = codeState[c] /\ r.held = NoTicket
    BY <2>1 DEF Request, Idle
  <2>3. Current(r)
    BY <2>2 DEF Current
  <2>. QED
    BY <1>3, <1>8, <2>1, <2>3 DEF Activate, ActivateForUser, ActivateOnCodePage
<1>9. ASSUME NEW w \in Workers, NEW u \in Users, NEW k \in Kinds, CancelTicket(w, u, k)
      PROVE  Good
  <2>1. PICK h \in Held(u, k) :
          req' = [req EXCEPT ![w] = [Idle EXCEPT !.at = "cancel", !.user = u, !.held = h]]
    BY <1>9 DEF CancelTicket
  <2>2. PICK r : r = [Idle EXCEPT !.at = "cancel", !.user = u, !.held = h]
    OBVIOUS
  <2>3. h \in Tickets /\ holder[h] = u /\ ticketCode[h] # NoCode /\ u # NoUser
    BY CodeBookAssumption DEF Held
  <2>4. ticketCode[h] \in Codes
    BY <2>3 DEF TypeOK
  <2>5. Current(r)
    BY <2>2, <2>3, <2>4 DEF Current, Idle
  <2>. QED
    BY <1>3, <1>9, <2>1, <2>2, <2>5 DEF CancelTicket
<1>10. ASSUME NEW w \in Workers, CheckVacant(w) PROVE Good
  <2>1. CASE GoOn(w, "service")
    <3>1. PICK r : r = [req[w] EXCEPT !.at = "service"]
      OBVIOUS
    <3>2. Current(r)
      BY <1>0, <3>1 DEF Current, Requests
    <3>. QED
      BY <1>3, <1>10, <2>1, <3>1, <3>2 DEF GoOn, CheckVacant
  <2>. QED
    BY <1>2, <1>10, <2>1 DEF CheckVacant
<1>11. ASSUME NEW w \in Workers, FindNewCode(w) PROVE Good
  <2>1. CASE /\ codeState[req[w].code] = "new"
             /\ req' = [req EXCEPT ![w] = [@ EXCEPT !.at = "own", !.seen = "new"]]
    <3>1. PICK r : r = [req[w] EXCEPT !.at = "own", !.seen = "new"]
      OBVIOUS
    <3>2. r.at = "own" /\ r.seen = "new" /\ r.code = req[w].code /\ r.mine = req[w].mine
      BY <1>0, <3>1 DEF Requests
    <3>3. Current(r)
      BY <1>0, <2>1, <3>2 DEF Current
    <3>. QED
      BY <1>3, <1>11, <2>1, <3>1, <3>3 DEF FindNewCode
  <2>. QED
    BY <1>2, <1>11, <2>1 DEF FindNewCode
<1>12. ASSUME NEW w \in Workers, ReadOwn(w) PROVE Good
  <2>. DEFINE held == Held(req[w].user, CodeKind[req[w].code])
  <2>0. req[w] \in Requests /\ req[w].at = "own" /\ Current(req[w]) /\ Sound(req[w])
    BY <1>0, <1>12 DEF ReadOwn
  <2>1. CASE ~req[w].admin /\ held = {} /\ GoOn(w, "find")
    <3>1. PICK r : r = [req[w] EXCEPT !.at = "find"]
      OBVIOUS
    <3>2. /\ r.at = "find" /\ r.seen = req[w].seen /\ r.code = req[w].code
          /\ r.mine = req[w].mine /\ r.admin = req[w].admin /\ r.user = req[w].user
      BY <2>0, <3>1 DEF Requests
    <3>3. Current(r)
      BY <2>0, <2>1, <3>2 DEF Current
    <3>. QED
      BY <1>3, <1>12, <2>1, <3>1, <3>3 DEF GoOn, ReadOwn
  <2>2. ASSUME NEW h \in OneOf(held), req[w].admin,
               req' = [req EXCEPT ![w] = [@ EXCEPT !.at = "commit", !.held = h]]
        PROVE  Good
    <3>1. PICK r : r = [req[w] EXCEPT !.at = "commit", !.held = h]
      OBVIOUS
    <3>2. /\ r.at = "commit" /\ r.seen = req[w].seen /\ r.code = req[w].code /\ r.held = h
          /\ r.mine = req[w].mine /\ r.admin = req[w].admin /\ r.user = req[w].user
      BY <2>0, <3>1 DEF Requests
    <3>3. req[w].user \in Users
      BY <2>0 DEF Requests, Sound
    <3>4. held \subseteq {h}
      <4>1. CodeKind[req[w].code] \in Kinds
        BY <2>0, CodeBookAssumption DEF Sound
      <4>2. \A s, t \in held : s = t
        BY <3>3, <4>1 DEF SerialInv, OneTicketPerKind
      <4>. QED
        BY <4>2 DEF OneOf
    <3>5. h # NoTicket => /\ h \in Tickets /\ holder[h] = req[w].user /\ ticketCode[h] \in Codes
                          /\ CodeKind[ticketCode[h]] = CodeKind[req[w].code]
      BY DEF OneOf, Held, TypeOK
    <3>6. req[w].user # NoUser
      BY <3>3, CodeBookAssumption
    <3>7. Current(r)
      BY <2>0, <2>2, <3>2, <3>4, <3>5, <3>6 DEF Current
    <3>. QED
      BY <1>3, <1>12, <2>2, <3>1, <3>7 DEF ReadOwn
  <2>. QED
    BY <1>2, <1>12, <2>1, <2>2 DEF ReadOwn
<1>13. ASSUME NEW w \in Workers, FindTicket(w) PROVE Good
  <2>0. req[w] \in Requests /\ req[w].at = "find" /\ Current(req[w]) /\ Sound(req[w])
    BY <1>0, <1>13 DEF FindTicket
  <2>1. PICK t \in OneOf(TicketsWith(req[w].code)) :
          req' = [req EXCEPT ![w] = [@ EXCEPT !.at = "commit", !.found = t,
                                        !.mine = t # NoTicket /\ holder[t] = req[w].user]]
    BY <1>13 DEF FindTicket
  <2>2. ~(t # NoTicket /\ holder[t] = req[w].user)
    <3>1. SUFFICES ASSUME t # NoTicket, holder[t] = req[w].user PROVE FALSE
      OBVIOUS
    <3>2. t \in Tickets /\ ticketCode[t] = req[w].code
      BY <3>1 DEF OneOf, TicketsWith
    <3>3. ticketCode[t] # NoCode
      BY <2>0, <3>2, ActivationAssumption DEF Sound
    <3>4. t \in Held(req[w].user, CodeKind[req[w].code])
      BY <3>1, <3>2, <3>3 DEF Held
    <3>. QED
      BY <2>0, <3>4 DEF Current
  <2>3. PICK mine \in BOOLEAN : mine = (t # NoTicket /\ holder[t] = req[w].user)
    OBVIOUS
  <2>4. PICK r : r = [req[w] EXCEPT !.at = "commit", !.found = t, !.mine = mine]
    OBVIOUS
  <2>5. /\ r.at = "commit" /\ r.seen = req[w].seen /\ r.code = req[w].code /\ r.mine = mine
        /\ r.held = req[w].held /\ r.admin = req[w].admin /\ r.user = req[w].user
    BY <2>0, <2>4 DEF Requests
  <2>6. ~mine
    BY <2>2, <2>3
  <2>7. r.held = NoTicket
    BY <2>0, <2>5 DEF Sound
  <2>8. Current(r)
    BY <2>0, <2>5, <2>6, <2>7 DEF Current
  <2>9. req' = [req EXCEPT ![w] = r]
    BY <2>1, <2>3, <2>4
  <2>. QED
    BY <1>3, <1>13, <2>8, <2>9 DEF FindTicket
<1>14. ASSUME NEW w \in Workers, CancelCode(w) PROVE Good
  <2>0. req[w] \in Requests /\ req[w].at = "cancel" /\ Current(req[w]) /\ Sound(req[w])
    BY <1>0, <1>14 DEF CancelCode
  <2>1. PICK r : r = [req[w] EXCEPT !.at = "release"]
    OBVIOUS
  <2>2. r.at = "release" /\ r.held = req[w].held /\ r.mine = req[w].mine /\ r.user = req[w].user
    BY <2>0, <2>1 DEF Requests
  <2>3. r.held # NoTicket /\ ticketCode[r.held] \in Codes
    BY <2>0, <2>2 DEF Sound, Current
  <2>4. codeState'[ticketCode[r.held]] = "canceled" /\ UNCHANGED <<ticketCode, holder>>
    BY <1>14, <2>2, <2>3 DEF CancelCode, TypeOK
  <2>5. Current(r)'
    BY <2>0, <2>2, <2>3, <2>4 DEF Current
  <2>6. req' = [req EXCEPT ![w] = r]
    BY <1>14, <2>1 DEF CancelCode, GoOn
  <2>. QED
    BY <1>1, <2>5, <2>6
<1>15. ASSUME NEW w \in Workers,
              CommitUser(w) \/ CommitAdmin(w) \/ DestroyCode(w) \/ ReleaseTicket(w) \/ Abort(w)
       PROVE  Good
  BY <1>2, <1>15 DEF CommitUser, CommitAdmin, DestroyCode, ReleaseTicket, Abort
<1>16. ASSUME NEW w \in Workers, Arrive(w) PROVE Good
  BY <1>6, <1>7, <1>8, <1>9, <1>16 DEF Arrive
<1>17. ASSUME NEW w \in Workers, Serve(w) PROVE Good
  BY <1>10, <1>11, <1>12, <1>13, <1>14, <1>15, <1>17 DEF Serve
<1>. QED
  BY <1>4, <1>5, <1>15, <1>16, <1>17 DEF Next

\* What a user's activation does: a code nobody uses becomes active, and one
\* row, held by nobody, becomes the ticket of a user who has none of the kind.
LEMMA UserCommits ==
  ASSUME TypeOK, UsedInv, SerialInv, NEW w \in Workers, CommitUser(w), Activates(req[w])
  PROVE  LET r == req[w] IN
         /\ r.code \in Codes /\ r.user \in Users
         /\ codeState[r.code] = "new"
         /\ Held(r.user, CodeKind[r.code]) = {}
         /\ codeState' = [codeState EXCEPT ![r.code] = "active"]
         /\ \E t \in Tickets :
              /\ ticketCode[t] \in {NoCode, r.code} /\ holder[t] = NoUser
              /\ ticketCode' = [ticketCode EXCEPT ![t] = r.code]
              /\ holder' = [holder EXCEPT ![t] = r.user]
<1>. DEFINE r == req[w]
<1>1. r \in Requests /\ Sound(r) /\ Current(r) /\ r.at = "commit" /\ ~r.admin
  BY DEF TypeOK, UsedInv, SerialInv, CommitUser
<1>2. r.code \in Codes /\ r.user \in Users
  BY <1>1 DEF Sound, Requests
<1>3. codeState[r.code] = "new" /\ Held(r.user, CodeKind[r.code]) = {} /\ ~r.mine
  BY <1>1 DEF Activates, Current
<1>4. PICK t \in Rows(r.found) :
        /\ ticketCode' = [ticketCode EXCEPT ![t] = r.code]
        /\ holder' = IF r.mine THEN holder ELSE [holder EXCEPT ![t] = r.user]
  BY DEF CommitUser
<1>5. codeState' = [codeState EXCEPT ![r.code] = "active"]
  BY DEF CommitUser
<1>6. t \in Tickets /\ ticketCode[t] \in {NoCode, r.code}
  BY <1>1, RowTypes DEF Rows, Sound
<1>7. holder[t] = NoUser
  BY <1>3, <1>6 DEF UsedInv, Used
<1>. QED
  BY <1>2, <1>3, <1>4, <1>5, <1>6, <1>7

\* What an administrator's activation does: a new row becomes the ticket, and
\* the ticket the user had, if any, is canceled with its code.
LEMMA AdminCommits ==
  ASSUME TypeOK, UsedInv, SerialInv, NEW w \in Workers, CommitAdmin(w), Activates(req[w])
  PROVE  LET r == req[w] IN
         /\ r.code \in Codes /\ r.user \in Users
         /\ codeState[r.code] = "new"
         /\ \E t \in Tickets :
              /\ ticketCode[t] = NoCode /\ holder[t] = NoUser
              /\ ticketCode' = [ticketCode EXCEPT ![t] = r.code]
              /\ \/ /\ Held(r.user, CodeKind[r.code]) = {}
                    /\ codeState' = [codeState EXCEPT ![r.code] = "active"]
                    /\ holder' = [holder EXCEPT ![t] = r.user]
                 \/ /\ Held(r.user, CodeKind[r.code]) = {r.held}
                    /\ r.held # t
                    /\ ticketCode[r.held] # r.code
                    /\ codeState' = [codeState EXCEPT ![ticketCode[r.held]] = "canceled",
                                                      ![r.code] = "active"]
                    /\ holder' = [holder EXCEPT ![r.held] = NoUser, ![t] = r.user]
<1>. DEFINE r == req[w]
<1>1. r \in Requests /\ Sound(r) /\ Current(r) /\ r.at = "commit" /\ r.admin
  BY DEF TypeOK, UsedInv, SerialInv, CommitAdmin
<1>2. r.code \in Codes /\ r.user \in Users
  BY <1>1 DEF Sound, Requests
<1>3. codeState[r.code] = "new" /\ Held(r.user, CodeKind[r.code]) \subseteq {r.held}
  BY <1>1 DEF Activates, Current
<1>4. PICK t \in Rows(NoTicket) :
        /\ ticketCode' = [ticketCode EXCEPT ![t] = r.code]
        /\ holder' = [s \in Tickets |-> IF s = t THEN r.user
                                        ELSE IF s = r.held THEN NoUser ELSE holder[s]]
  BY DEF CommitAdmin
<1>5. codeState' = [c \in Codes |-> IF c = r.code THEN "active"
                                    ELSE IF c \in Released(r) THEN "canceled"
                                    ELSE codeState[c]]
  BY DEF CommitAdmin
<1>6. t \in Tickets /\ ticketCode[t] = NoCode
  BY DEF Rows
<1>7. holder[t] = NoUser
  BY <1>6 DEF UsedInv, Used
<1>8. CASE r.held = NoTicket
  <2>1. Held(r.user, CodeKind[r.code]) = {}
    BY <1>3, <1>8, ActivationAssumption DEF Held
  <2>2. codeState' = [codeState EXCEPT ![r.code] = "active"]
    BY <1>5, <1>8 DEF Released, TypeOK
  <2>3. holder' = [holder EXCEPT ![t] = r.user]
    BY <1>4, <1>6, <1>8, ActivationAssumption DEF TypeOK
  <2>. QED
    BY <1>2, <1>3, <1>4, <1>6, <1>7, <2>1, <2>2, <2>3
<1>9. CASE r.held # NoTicket
  <2>1. /\ r.held \in Tickets /\ Used(r.held) /\ holder[r.held] = r.user
        /\ ticketCode[r.held] \in Codes
        /\ CodeKind[ticketCode[r.held]] = CodeKind[r.code]
    BY <1>1, <1>9 DEF Sound, Current, Requests
  <2>2. Held(r.user, CodeKind[r.code]) = {r.held}
    BY <1>3, <2>1, ActivationAssumption DEF Held
  <2>3. r.held # t /\ ticketCode[r.held] # r.code
    BY <1>3, <1>6, <2>1 DEF Used
  <2>4. codeState' = [codeState EXCEPT ![ticketCode[r.held]] = "canceled", ![r.code] = "active"]
    BY <1>2, <1>5, <1>9, <2>1, <2>3 DEF Released, TypeOK
  <2>5. holder' = [holder EXCEPT ![r.held] = NoUser, ![t] = r.user]
    BY <1>4, <1>6, <2>1, <2>3 DEF TypeOK
  <2>. QED
    BY <1>2, <1>3, <1>4, <1>6, <1>7, <2>2, <2>3, <2>4, <2>5
<1>. QED
  BY <1>8, <1>9

LEMMA SerialStep ==
  ASSUME Serial, TypeOK, UsedInv, SerialInv, [Next]_vars
  PROVE  SerialInv'
<1> USE DEF tables
<1>. DEFINE Good == OneHolderPerCode' /\ OneTicketPerKind' /\ HeldIsActive'
<1>0. OneHolderPerCode /\ OneTicketPerKind /\ HeldIsActive
  BY DEF SerialInv
\* Steps that give nobody a ticket preserve the first two.
<1>1. ASSUME UNCHANGED ticketCode, \A t \in Tickets : holder'[t] \in {holder[t], NoUser}
      PROVE  OneHolderPerCode' /\ OneTicketPerKind'
  <2>1. OneHolderPerCode'
    BY <1>0, <1>1 DEF OneHolderPerCode
  <2>2. \A u \in Users : \A k : Held(u, k)' \subseteq Held(u, k)
    BY <1>1, CodeBookAssumption DEF Held
  <2>3. OneTicketPerKind'
    BY <1>0, <2>2 DEF OneTicketPerKind
  <2>. QED
    BY <2>1, <2>3
\* Steps on no ticket by a worker that is not about to release one.
<1>2. ASSUME UNCHANGED <<ticketCode, holder, refunded, halfDone>>,
             \/ UNCHANGED req
             \/ \A w \in Workers : req[w].at # "release",
             \A t \in Tickets : Used(t) => codeState'[ticketCode[t]] = codeState[ticketCode[t]]
      PROVE  Good
  <2>1. OneHolderPerCode' /\ OneTicketPerKind'
    BY <1>1, <1>2
  <2>2. HeldIsActive'
    BY <1>0, <1>2 DEF HeldIsActive, UsedInv
  <2>. QED
    BY <2>1, <2>2
<1>3. ASSUME NEW c \in Codes, CreateCode(c) PROVE Good
  BY <1>2, <1>3 DEF CreateCode, Used, TypeOK
<1>4. ASSUME NEW w \in Workers, Refund(w) PROVE Good
  <2>1. OneHolderPerCode' /\ OneTicketPerKind'
    BY <1>1, <1>4 DEF Refund
  <2>2. ASSUME NEW t \in Tickets, holder'[t] # NoUser
        PROVE  /\ t \notin SoldTickets /\ holder[t] = holder'[t] /\ refunded'
               /\ ticketCode'[t] = ticketCode[t]
               /\ \/ ticketCode[t] \in SoldCodes
                  \/ codeState'[ticketCode[t]] = codeState[ticketCode[t]]
    <3>1. ticketCode[t] \in Codes
      BY <1>4, <2>2 DEF Refund, UsedInv, Used, TypeOK
    <3>. QED
      BY <1>4, <2>2, <3>1 DEF Refund
  <2>3. UNCHANGED <<halfDone, req>>
    BY <1>4 DEF Refund
  <2>4. HeldIsActive'
    BY <1>0, <2>2, <2>3 DEF HeldIsActive
  <2>. QED
    BY <2>1, <2>4
<1>5. ASSUME NEW w \in Workers, req[w].at # "release"
      PROVE  \A v \in Workers : req[v].at # "release"
  BY <1>5 DEF Serial
<1>6. ASSUME NEW w \in Workers, DestroyCode(w) PROVE Good
  <2>1. \A t \in Tickets : Used(t) => codeState'[ticketCode[t]] = codeState[ticketCode[t]]
    BY <1>6 DEF DestroyCode, TicketsWith, TypeOK
  <2>. QED
    BY <1>2, <1>5, <1>6, <2>1 DEF DestroyCode
<1>7. ASSUME NEW w \in Workers, CommitUser(w), Activates(req[w]) PROVE Good
  <2>. DEFINE r == req[w]
  <2>1. PICK t \in Tickets :
          /\ ticketCode[t] \in {NoCode, r.code} /\ holder[t] = NoUser
          /\ ticketCode' = [ticketCode EXCEPT ![t] = r.code]
          /\ holder' = [holder EXCEPT ![t] = r.user]
    BY <1>7, UserCommits
  <2>2. /\ r.code \in Codes /\ r.user \in Users
        /\ codeState[r.code] = "new"
        /\ Held(r.user, CodeKind[r.code]) = {}
        /\ codeState' = [codeState EXCEPT ![r.code] = "active"]
    BY <1>7, UserCommits
  <2>3. ticketCode'[t] = r.code /\ holder'[t] = r.user /\ codeState'[r.code] = "active"
    BY <2>1, <2>2 DEF TypeOK
  <2>4. \A s \in Tickets : s # t => ticketCode'[s] = ticketCode[s] /\ holder'[s] = holder[s]
    BY <2>1 DEF TypeOK
  <2>5. \A s \in Tickets : holder[s] # NoUser => Used(s) /\ ticketCode[s] # r.code
    BY <2>2 DEF UsedInv, Used
  <2>6. OneHolderPerCode'
    BY <1>0, <2>3, <2>4, <2>5 DEF OneHolderPerCode
  <2>7. ASSUME NEW u \in Users, NEW k \in Kinds
        PROVE  \A s, q \in Held(u, k)' : s = q
    <3>1. CASE u = r.user /\ k = CodeKind[r.code]
      <4>1. Held(u, k)' \subseteq {t}
        BY <2>2, <2>4, <3>1 DEF Held
      <4>. QED
        BY <4>1
    <3>2. CASE ~(u = r.user /\ k = CodeKind[r.code])
      <4>1. Held(u, k)' \subseteq Held(u, k)
        BY <2>3, <2>4, <3>2 DEF Held
      <4>. QED
        BY <1>0, <4>1 DEF OneTicketPerKind
    <3>. QED
      BY <3>1, <3>2
  <2>8. HeldIsActive'
    <3>1. \A s \in Tickets : codeState'[ticketCode[s]] \in {codeState[ticketCode[s]], "active"}
      BY <2>2 DEF TypeOK
    <3>2. UNCHANGED <<refunded, halfDone>> /\ \A v \in Workers : req[v].at # "release"
      BY <1>5, <1>7 DEF CommitUser
    <3>. QED
      BY <1>0, <2>3, <2>4, <3>1, <3>2 DEF HeldIsActive
  <2>. QED
    BY <2>6, <2>7, <2>8 DEF OneTicketPerKind
<1>8. ASSUME NEW w \in Workers, CommitAdmin(w), Activates(req[w]) PROVE Good
  <2>. DEFINE r == req[w]
              own == Held(r.user, CodeKind[r.code])
  <2>1. PICK t \in Tickets :
          /\ ticketCode[t] = NoCode /\ holder[t] = NoUser
          /\ ticketCode' = [ticketCode EXCEPT ![t] = r.code]
          /\ \/ /\ own = {}
                /\ codeState' = [codeState EXCEPT ![r.code] = "active"]
                /\ holder' = [holder EXCEPT ![t] = r.user]
             \/ /\ own = {r.held}
                /\ r.held # t
                /\ ticketCode[r.held] # r.code
                /\ codeState' = [codeState EXCEPT ![ticketCode[r.held]] = "canceled",
                                                  ![r.code] = "active"]
                /\ holder' = [holder EXCEPT ![r.held] = NoUser, ![t] = r.user]
    BY <1>8, AdminCommits
  <2>2. r.code \in Codes /\ r.user \in Users /\ codeState[r.code] = "new"
    BY <1>8, AdminCommits
  <2>3. ticketCode'[t] = r.code /\ holder'[t] = r.user /\ codeState'[r.code] = "active"
    BY <2>1, <2>2 DEF TypeOK
  <2>4. \A s \in Tickets :
          s # t => /\ ticketCode'[s] = ticketCode[s]
                   /\ holder'[s] = IF s \in own THEN NoUser ELSE holder[s]
    BY <2>1 DEF TypeOK
  <2>5. \A s \in Tickets : holder[s] # NoUser => Used(s) /\ ticketCode[s] # r.code
    BY <2>2 DEF UsedInv, Used
  <2>6. OneHolderPerCode'
    BY <1>0, <2>3, <2>4, <2>5 DEF OneHolderPerCode
  <2>7. ASSUME NEW u \in Users, NEW k \in Kinds
        PROVE  \A s, q \in Held(u, k)' : s = q
    <3>0. u # NoUser
      BY CodeBookAssumption
    <3>1. CASE u = r.user /\ k = CodeKind[r.code]
      <4>1. Held(u, k)' \subseteq {t}
        BY <2>4, <3>0, <3>1 DEF Held
      <4>. QED
        BY <4>1
    <3>2. CASE ~(u = r.user /\ k = CodeKind[r.code])
      <4>1. Held(u, k)' \subseteq Held(u, k)
        BY <2>3, <2>4, <3>0, <3>2 DEF Held
      <4>. QED
        BY <1>0, <4>1 DEF OneTicketPerKind
    <3>. QED
      BY <3>1, <3>2
  <2>8. HeldIsActive'
    <3>1. ASSUME NEW s \in Tickets, s # t, holder'[s] # NoUser
          PROVE  /\ holder[s] # NoUser
                 /\ codeState'[ticketCode[s]] \in {codeState[ticketCode[s]], "active"}
      <4>1. s \notin own /\ holder[s] = holder'[s]
        BY <2>4, <3>1
      <4>2. ticketCode[s] # r.code /\ ticketCode[s] \in Codes
        BY <2>5, <3>1, <4>1 DEF Used, TypeOK
      <4>3. CASE own = {}
        BY <2>1, <3>1, <4>1, <4>2, <4>3 DEF TypeOK
      <4>4. CASE own = {r.held}
        <5>1. r.held \in Tickets /\ holder[r.held] # NoUser
          BY <2>2, <4>4, CodeBookAssumption DEF Held
        <5>2. ticketCode[s] # ticketCode[r.held]
          BY <1>0, <3>1, <4>1, <4>4, <5>1 DEF OneHolderPerCode
        <5>. QED
          BY <2>1, <3>1, <4>1, <4>2, <4>4, <5>2 DEF TypeOK
      <4>. QED
        BY <2>1, <3>1, <4>1, <4>3, <4>4
    <3>2. UNCHANGED <<refunded, halfDone>> /\ \A v \in Workers : req[v].at # "release"
      BY <1>5, <1>8 DEF CommitAdmin
    <3>. QED
      BY <1>0, <2>3, <2>4, <3>1, <3>2 DEF HeldIsActive
  <2>. QED
    BY <2>6, <2>7, <2>8 DEF OneTicketPerKind
<1>9. ASSUME NEW w \in Workers, CommitUser(w) \/ CommitAdmin(w), ~Activates(req[w]) PROVE Good
  BY <1>2, <1>5, <1>9 DEF CommitUser, CommitAdmin
<1>10. ASSUME NEW w \in Workers, CancelCode(w) PROVE Good
  <2>. DEFINE h == req[w].held
  <2>1. OneHolderPerCode' /\ OneTicketPerKind'
    BY <1>1, <1>10 DEF CancelCode
  <2>2. h \in Tickets /\ holder[h] # NoUser /\ ticketCode[h] \in Codes
    <3>1. /\ req[w] \in Requests /\ req[w].at = "cancel"
          /\ Sound(req[w]) /\ Current(req[w])
      BY <1>10 DEF CancelCode, SerialInv, UsedInv, TypeOK
    <3>. QED
      BY <3>1 DEF Sound, Current, Requests
  <2>3. /\ codeState' = [codeState EXCEPT ![ticketCode[h]] = "canceled"]
        /\ UNCHANGED <<ticketCode, holder, refunded, halfDone>>
    BY <1>10 DEF CancelCode
  <2>4. req'[w].at = "release" /\ req'[w].held = h
    BY <1>10 DEF CancelCode, GoOn, TypeOK, Requests
  <2>5. \A v \in Workers : req[v].at # "release"
    BY <1>5, <1>10 DEF CancelCode
  <2>6. \A s \in Tickets : holder[s] # NoUser /\ s # h =>
                             codeState'[ticketCode[s]] = codeState[ticketCode[s]]
    BY <1>0, <2>2, <2>3 DEF OneHolderPerCode, TypeOK
  <2>7. HeldIsActive'
    BY <1>0, <2>3, <2>4, <2>5, <2>6 DEF HeldIsActive
  <2>. QED
    BY <2>1, <2>7
<1>11. ASSUME NEW w \in Workers, ReleaseTicket(w) PROVE Good
  <2>1. OneHolderPerCode' /\ OneTicketPerKind'
    BY <1>1, <1>11 DEF ReleaseTicket, TypeOK
  <2>2. \A s \in Tickets : holder'[s] # NoUser => holder[s] # NoUser /\ s # req[w].held
    BY <1>11 DEF ReleaseTicket, TypeOK
  <2>3. \A v \in Workers : v = w
    BY DEF Serial
  <2>4. HeldIsActive'
    BY <1>0, <1>11, <2>2, <2>3 DEF ReleaseTicket, HeldIsActive
  <2>. QED
    BY <2>1, <2>4
<1>12. ASSUME NEW w \in Workers, Abort(w) PROVE Good
  <2>1. OneHolderPerCode' /\ OneTicketPerKind'
    BY <1>1, <1>12 DEF Abort
  <2>2. \A v \in Workers : v = w
    BY DEF Serial
  <2>3. HeldIsActive'
    BY <1>0, <1>12, <2>2 DEF Abort, HeldIsActive
  <2>. QED
    BY <2>1, <2>3
<1>13. ASSUME NEW w \in Workers, Arrive(w) PROVE Good
  <2>1. CASE Refund(w)
    BY <1>4, <2>1
  <2>2. CASE ~Refund(w)
    <3>1. UNCHANGED <<tables, halfDone>> /\ req[w].at = "idle"
      BY <1>13, <2>2
      DEF Arrive, DestroyRequest, Activate, ActivateForUser, ActivateOnCodePage, CancelTicket
    <3>. QED
      BY <1>2, <1>5, <3>1
  <2>. QED
    BY <2>1, <2>2
<1>14. ASSUME NEW w \in Workers,
              CheckVacant(w) \/ FindNewCode(w) \/ ReadOwn(w) \/ FindTicket(w)
       PROVE  Good
  BY <1>2, <1>5, <1>14 DEF CheckVacant, FindNewCode, ReadOwn, FindTicket
<1>15. ASSUME NEW w \in Workers, Serve(w) PROVE Good
  BY <1>6, <1>7, <1>8, <1>9, <1>10, <1>11, <1>14, <1>15 DEF Serve
<1>16. ASSUME UNCHANGED vars PROVE Good
  BY <1>2, <1>16 DEF vars
<1>17. Good
  BY <1>3, <1>12, <1>13, <1>15, <1>16 DEF Next
<1>. QED
  BY <1>17, CurrentStep DEF SerialInv

LEMMA SerialInit == Init => SerialInv
<1> SUFFICES ASSUME Init PROVE SerialInv
  OBVIOUS
<1>1. \A t \in Tickets : holder[t] = NoUser
  BY DEF Init
<1>2. \A u \in Users : \A k : Held(u, k) = {}
  BY <1>1, CodeBookAssumption DEF Held
<1>3. ASSUME NEW w \in Workers PROVE Current(req[w])
  <2>1. req[w] = Idle
    BY DEF Init
  <2>. QED
    BY <2>1 DEF Current, Idle
<1>4. OneHolderPerCode /\ HeldIsActive
  BY <1>1 DEF OneHolderPerCode, HeldIsActive
<1>5. OneTicketPerKind
  BY <1>2 DEF OneTicketPerKind
<1>. QED
  BY <1>3, <1>4, <1>5 DEF SerialInv

\* If requests do not overlap, a code has at most one holder.
THEOREM OneHolderPerCodeSerial == ASSUME Serial PROVE Spec => []OneHolderPerCode
<1>1. SerialInv => OneHolderPerCode
  BY DEF SerialInv
<1>2. TypeOK /\ UsedInv /\ SerialInv /\ [Next]_vars => SerialInv'
  BY SerialStep
<1>. QED
  BY <1>1, <1>2, SerialInit, UsedInit, UsedStep, ActivationTypeCorrect, PTL DEF Spec

\* If requests do not overlap, a user holds at most one ticket of a kind.
THEOREM OneActivatedTicketSerial == ASSUME Serial PROVE Spec => []OneTicketPerKind
<1>1. SerialInv => OneTicketPerKind
  BY DEF SerialInv
<1>2. TypeOK /\ UsedInv /\ SerialInv /\ [Next]_vars => SerialInv'
  BY SerialStep
<1>. QED
  BY <1>1, <1>2, SerialInit, UsedInit, UsedStep, ActivationTypeCorrect, PTL DEF Spec

\* If requests do not overlap, only the two exceptions that HeldIsActive names
\* leave a held ticket with a code that is not active.
THEOREM HeldIsActiveSerial == ASSUME Serial PROVE Spec => []HeldIsActive
<1>1. SerialInv => HeldIsActive
  BY DEF SerialInv
<1>2. TypeOK /\ UsedInv /\ SerialInv /\ [Next]_vars => SerialInv'
  BY SerialStep
<1>. QED
  BY <1>1, <1>2, SerialInit, UsedInit, UsedStep, ActivationTypeCorrect, PTL DEF Spec

-----------------------------------------------------------------------------
(* The refinement: the owner of a code, and how steps change it.           *)

LEMMA OwnerHolds ==
  ASSUME NEW c, OwnerOf(c) # NoUser
  PROVE  \E t \in Tickets : ticketCode[t] = c /\ holder[t] = OwnerOf(c)
<1>. DEFINE holding == {t \in TicketsWith(c) : holder[t] # NoUser}
<1>1. holding # {} /\ OwnerOf(c) = holder[CHOOSE t \in holding : TRUE]
  BY DEF OwnerOf
<1>2. (CHOOSE t \in holding : TRUE) \in holding
  BY <1>1
<1>. QED
  BY <1>1, <1>2 DEF TicketsWith

LEMMA OwnerIsHolder ==
  ASSUME OneHolderPerCode, NEW t \in Tickets, holder[t] # NoUser
  PROVE  OwnerOf(ticketCode[t]) = holder[t]
<1>. DEFINE holding == {s \in TicketsWith(ticketCode[t]) : holder[s] # NoUser}
<1>1. holding = {t}
  BY DEF TicketsWith, OneHolderPerCode
<1>2. (CHOOSE s \in {t} : TRUE) = t
  OBVIOUS
<1>. QED
  BY <1>1, <1>2 DEF OwnerOf

LEMMA OwnerIsHolderPrimed ==
  ASSUME OneHolderPerCode', NEW t \in Tickets, holder'[t] # NoUser, NEW c, ticketCode'[t] = c
  PROVE  OwnerOf(c)' = holder'[t]
<1>1. {s \in TicketsWith(c)' : holder'[s] # NoUser} = {t}
  BY DEF TicketsWith, OneHolderPerCode
<1>2. (CHOOSE s \in {t} : TRUE) = t
  OBVIOUS
<1>. QED
  BY <1>1, <1>2 DEF OwnerOf

LEMMA OwnerFrame ==
  ASSUME NEW c,
         \A t \in Tickets :
           /\ (ticketCode'[t] = c /\ holder'[t] # NoUser) <=> (ticketCode[t] = c /\ holder[t] # NoUser)
           /\ ticketCode[t] = c /\ holder[t] # NoUser => holder'[t] = holder[t]
  PROVE  OwnerOf(c)' = OwnerOf(c)
<1>. DEFINE holding == {s \in Tickets : ticketCode[s] = c /\ holder[s] # NoUser}
<1>1. {s \in TicketsWith(c)' : holder'[s] # NoUser} = holding
  BY DEF TicketsWith
<1>2. {s \in TicketsWith(c) : holder[s] # NoUser} = holding
  BY DEF TicketsWith
<1>3. holding # {} => (CHOOSE s \in holding : TRUE) \in holding
  OBVIOUS
<1>4. holding # {} => holder'[CHOOSE s \in holding : TRUE] = holder[CHOOSE s \in holding : TRUE]
  BY <1>3
<1>. QED
  BY <1>1, <1>2, <1>4 DEF OwnerOf

LEMMA OwnerGone ==
  ASSUME NEW c, \A t \in Tickets : ticketCode'[t] = c => holder'[t] = NoUser
  PROVE  OwnerOf(c)' = NoUser
<1>1. {s \in TicketsWith(c)' : holder'[s] # NoUser} = {}
  BY DEF TicketsWith
<1>. QED
  BY <1>1 DEF OwnerOf

LEMMA OwnedHeld ==
  ASSUME TypeOK, OneHolderPerCode, NEW u \in Users, NEW k \in Kinds
  PROVE  Lifecycle!Owned(u, k) = {ticketCode[t] : t \in Held(u, k)}
<1>0. u # NoUser
  BY CodeBookAssumption
<1>1. ASSUME NEW c \in Codes, OwnerOf(c) = u, CodeKind[c] = k
      PROVE  \E t \in Held(u, k) : ticketCode[t] = c
  <2>1. PICK t \in Tickets : ticketCode[t] = c /\ holder[t] = u
    BY <1>0, <1>1, OwnerHolds
  <2>2. t \in Held(u, k)
    BY <1>1, <2>1, ActivationAssumption DEF Held
  <2>. QED
    BY <2>1, <2>2
<1>2. ASSUME NEW t \in Held(u, k)
      PROVE  /\ ticketCode[t] \in Codes /\ OwnerOf(ticketCode[t]) = u
             /\ CodeKind[ticketCode[t]] = k
  BY <1>0, <1>2, OwnerIsHolder DEF Held, TypeOK
<1>. QED
  BY <1>1, <1>2 DEF Lifecycle!Owned

\* With one worker, a step is a step of the code's life, or none.
LEMMA LifecycleStep ==
  ASSUME Serial, TypeOK, UsedInv, SerialInv, [Next]_vars
  PROVE  [Lifecycle!Next]_Lifecycle!vars
<1> USE DEF tables
<1>. DEFINE owner == [c \in Codes |-> OwnerOf(c)]
            Good  == [Lifecycle!Next]_Lifecycle!vars
<1>0. OneHolderPerCode /\ OneHolderPerCode'
  BY SerialStep DEF SerialInv
<1>a. \A c \in Codes : owner[c] = OwnerOf(c) /\ owner'[c] = OwnerOf(c)'
  OBVIOUS
<1>1. ASSUME UNCHANGED <<ticketCode, holder>> PROVE \A c \in Codes : owner'[c] = owner[c]
  BY <1>1, <1>a, OwnerFrame
<1>1a. ASSUME UNCHANGED <<ticketCode, holder>> PROVE UNCHANGED owner
  BY <1>1, <1>1a
<1>2. ASSUME UNCHANGED <<codeState, ticketCode, holder>> PROVE Good
  BY <1>1a, <1>2 DEF Lifecycle!vars
<1>3. ASSUME NEW c \in Codes, CreateCode(c) PROVE Good
  <2>1. UNCHANGED owner
    BY <1>1a, <1>3 DEF CreateCode
  <2>. QED
    BY <1>3, <2>1 DEF CreateCode, Lifecycle!Next, Lifecycle!Issue
<1>4. ASSUME NEW w \in Workers, Refund(w) PROVE Good
  <2>. DEFINE now == {c \in SoldCodes : OwnerOf(c)' = NoUser}
  <2>1. SoldCodes \subseteq Codes
    BY ActivationAssumption DEF SoldCodes, SoldTickets
  <2>2. \A c \in SoldCodes : codeState[c] \in {"new", "active", "canceled"}
    <3>1. ASSUME NEW t \in SoldTickets PROVE codeState[Sold[t]] \in {"new", "active", "canceled"}
      <4>1. t \in Tickets /\ ticketCode[t] = Sold[t] /\ Sold[t] \in Codes
        BY ActivationAssumption DEF UsedInv, SoldTickets
      <4>2. codeState[Sold[t]] \notin {"absent", "destroyed"}
        BY <4>1, ActivationAssumption DEF UsedInv
      <4>. QED
        BY <4>1, <4>2 DEF TypeOK, CodeStates
    <3>. QED
      BY <3>1 DEF SoldCodes
  <2>3. ASSUME NEW c \in Codes PROVE owner'[c] = IF c \in now THEN NoUser ELSE owner[c]
    <3>1. CASE c \in now
      BY <1>a, <3>1
    <3>2. CASE c \notin SoldCodes
      <4>1. \A t \in Tickets : ticketCode[t] = c => t \notin SoldTickets
        BY <3>2 DEF UsedInv, SoldCodes
      <4>2. \A t \in Tickets : ticketCode'[t] = ticketCode[t]
                               /\ (ticketCode[t] = c => holder'[t] = holder[t])
        BY <1>4, <4>1 DEF Refund
      <4>3. OwnerOf(c)' = OwnerOf(c)
        BY <4>2, OwnerFrame
      <4>. QED
        BY <1>a, <3>2, <4>3
    <3>3. CASE c \in SoldCodes /\ OwnerOf(c)' # NoUser
      <4>1. PICK t \in Tickets : ticketCode'[t] = c /\ holder'[t] # NoUser
        BY <3>3, OwnerGone
      <4>2. ticketCode[t] = c /\ holder[t] = holder'[t]
        BY <1>4, <4>1 DEF Refund
      <4>3. OwnerOf(c)' = holder'[t] /\ OwnerOf(c) = holder[t]
        BY <1>0, <4>1, <4>2, OwnerIsHolder, OwnerIsHolderPrimed
      <4>. QED
        BY <1>a, <3>3, <4>2, <4>3
    <3>. QED
      BY <3>1, <3>2, <3>3
  <2>4. codeState' = [c \in Codes |-> IF c \in SoldCodes THEN "canceled" ELSE codeState[c]]
    BY <1>4 DEF Refund
  <2>5. owner' = [c \in Codes |-> IF c \in now THEN NoUser ELSE owner[c]]
    BY <2>3
  <2>6. Lifecycle!Cancel(SoldCodes)
    BY <2>2, <2>4, <2>5 DEF Lifecycle!Cancel
  <2>. QED
    BY <2>1, <2>6 DEF Lifecycle!Next
<1>5. ASSUME NEW w \in Workers, DestroyCode(w) PROVE Good
  <2>. DEFINE c == req[w].code
  <2>1. c \in Codes /\ codeState[c] = "new"
    BY <1>5 DEF DestroyCode, UsedInv, Sound, SerialInv, Current
  <2>2. UNCHANGED owner /\ UNCHANGED <<ticketCode, holder>>
    BY <1>1a, <1>5 DEF DestroyCode
  <2>3. CASE TicketsWith(c) = {}
    <3>1. owner[c] = NoUser
      BY <1>a, <2>1, <2>3, OwnerHolds DEF TicketsWith
    <3>2. codeState' = [codeState EXCEPT ![c] = "destroyed"]
      BY <1>5, <2>3 DEF DestroyCode
    <3>. QED
      BY <2>1, <2>2, <3>1, <3>2 DEF Lifecycle!Next, Lifecycle!Destroy
  <2>4. CASE TicketsWith(c) # {}
    BY <1>2, <1>5, <2>2, <2>4 DEF DestroyCode
  <2>. QED
    BY <2>3, <2>4
<1>6. ASSUME NEW w \in Workers, CommitUser(w), Activates(req[w]) PROVE Good
  <2>0. PICK c \in Codes, u \in Users : c = req[w].code /\ u = req[w].user
    BY <1>6, UserCommits
  <2>1. PICK t \in Tickets :
          /\ ticketCode[t] \in {NoCode, c} /\ holder[t] = NoUser
          /\ ticketCode' = [ticketCode EXCEPT ![t] = c]
          /\ holder' = [holder EXCEPT ![t] = u]
    BY <1>6, <2>0, UserCommits
  <2>2. /\ codeState[c] = "new"
        /\ Held(u, CodeKind[c]) = {}
        /\ codeState' = [codeState EXCEPT ![c] = "active"]
    BY <1>6, <2>0, UserCommits
  <2>3. CodeKind[c] \in Kinds /\ u # NoUser
    BY <2>2, CodeBookAssumption
  <2>4. Lifecycle!Owned(u, CodeKind[c]) = {}
    BY <1>0, <2>2, <2>3, OwnedHeld
  <2>5. OwnerOf(c)' = u
    BY <1>0, <2>1, <2>3, OwnerIsHolderPrimed DEF TypeOK
  <2>6. ASSUME NEW d \in Codes, d # c PROVE OwnerOf(d)' = OwnerOf(d)
    BY <2>1, <2>6, OwnerFrame, ActivationAssumption DEF TypeOK
  <2>7. owner' = [owner EXCEPT ![c] = u]
    BY <1>a, <2>2, <2>5, <2>6
  <2>8. Lifecycle!Redeem(c, u)
    BY <2>2, <2>4, <2>7 DEF Lifecycle!Redeem
  <2>. QED
    BY <2>2, <2>8 DEF Lifecycle!Next
<1>7. ASSUME NEW w \in Workers, CommitAdmin(w), Activates(req[w]) PROVE Good
  <2>00. PICK h : h = req[w].held
    OBVIOUS
  <2>0. PICK c \in Codes, u \in Users : c = req[w].code /\ u = req[w].user /\ h = req[w].held
    BY <1>7, <2>00, AdminCommits
  <2>1. PICK t \in Tickets :
          /\ ticketCode[t] = NoCode /\ holder[t] = NoUser
          /\ ticketCode' = [ticketCode EXCEPT ![t] = c]
          /\ \/ /\ Held(u, CodeKind[c]) = {}
                /\ codeState' = [codeState EXCEPT ![c] = "active"]
                /\ holder' = [holder EXCEPT ![t] = u]
             \/ /\ Held(u, CodeKind[c]) = {h}
                /\ h # t
                /\ ticketCode[h] # c
                /\ codeState' = [codeState EXCEPT ![ticketCode[h]] = "canceled", ![c] = "active"]
                /\ holder' = [holder EXCEPT ![h] = NoUser, ![t] = u]
    BY <1>7, <2>0, AdminCommits
  <2>2. codeState[c] = "new"
    BY <1>7, <2>0, AdminCommits
  <2>3. CodeKind[c] \in Kinds /\ u # NoUser
    BY <2>2, CodeBookAssumption
  <2>4. holder'[t] = u /\ ticketCode'[t] = c
    BY <2>1 DEF TypeOK
  <2>5. OwnerOf(c)' = u
    BY <1>0, <2>3, <2>4, OwnerIsHolderPrimed
  <2>6. CASE Held(u, CodeKind[c]) = {}
    <3>1. /\ codeState' = [codeState EXCEPT ![c] = "active"]
          /\ holder' = [holder EXCEPT ![t] = u]
      BY <2>1, <2>6
    <3>2. Lifecycle!Owned(u, CodeKind[c]) = {}
      BY <1>0, <2>2, <2>3, <2>6, OwnedHeld
    <3>3. ASSUME NEW d \in Codes, d # c PROVE OwnerOf(d)' = OwnerOf(d)
      BY <2>1, <3>1, <3>3, OwnerFrame, ActivationAssumption DEF TypeOK
    <3>4. owner' = [owner EXCEPT ![c] = u]
      BY <1>a, <2>2, <2>5, <3>3
    <3>5. Lifecycle!Redeem(c, u)
      BY <2>2, <3>1, <3>2, <3>4 DEF Lifecycle!Redeem
    <3>. QED
      BY <2>2, <3>5 DEF Lifecycle!Next
  <2>7. CASE Held(u, CodeKind[c]) # {}
    <3>0. PICK e : e = ticketCode[h]
      OBVIOUS
    <3>1. /\ Held(u, CodeKind[c]) = {h} /\ h # t /\ e # c
          /\ codeState' = [codeState EXCEPT ![e] = "canceled", ![c] = "active"]
          /\ holder' = [holder EXCEPT ![h] = NoUser, ![t] = u]
      BY <2>1, <2>7, <3>0
    <3>2. h \in Tickets /\ holder[h] = u /\ e \in Codes
      BY <3>0, <3>1 DEF Held, TypeOK
    <3>3. e \in Lifecycle!Owned(u, CodeKind[c])
      BY <1>0, <2>2, <2>3, <3>0, <3>1, OwnedHeld
    <3>4. OwnerOf(e)' = NoUser
      <4>1. \A s \in Tickets : ticketCode'[s] = e => holder'[s] = NoUser
        BY <1>0, <2>1, <2>3, <3>0, <3>1, <3>2 DEF OneHolderPerCode, TypeOK
      <4>. QED
        BY <4>1, OwnerGone
    <3>5. ASSUME NEW d \in Codes, d # c, d # e PROVE OwnerOf(d)' = OwnerOf(d)
      <4>1. \A s \in Tickets :
              /\ (ticketCode'[s] = d /\ holder'[s] # NoUser)
                   <=> (ticketCode[s] = d /\ holder[s] # NoUser)
              /\ ticketCode[s] = d /\ holder[s] # NoUser => holder'[s] = holder[s]
        BY <2>1, <3>0, <3>1, <3>2, <3>5, ActivationAssumption DEF TypeOK
      <4>. QED
        BY <4>1, OwnerFrame
    <3>6. owner' = [owner EXCEPT ![e] = NoUser, ![c] = u]
      BY <1>a, <2>2, <2>5, <3>1, <3>2, <3>4, <3>5
    <3>7. Lifecycle!Replace(c, u)
      BY <2>2, <3>1, <3>3, <3>6 DEF Lifecycle!Replace
    <3>. QED
      BY <2>2, <3>7 DEF Lifecycle!Next
  <2>. QED
    BY <2>6, <2>7
<1>8. ASSUME NEW w \in Workers, CommitUser(w) \/ CommitAdmin(w), ~Activates(req[w]) PROVE Good
  BY <1>2, <1>8 DEF CommitUser, CommitAdmin
<1>9. ASSUME NEW w \in Workers, CancelCode(w) PROVE Good
  <2>0. PICK c : c = ticketCode[req[w].held]
    OBVIOUS
  <2>1. c \in Codes /\ codeState[c] \in {"active", "canceled"}
    BY <1>9, <2>0 DEF CancelCode, UsedInv, Sound, Used, SerialInv, Current
  <2>2. UNCHANGED owner
    BY <1>1a, <1>9 DEF CancelCode
  <2>3. codeState' = [d \in Codes |-> IF d \in {c} THEN "canceled" ELSE codeState[d]]
    BY <1>9, <2>0, <2>1 DEF CancelCode, TypeOK
  <2>4. owner' = [d \in Codes |-> IF d \in {} THEN NoUser ELSE owner[d]]
    BY <2>2
  <2>5. Lifecycle!Cancel({c})
    <3>1. {} \in SUBSET {c}
      OBVIOUS
    <3>. QED
      BY <2>1, <2>3, <2>4, <3>1 DEF Lifecycle!Cancel
  <2>. QED
    BY <2>1, <2>5 DEF Lifecycle!Next
<1>10. ASSUME NEW w \in Workers, ReleaseTicket(w) PROVE Good
  <2>a. PICK h, c : h = req[w].held /\ c = ticketCode[h]
    OBVIOUS
  <2>0. req[w] \in Requests /\ Sound(req[w]) /\ Current(req[w]) /\ req[w].at = "release"
    BY <1>10 DEF ReleaseTicket, UsedInv, SerialInv, TypeOK
  <2>1. h \in Tickets /\ c \in Codes /\ codeState[c] = "canceled" /\ holder[h] # NoUser
    BY <2>a, <2>0 DEF Sound, Current, Requests
  <2>2. holder' = [holder EXCEPT ![h] = NoUser] /\ UNCHANGED <<codeState, ticketCode>>
    BY <1>10, <2>a DEF ReleaseTicket
  <2>3. OwnerOf(c)' = NoUser
    <3>1. \A s \in Tickets : ticketCode'[s] = c => holder'[s] = NoUser
      BY <1>0, <2>a, <2>1, <2>2 DEF OneHolderPerCode, TypeOK
    <3>. QED
      BY <3>1, OwnerGone
  <2>4. ASSUME NEW d \in Codes, d # c PROVE OwnerOf(d)' = OwnerOf(d)
    <3>1. \A s \in Tickets : /\ ticketCode'[s] = ticketCode[s]
                             /\ ticketCode[s] = d => holder'[s] = holder[s]
      BY <2>a, <2>1, <2>2, <2>4 DEF TypeOK
    <3>. QED
      BY <3>1, OwnerFrame
  <2>5. owner' = [owner EXCEPT ![c] = NoUser]
    BY <1>a, <2>1, <2>3, <2>4
  <2>6. Lifecycle!Release(c)
    BY <2>1, <2>2, <2>5 DEF Lifecycle!Release
  <2>. QED
    BY <2>1, <2>6 DEF Lifecycle!Next
<1>11. ASSUME NEW w \in Workers, Arrive(w) PROVE Good
  BY <1>2, <1>4, <1>11
  DEF Arrive, DestroyRequest, Activate, ActivateForUser, ActivateOnCodePage, CancelTicket
<1>12. ASSUME NEW w \in Workers, Serve(w) PROVE Good
  BY <1>2, <1>5, <1>6, <1>7, <1>8, <1>9, <1>10, <1>12
  DEF Serve, CheckVacant, FindNewCode, ReadOwn, FindTicket
<1>13. ASSUME NEW w \in Workers, Abort(w) PROVE Good
  BY <1>2, <1>13 DEF Abort
<1>14. ASSUME UNCHANGED vars PROVE Good
  BY <1>2, <1>14 DEF vars
<1>. QED
  BY <1>3, <1>11, <1>12, <1>13, <1>14 DEF Next

\* Requests that do not overlap, even if they die half way, implement the life
\* of a code that TicketCode and the forms' messages declare.
THEOREM CodeLifecycleImplemented == ASSUME Serial PROVE Spec => ImplementsLifecycle
<1>1. Init => Lifecycle!Init
  <2> SUFFICES ASSUME Init PROVE Lifecycle!Init
    OBVIOUS
  <2>1. \A c \in Codes : OwnerOf(c) = NoUser
    BY OwnerHolds DEF Init
  <2>2. codeState \in [Codes -> {"absent", "new"}]
    BY DEF Init
  <2>. QED
    BY <2>1, <2>2 DEF Lifecycle!Init
<1>2. TypeOK /\ UsedInv /\ SerialInv /\ [Next]_vars => [Lifecycle!Next]_Lifecycle!vars
  BY LifecycleStep
<1>3. TypeOK /\ UsedInv /\ SerialInv /\ [Next]_vars => SerialInv'
  BY SerialStep
<1>. QED
  BY <1>1, <1>2, <1>3, SerialInit, UsedInit, UsedStep, ActivationTypeCorrect, PTL
  DEF Spec, ImplementsLifecycle, Lifecycle!Spec

=============================================================================
