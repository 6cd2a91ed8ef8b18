-------------------------- MODULE BridgeHubProofs --------------------------
(***************************************************************************)
(* The hub's safety for any number of requests, sockets and registrations. *)
(*                                                                         *)
(* Three facts carry it.  The hub's client is a socket that is open or     *)
(* whose 'close' event is to come, so a request bound to another socket    *)
(* still has that event ahead of it.  An open client belongs to the        *)
(* registration that holds the id.  A message names the registration its   *)
(* request was made for, as it is only ever sent on an open client of that *)
(* registration.                                                           *)
(*                                                                         *)
(* From there follow how often a request runs, the refinement of the       *)
(* promise to request()'s callers, and what a prompt's viewer is told.     *)
(***************************************************************************)
EXTENDS PromptDelivery, TLAPS

Outcomes == {"answered", "timeout", "lost", "session_closed", "bad_response"}

\* A request's record as TypeOK has it.
WellFormed(q) == q \in Request /\ (q.phase = "pending" <=> q.ws # None)

ClientIsKnown == client # None => sock[client].state \in {"open", "gone"}

OpenClientHoldsTheId == IsConnected => reg # 0 /\ sock[client].reg = reg

MessagesKeepTheirShare ==
  \A m \in sent \cup held : req[m.r].phase # "idle" /\ m.reg = req[m.r].reg

IdleIsUnanswered == \A r \in Requests : req[r].phase = "idle" => req[r].by = 0

Sound ==
  /\ ClientIsKnown
  /\ OpenClientHoldsTheId
  /\ MessagesKeepTheirShare
  /\ IdleIsUnanswered
  /\ AnsweredByItsShare
  /\ NoOrphanedRequest
  /\ WaitersMeetTheBridge

IInv == TypeOK /\ Sound

---------------------------------------------------------------------------
(* What the helpers make of a request *)

(* The bounds, one by one; no socket is None. *)
LEMMA Bounds ==
  /\ MaxSockets \in Nat \ {0} /\ MaxRegs \in Nat \ {0} /\ GraceRounds \in Nat
  /\ \A s \in Sockets : s # None
  /\ 1 \in Regs /\ 0 \notin Regs
BY BoundsAreNatural, NoneIsNoSocket DEF Sockets, Regs

(* A settled request is bound to no socket and keeps its registration. *)
LEMMA DoneIsWellFormed ==
  ASSUME NEW q \in Request, NEW outcome \in Outcomes
  PROVE  /\ WellFormed(Done(q, outcome))
         /\ Done(q, outcome).phase = "done"
         /\ Done(q, outcome).reg = q.reg
         /\ Done(q, outcome).by = q.by
BY DEF Done, Request, WellFormed, Outcomes

(* A request that is sent is bound to the socket it is sent on. *)
LEMMA SentIsWellFormed ==
  ASSUME NEW q \in Request, NEW s \in Sockets, NEW attempt \in {1, 2}
  PROVE  /\ WellFormed(SentOn(q, s, attempt))
         /\ SentOn(q, s, attempt).phase = "pending"
         /\ SentOn(q, s, attempt).ws = s
         /\ SentOn(q, s, attempt).attempt = attempt
         /\ SentOn(q, s, attempt).reg = q.reg
         /\ SentOn(q, s, attempt).by = q.by
BY Bounds DEF SentOn, Request, WellFormed

(* After its link dropped a request is settled, waits while no socket is   *)
(* open, or goes out once more on the open one, if the id is still its.    *)
LEMMA AfterLossIsWellFormed ==
  ASSUME TypeOK, NEW r \in Requests,
         NEW openNow \in Sockets \cup {None}, NEW dropNow
  PROVE  LET q == AfterLoss(r, openNow, dropNow) IN
         /\ WellFormed(q)
         /\ q.phase \in {"done", "waiting", "pending"}
         /\ q.reg = req[r].reg
         /\ q.by = req[r].by
         /\ q.phase = "waiting" => openNow = None
         /\ q.phase = "pending" => openNow # None /\ q.ws = openNow /\ q.attempt = 2 /\ q.reg = reg
<1> DEFINE q == AfterLoss(r, openNow, dropNow)
           w == [req[r] EXCEPT !.phase = "waiting", !.ws = None]
<1>1. req[r] \in Request
  BY DEF TypeOK
<1>2. w \in Request /\ WellFormed(w) /\ w.phase = "waiting" /\ w.reg = req[r].reg /\ w.by = req[r].by
  BY <1>1 DEF Request, WellFormed
<1>3. \/ q = Done(req[r], "lost")
      \/ q = Done(req[r], "session_closed")
      \/ q = w /\ openNow = None
      \/ q = SentOn(req[r], openNow, 2) /\ openNow # None /\ req[r].reg = reg
  BY DEF AfterLoss, SameRegistration
<1>4. CASE q = Done(req[r], "lost") \/ q = Done(req[r], "session_closed")
  BY <1>1, <1>4, DoneIsWellFormed DEF Outcomes
<1>5. CASE q = w /\ openNow = None
  BY <1>2, <1>5
<1>6. CASE q = SentOn(req[r], openNow, 2) /\ openNow # None /\ req[r].reg = reg
  BY <1>1, <1>6, SentIsWellFormed
<1>7. QED
  BY <1>3, <1>4, <1>5, <1>6

(* A message goes out with the registration of the socket it is sent on,    *)
(* for a request that is pending there after the step.                      *)
LEMMA NewMessagesAreTyped ==
  ASSUME TypeOK, NEW s \in Sockets, sock[s].reg # 0, req' \in [Requests -> Request]
  PROVE  \A m \in NewMessages(s) :
           /\ m \in Message
           /\ m.reg = sock[s].reg
           /\ req'[m.r].phase = "pending" /\ req'[m.r].ws = s
           /\ req[m.r].phase # "pending" \/ req[m.r].attempt # req'[m.r].attempt
<1> SUFFICES ASSUME NEW r \in Requests, req'[r].phase = "pending", req'[r].ws = s,
                    req[r].phase # "pending" \/ req[r].attempt # req'[r].attempt
             PROVE  LET m == MessageOf(r, req'[r], s) IN m \in Message /\ m.reg = sock[s].reg /\ m.r = r
  BY DEF NewMessages
<1>1. req'[r].attempt \in {1, 2}
  BY DEF Request
<1>2. sock[s].reg \in Regs
  BY DEF TypeOK, Socket
<1>3. QED
  BY <1>1, <1>2 DEF MessageOf, Message

---------------------------------------------------------------------------
(* Steps *)

(* What the request table has to be after a step, request by request; the   *)
(* rest of the state is given.                                              *)
RequestsFollow ==
  \A r \in Requests :
    /\ WellFormed(req'[r])
    /\ req[r].phase # "idle" => req'[r].phase # "idle" /\ req'[r].reg = req[r].reg
    /\ req'[r].phase = "idle" => req'[r].by = 0
    /\ req'[r].by # 0 => req'[r].by = req'[r].reg

(* Those facts restore the invariant's part about requests' records. *)
LEMMA RequestsKept ==
  ASSUME RequestsFollow, req' \in [Requests -> Request]
  PROVE  /\ \A r \in Requests : req'[r].phase = "pending" <=> req'[r].ws # None
         /\ IdleIsUnanswered'
         /\ AnsweredByItsShare'
BY DEF RequestsFollow, WellFormed, IdleIsUnanswered, AnsweredByItsShare

(* A step that leaves sockets and registrations alone, sends nothing and    *)
(* settles one request.                                                     *)
LEMMA OneSettles ==
  ASSUME IInv, NEW r \in Requests, NEW outcome \in Outcomes, req[r].phase # "idle",
         req' = [req EXCEPT ![r] = Done(@, outcome)],
         UNCHANGED <<reg, lastReg, client, sock, drop, sent, held, runs, reconnects>>
  PROVE  IInv'
<1>1. \A x \in Requests : req[x] \in Request /\ WellFormed(req[x])
  BY DEF IInv, TypeOK, WellFormed
<1>2. /\ WellFormed(Done(req[r], outcome)) /\ Done(req[r], outcome).phase = "done"
      /\ Done(req[r], outcome).reg = req[r].reg /\ Done(req[r], outcome).by = req[r].by
  BY <1>1, DoneIsWellFormed
<1>3. \A x \in Requests : req'[x] = IF x = r THEN Done(req[r], outcome) ELSE req[x]
  BY DEF IInv, TypeOK
<1>4. req' \in [Requests -> Request]
  BY <1>1, <1>2, <1>3 DEF WellFormed, IInv, TypeOK
<1>5. RequestsFollow
  BY <1>1, <1>2, <1>3 DEF RequestsFollow, IInv, Sound, IdleIsUnanswered, AnsweredByItsShare
<1>6. TypeOK'
  BY <1>4, <1>5, RequestsKept DEF IInv, TypeOK
<1>7. MessagesKeepTheirShare'
  BY <1>5 DEF IInv, TypeOK, Message, Sound, MessagesKeepTheirShare, RequestsFollow
<1>8. NoOrphanedRequest' /\ WaitersMeetTheBridge'
  BY <1>2, <1>3 DEF IInv, Sound, NoOrphanedRequest, WaitersMeetTheBridge, Pending, Waiting, IsConnected
<1>9. ClientIsKnown' /\ OpenClientHoldsTheId'
  BY DEF IInv, Sound, ClientIsKnown, OpenClientHoldsTheId, IsConnected
<1>10. QED
  BY <1>4, <1>5, <1>6, <1>7, <1>8, <1>9, RequestsKept DEF IInv, Sound

(* A step that changes no request and no message's registration. *)
LEMMA RequestsUntouched ==
  ASSUME IInv, req' = req, UNCHANGED <<client, reconnects>>,
         reg' \in Regs \cup {0}, lastReg' \in Regs, drop' \in {"none", "recent", "old"},
         sock' \in [Sockets -> Socket],
         \A s \in Sockets : \/ sock'[s].state = sock[s].state
                            \/ sock[s].state = "open" /\ sock'[s].state = "gone",
         IsConnected' => reg' # 0 /\ sock'[client].reg = reg',
         sent' \subseteq Message, held' \subseteq Message, sent' \cup held' \subseteq sent \cup held,
         runs' \in [Requests -> Nat]
  PROVE  IInv'
<1>1. TypeOK'
  BY DEF IInv, TypeOK
<1>2. IsConnected' => IsConnected
  BY DEF IsConnected, IInv, TypeOK
<1>3. ClientIsKnown' /\ OpenClientHoldsTheId' /\ WaitersMeetTheBridge'
  BY <1>2 DEF IInv, TypeOK, Sound, ClientIsKnown, OpenClientHoldsTheId, WaitersMeetTheBridge, Waiting
<1>4. NoOrphanedRequest'
  <2>1. SUFFICES ASSUME NEW r \in Requests, Pending(r)
                 PROVE  req[r].ws = client \/ sock'[req[r].ws].state \in {"gone", "closing"}
    BY DEF NoOrphanedRequest, Pending
  <2>2. req[r] \in Request /\ req[r].ws # None
    BY <2>1 DEF IInv, TypeOK, Pending
  <2>3. req[r].ws \in Sockets
    BY <2>2 DEF Request
  <2>4. QED
    BY <2>1, <2>3 DEF IInv, Sound, NoOrphanedRequest
<1>5. MessagesKeepTheirShare' /\ IdleIsUnanswered' /\ AnsweredByItsShare'
  BY DEF IInv, Sound, MessagesKeepTheirShare, IdleIsUnanswered, AnsweredByItsShare
<1>6. QED
  BY <1>1, <1>3, <1>4, <1>5 DEF IInv, Sound

(* A viewer asks. *)
LEMMA AskPreserves ==
  ASSUME IInv, NEW r \in Requests, Ask(r)
  PROVE  IInv'
<1> DEFINE q == [req[r] EXCEPT !.reg = reg]
           w == [q EXCEPT !.phase = "waiting"]
<1>1. /\ \A x \in Requests : req[x] \in Request /\ WellFormed(req[x])
      /\ reg \in Regs /\ req[r].phase = "idle" /\ req[r].by = 0
  BY DEF IInv, TypeOK, WellFormed, Ask, Sound, IdleIsUnanswered
<1>2. q \in Request /\ q.reg = reg /\ q.by = 0 /\ q.phase = "idle" /\ q.ws = None
  BY <1>1 DEF Request, WellFormed
<1>3. w \in Request /\ WellFormed(w) /\ w.by = 0 /\ w.phase = "waiting" /\ w.reg = reg
  BY <1>2 DEF Request, WellFormed
<1>4. \/ IsConnected /\ req'[r] = SentOn(q, client, 1)
      \/ ~IsConnected /\ req'[r] = w
      \/ ~IsConnected /\ req'[r] = Done(q, "lost")
  BY DEF Ask, IInv, TypeOK
<1>5. \A x \in Requests \ {r} : req'[x] = req[x]
  BY DEF Ask, IInv, TypeOK
<1>6. IsConnected => client \in Sockets /\ sock[client].reg = reg /\ reg # 0
  BY DEF IsConnected, IInv, TypeOK, Sound, OpenClientHoldsTheId
<1> HIDE DEF q, w
<1>7. /\ WellFormed(req'[r]) /\ req'[r].by = 0 /\ req'[r].phase # "idle" /\ req'[r].reg = reg
      /\ req'[r].phase = "pending" => req'[r].ws = client
      /\ IsConnected => req'[r].phase = "pending"
  <2>1. CASE IsConnected /\ req'[r] = SentOn(q, client, 1)
    BY <1>2, <1>6, <2>1, SentIsWellFormed
  <2>2. CASE ~IsConnected /\ req'[r] = w
    BY <1>3, <2>2
  <2>3. CASE ~IsConnected /\ req'[r] = Done(q, "lost")
    BY <1>2, <2>3, DoneIsWellFormed DEF Outcomes
  <2>4. QED
    BY <1>4, <2>1, <2>2, <2>3
<1>8. req' \in [Requests -> Request]
  BY <1>1, <1>5, <1>7 DEF WellFormed, Ask, IInv, TypeOK
<1>9. RequestsFollow
  BY <1>1, <1>5, <1>7 DEF RequestsFollow, IInv, Sound, IdleIsUnanswered, AnsweredByItsShare
<1>10. \A m \in sent' : m \in Message /\ (m \in sent \/ (m.r = r /\ m.reg = reg))
  <2>1. CASE ~IsConnected
    BY <2>1 DEF Ask, IInv, TypeOK
  <2>2. CASE IsConnected
    BY <1>5, <1>6, <1>8, <2>2, NewMessagesAreTyped DEF Ask, IInv, TypeOK, Message
  <2>3. QED
    BY <2>1, <2>2
<1>11. MessagesKeepTheirShare'
  <2>1. \A m \in sent' \cup held' : \/ m \in sent \cup held
                                    \/ m.r = r /\ m.reg = reg
    BY <1>10 DEF Ask
  <2>2. \A m \in sent \cup held : m.r \in Requests /\ m.r # r /\ req'[m.r] = req[m.r]
    BY <1>1, <1>5 DEF IInv, TypeOK, Message, Sound, MessagesKeepTheirShare
  <2>3. QED
    BY <1>7, <2>1, <2>2 DEF MessagesKeepTheirShare, IInv, Sound
<1>12. TypeOK'
  BY <1>8, <1>9, <1>10, RequestsKept DEF Ask, IInv, TypeOK
<1>13. NoOrphanedRequest'
  BY <1>5, <1>7 DEF Ask, IInv, Sound, NoOrphanedRequest, Pending
<1>14. WaitersMeetTheBridge'
  BY <1>5, <1>7 DEF Ask, IInv, Sound, WaitersMeetTheBridge, Waiting, IsConnected
<1>15. ClientIsKnown' /\ OpenClientHoldsTheId'
  BY DEF Ask, IInv, Sound, ClientIsKnown, OpenClientHoldsTheId, IsConnected
<1>16. QED
  BY <1>8, <1>9, <1>11, <1>12, <1>13, <1>14, <1>15, RequestsKept DEF IInv, Sound

(* A bridge dials in and takes up what waits for it. *)
LEMMA DialPreserves ==
  ASSUME IInv, NEW s \in Sockets, Dial(s)
  PROVE  IInv'
<1>1. /\ \A x \in Requests : req[x] \in Request /\ WellFormed(req[x])
      /\ reg \in Regs /\ s # None
  BY Bounds DEF IInv, TypeOK, WellFormed, Dial
<1>2. \A r \in Requests :
        \/ r \in Waiting /\ req[r].reg = reg /\ req'[r] = SentOn(req[r], s, 2)
        \/ r \in Waiting /\ req[r].reg # reg /\ req'[r] = Done(req[r], "session_closed")
        \/ r \notin Waiting /\ req'[r] = req[r]
  BY DEF Dial, SameRegistration
<1>3. \A r \in Requests :
        \/ r \notin Waiting /\ req'[r] = req[r]
        \/ /\ r \in Waiting /\ WellFormed(req'[r]) /\ req'[r].reg = req[r].reg /\ req'[r].by = req[r].by
           /\ req'[r].phase = "done" \/ (req'[r].phase = "pending" /\ req'[r].ws = s)
  <2> TAKE r \in Requests
  <2>1. CASE req'[r] = SentOn(req[r], s, 2) /\ r \in Waiting
    BY <1>1, <2>1, SentIsWellFormed
  <2>2. CASE req'[r] = Done(req[r], "session_closed") /\ r \in Waiting
    BY <1>1, <2>2, DoneIsWellFormed DEF Outcomes
  <2>3. QED
    BY <1>2, <2>1, <2>2
<1>4. req' = [r \in Requests |-> req'[r]]
  BY DEF Dial
<1>5. req' \in [Requests -> Request]
  BY <1>1, <1>3, <1>4 DEF WellFormed
<1>6. RequestsFollow
  BY <1>1, <1>3 DEF RequestsFollow, IInv, Sound, IdleIsUnanswered, AnsweredByItsShare, Waiting
<1>7. sock' \in [Sockets -> Socket]
  <2>1. [state |-> "open", reg |-> reg, missed |-> 0] \in Socket
    BY <1>1 DEF Socket
  <2>2. \A t \in Sockets : [sock[t] EXCEPT !.state = "gone"] \in Socket
    BY DEF IInv, TypeOK, Socket
  <2>3. QED
    BY <2>1, <2>2 DEF Dial, IInv, TypeOK
<1>8. /\ sock'[s].state = "open" /\ sock'[s].reg = reg
      /\ sock[s].state = "unused"
      /\ \A t \in Sockets \ {s} :
           /\ t = client /\ sock[t].state = "open" => sock'[t].state = "gone"
           /\ t # client \/ sock[t].state # "open" => sock'[t] = sock[t]
  BY DEF Dial, IInv, TypeOK, Socket
<1>9. sent' \subseteq Message /\ \A m \in sent' : m \in sent \/ (m.r \in Waiting /\ m.reg = reg /\ req[m.r].reg = reg)
  <2> DEFINE new == {[r |-> r, attempt |-> 2, reg |-> reg] :
                       r \in {x \in Waiting : SameRegistration(req[x])}}
  <2>1. \A r \in Waiting : r \in Requests /\ [r |-> r, attempt |-> 2, reg |-> reg] \in Message
    BY <1>1 DEF Message, Waiting
  <2>2. \A m \in new : m \in Message /\ m.r \in Waiting /\ m.reg = reg /\ req[m.r].reg = reg
    BY <2>1 DEF SameRegistration
  <2>3. sent' = sent \cup new /\ sent \subseteq Message
    BY DEF Dial, IInv, TypeOK
  <2>4. QED
    BY <2>2, <2>3
<1>10. MessagesKeepTheirShare'
  <2>1. \A m \in sent \cup held : m.r \in Requests /\ req[m.r].phase # "idle" /\ m.reg = req[m.r].reg
    BY DEF IInv, TypeOK, Message, Sound, MessagesKeepTheirShare
  <2>2. \A m \in sent' \cup held' : /\ m.r \in Requests /\ req[m.r].phase # "idle"
                                    /\ m.reg = req[m.r].reg
    BY <1>9, <2>1 DEF Dial, Waiting
  <2>3. QED
    BY <1>6, <2>2 DEF RequestsFollow, MessagesKeepTheirShare
<1>11. TypeOK'
  BY <1>5, <1>6, <1>7, <1>9, RequestsKept DEF Dial, IInv, TypeOK
<1>12. NoOrphanedRequest'
  <2>1. SUFFICES ASSUME NEW r \in Requests, req'[r].phase = "pending"
                 PROVE  req'[r].ws = s \/ sock'[req'[r].ws].state \in {"gone", "closing"}
    BY DEF NoOrphanedRequest, Pending, Dial
  <2>2. CASE r \in Waiting
    BY <1>3, <2>1, <2>2
  <2>3. CASE r \notin Waiting
    <3>1. req'[r] = req[r] /\ Pending(r) /\ req[r].ws \in Sockets
      BY <1>1, <1>3, <2>1, <2>3 DEF Pending, WellFormed, Request
    <3>2. req[r].ws = client \/ sock[req[r].ws].state \in {"gone", "closing"}
      BY <3>1 DEF IInv, Sound, NoOrphanedRequest
    <3>3. client # None => sock[client].state \in {"open", "gone"}
      BY DEF IInv, Sound, ClientIsKnown
    <3>4. QED
      BY <1>8, <3>1, <3>2, <3>3, Bounds
  <2>4. QED
    BY <2>2, <2>3
<1>13. WaitersMeetTheBridge'
  BY <1>3 DEF WaitersMeetTheBridge, Waiting
<1>14. ClientIsKnown' /\ OpenClientHoldsTheId'
  BY <1>1, <1>8, Bounds DEF Dial, ClientIsKnown, OpenClientHoldsTheId, IsConnected
<1>15. QED
  BY <1>5, <1>6, <1>10, <1>11, <1>12, <1>13, <1>14, RequestsKept DEF IInv, Sound

(* An answer arrives on the bridge's latest socket. *)
LEMMA AnswerPreserves ==
  ASSUME IInv, NEW m \in held, NEW frame \in Frames, Answer(m, frame)
  PROVE  IInv'
<1> DEFINE answered == [Answered(req[m.r], frame) EXCEPT !.by = m.reg]
<1>1. /\ \A x \in Requests : req[x] \in Request /\ WellFormed(req[x])
      /\ m \in Message /\ m.r \in Requests /\ m.reg \in Regs
      /\ m.reg = req[m.r].reg /\ req[m.r].phase # "idle"
  BY DEF IInv, TypeOK, WellFormed, Message, Sound, MessagesKeepTheirShare
<1>3. /\ WellFormed(answered) /\ answered.phase \in {"inflating", "done"}
      /\ answered.reg = req[m.r].reg /\ answered.by = m.reg
  BY <1>1 DEF Answered, Frames, Done, WellFormed, Request
<1>4. req' = req \/ req' = [req EXCEPT ![m.r] = answered]
  BY DEF Answer
<1> HIDE DEF answered
<1>5. /\ req' \in [Requests -> Request]
      /\ \A x \in Requests : x # m.r => req'[x] = req[x]
      /\ \/ req'[m.r] = req[m.r]
         \/ /\ WellFormed(req'[m.r]) /\ req'[m.r].phase \in {"inflating", "done"}
            /\ req'[m.r].reg = req[m.r].reg /\ req'[m.r].by = m.reg
  <2>1. req' = [req EXCEPT ![m.r] = answered] =>
          /\ req' \in [Requests -> Request]
          /\ \A y \in Requests : y # m.r => req'[y] = req[y]
          /\ req'[m.r] = answered
    BY <1>1, <1>3 DEF WellFormed, IInv, TypeOK
  <2>2. QED
    BY <1>3, <1>4, <2>1 DEF IInv, TypeOK
<1>6. RequestsFollow
  BY <1>1, <1>5 DEF RequestsFollow, IInv, Sound, IdleIsUnanswered, AnsweredByItsShare
<1>7. /\ sock' \in [Sockets -> Socket]
      /\ \A s \in Sockets : sock'[s].state = sock[s].state /\ sock'[s].reg = sock[s].reg
  <2>1. PICK s \in Sockets : sock' = [sock EXCEPT ![s].missed = 0]
    BY DEF Answer, LatestOf
  <2>2. [sock[s] EXCEPT !.missed = 0] \in Socket
    BY DEF IInv, TypeOK, Socket
  <2>3. QED
    BY <2>1, <2>2 DEF IInv, TypeOK, Socket
<1>8. TypeOK'
  BY <1>5, <1>6, <1>7, RequestsKept DEF Answer, IInv, TypeOK
<1>9. MessagesKeepTheirShare'
  BY <1>6 DEF Answer, IInv, TypeOK, Message, Sound, MessagesKeepTheirShare, RequestsFollow
<1>10. NoOrphanedRequest'
  <2>1. SUFFICES ASSUME NEW r \in Requests, req'[r].phase = "pending"
                 PROVE  req'[r].ws = client' \/ sock'[req'[r].ws].state \in {"gone", "closing"}
    BY DEF NoOrphanedRequest, Pending
  <2>2. req'[r] = req[r] /\ Pending(r)
    BY <1>5, <2>1 DEF Pending
  <2>3. req[r].ws \in Sockets
    BY <1>1, <2>2 DEF Pending, WellFormed, Request
  <2>4. QED
    BY <1>7, <2>2, <2>3 DEF Answer, IInv, Sound, NoOrphanedRequest
<1>11. IsConnected' => IsConnected
  BY <1>7 DEF Answer, IsConnected, IInv, TypeOK
<1>12. WaitersMeetTheBridge'
  BY <1>5, <1>11 DEF IInv, Sound, WaitersMeetTheBridge, Waiting
<1>13. ClientIsKnown' /\ OpenClientHoldsTheId'
  BY <1>7, <1>11 DEF Answer, IInv, TypeOK, Sound, ClientIsKnown, OpenClientHoldsTheId, IsConnected
<1>14. QED
  BY <1>5, <1>6, <1>8, <1>9, <1>10, <1>12, <1>13, RequestsKept DEF IInv, Sound

(* A share ends through disconnect(), or a new registration replaces it. *)
LEMMA DisconnectPreserves ==
  ASSUME IInv, Disconnect, reg' \in Regs \cup {0}, lastReg' \in Regs,
         UNCHANGED <<sent, held, runs, reconnects>>
  PROVE  IInv'
<1>1. \A x \in Requests : req[x] \in Request /\ WellFormed(req[x])
  BY DEF IInv, TypeOK, WellFormed
<1>2. \A r \in Requests :
        \/ /\ req'[r] = Done(req[r], "session_closed") \/ req'[r] = Done(req[r], "lost")
           /\ req[r].phase \in {"pending", "waiting"}
        \/ /\ req'[r] = req[r]
           /\ r \notin Waiting
           /\ Pending(r) => client = None
  BY DEF Disconnect, Pending, Waiting
<1>3. \A r \in Requests :
        \/ /\ WellFormed(req'[r]) /\ req'[r].phase = "done"
           /\ req'[r].reg = req[r].reg /\ req'[r].by = req[r].by
        \/ /\ req'[r] = req[r]
           /\ r \notin Waiting
           /\ Pending(r) => client = None
  <2> TAKE r \in Requests
  <2>1. \A outcome \in Outcomes : /\ WellFormed(Done(req[r], outcome))
                                   /\ Done(req[r], outcome).phase = "done"
                                   /\ Done(req[r], outcome).reg = req[r].reg
                                   /\ Done(req[r], outcome).by = req[r].by
    BY <1>1, DoneIsWellFormed
  <2>2. "session_closed" \in Outcomes /\ "lost" \in Outcomes
    BY DEF Outcomes
  <2>3. QED
    BY <1>2, <2>1, <2>2
<1>4. req' = [r \in Requests |-> req'[r]]
  <2> DEFINE f(r) == CASE client # None /\ Pending(r) -> Done(req[r], "session_closed")
                       [] r \in Waiting -> Done(req[r], "lost")
                       [] OTHER -> req[r]
  <2>1. req' = [r \in Requests |-> f(r)]
    BY DEF Disconnect
  <2> HIDE DEF f
  <2>2. QED
    BY <2>1
<1>5. req' \in [Requests -> Request]
  BY <1>1, <1>3, <1>4 DEF WellFormed
<1>6. RequestsFollow
  BY <1>1, <1>3 DEF RequestsFollow, IInv, Sound, IdleIsUnanswered, AnsweredByItsShare
<1>7. sock' \in [Sockets -> Socket] /\ (client = None => sock' = sock) /\ client' = None
  <2>1. \A s \in Sockets : [sock[s] EXCEPT !.state = "closing"] \in Socket
    BY DEF IInv, TypeOK, Socket
  <2>2. QED
    BY <2>1 DEF Disconnect, IsConnected, IInv, TypeOK
<1>8. TypeOK'
  BY <1>5, <1>6, <1>7, RequestsKept DEF Disconnect, IInv, TypeOK
<1>9. MessagesKeepTheirShare'
  BY <1>6 DEF IInv, TypeOK, Message, Sound, MessagesKeepTheirShare, RequestsFollow
<1>10. NoOrphanedRequest'
  <2>1. SUFFICES ASSUME NEW r \in Requests, req'[r].phase = "pending"
                 PROVE  sock'[req'[r].ws].state \in {"gone", "closing"}
    BY DEF NoOrphanedRequest, Pending
  <2>2. req'[r] = req[r] /\ Pending(r) /\ client = None
    BY <1>3, <2>1 DEF Pending
  <2>3. req[r].ws # None
    BY <1>1, <2>2 DEF Pending, WellFormed
  <2>4. QED
    BY <1>7, <2>2, <2>3 DEF IInv, Sound, NoOrphanedRequest
<1>11. WaitersMeetTheBridge' /\ ClientIsKnown' /\ OpenClientHoldsTheId'
  BY <1>7 DEF WaitersMeetTheBridge, ClientIsKnown, OpenClientHoldsTheId, IsConnected
<1>12. QED
  BY <1>5, <1>6, <1>8, <1>9, <1>10, <1>11, RequestsKept DEF IInv, Sound

(* A socket's 'close' event fails, repeats or moves what was bound to it. *)
LEMMA CloseEventPreserves ==
  ASSUME IInv, NEW s \in Sockets, CloseEvent(s)
  PROVE  IInv'
<1> DEFINE successor == IF client = s THEN None ELSE client
           openNow   == IF client # s /\ IsConnected THEN client ELSE None
           dropNow   == IF client = s THEN "recent" ELSE drop
           moved     == MovesTo(s, successor)
           f(r)      == CASE r \in moved -> [req[r] EXCEPT !.ws = successor]
                          [] r \in PendingOn(s) \ moved -> AfterLoss(r, openNow, dropNow)
                          [] OTHER -> req[r]
<1>1. /\ \A x \in Requests : req[x] \in Request /\ WellFormed(req[x])
      /\ client \in Sockets \cup {None} /\ s # None
  BY Bounds DEF IInv, TypeOK, WellFormed
<1>2. /\ sock[s].state \in {"gone", "closing"}
      /\ sock' = [sock EXCEPT ![s].state = "closed"]
      /\ client' = successor
      /\ drop' = dropNow
      /\ req' = [r \in Requests |-> f(r)]
      /\ sent' = sent \cup (IF openNow # None THEN NewMessages(openNow) ELSE {})
      /\ UNCHANGED <<reg, lastReg, held, runs, reconnects>>
  BY DEF CloseEvent
<1>3. /\ openNow \in Sockets \cup {None}
      /\ openNow # None => openNow = client /\ client # s /\ sock[client].reg = reg /\ reg # 0
  BY <1>1 DEF IInv, Sound, OpenClientHoldsTheId, IsConnected
<1>4. moved \subseteq PendingOn(s) /\ (moved # {} => client # s /\ client # None /\ successor = client)
  BY DEF MovesTo
<1>5. \A r \in Requests :
        \/ r \notin PendingOn(s) /\ f(r) = req[r]
        \/ /\ r \in PendingOn(s) /\ WellFormed(f(r)) /\ f(r).phase \in {"done", "waiting", "pending"}
           /\ f(r).reg = req[r].reg /\ f(r).by = req[r].by
           /\ f(r).phase = "pending" => client # s /\ client # None /\ f(r).ws = client
           /\ f(r).phase = "waiting" => openNow = None
           /\ f(r).phase = "pending" /\ f(r).attempt # req[r].attempt => f(r).reg = reg
  <2> TAKE r \in Requests
  <2>1. CASE r \in moved
    <3>1. f(r) = [req[r] EXCEPT !.ws = client] /\ client # s /\ client # None /\ r \in PendingOn(s)
      BY <1>4, <2>1
    <3>2. req[r].phase = "pending"
      BY <3>1 DEF PendingOn, Pending
    <3> HIDE DEF f
    <3>3. QED
      BY <1>1, <3>1, <3>2 DEF WellFormed, Request
  <2>2. CASE r \in PendingOn(s) \ moved
    <3>1. f(r) = AfterLoss(r, openNow, dropNow)
      BY <2>2
    <3> HIDE DEF f, openNow, dropNow
    <3>2. QED
      BY <1>3, <2>2, <3>1, AfterLossIsWellFormed DEF IInv
  <2>3. CASE r \notin PendingOn(s)
    BY <1>4, <2>3
  <2>4. QED
    BY <2>1, <2>2, <2>3
<1> HIDE DEF f, moved
<1>6. req' \in [Requests -> Request]
  BY <1>1, <1>2, <1>5 DEF WellFormed
<1>7. \A r \in Requests : req'[r] = f(r)
  BY <1>2
<1>8. RequestsFollow
  BY <1>1, <1>5, <1>7 DEF RequestsFollow, IInv, Sound, IdleIsUnanswered, AnsweredByItsShare,
                          PendingOn, Pending
<1>9. sock' \in [Sockets -> Socket] /\ \A t \in Sockets \ {s} : sock'[t] = sock[t]
  <2>1. [sock[s] EXCEPT !.state = "closed"] \in Socket
    BY DEF IInv, TypeOK, Socket
  <2>2. QED
    BY <1>2, <2>1 DEF IInv, TypeOK
<1>10. \A m \in sent' : /\ m \in Message
                        /\ m \in sent \/ (req'[m.r].phase = "pending" /\ m.reg = req'[m.r].reg)
  <2>1. CASE openNow = None
    BY <1>2, <2>1 DEF IInv, TypeOK
  <2>2. CASE openNow # None
    <3>1. \A m \in NewMessages(openNow) :
            /\ m \in Message /\ m.reg = reg
            /\ req'[m.r].phase = "pending"
            /\ req[m.r].phase # "pending" \/ req[m.r].attempt # req'[m.r].attempt
      BY <1>3, <1>6, <2>2, NewMessagesAreTyped DEF IInv
    <3>2. \A m \in NewMessages(openNow) : m.r \in Requests /\ m.r \in PendingOn(s)
      BY <1>5, <1>7, <3>1 DEF Message
    <3>3. \A m \in NewMessages(openNow) : m.reg = req'[m.r].reg
      BY <1>5, <1>7, <3>1, <3>2 DEF PendingOn, Pending
    <3>4. QED
      BY <1>2, <3>1, <3>3 DEF IInv, TypeOK
  <2>3. QED
    BY <2>1, <2>2
<1>11. MessagesKeepTheirShare'
  <2>1. \A m \in sent \cup held : m.r \in Requests /\ req[m.r].phase # "idle" /\ m.reg = req[m.r].reg
    BY DEF IInv, TypeOK, Message, Sound, MessagesKeepTheirShare
  <2>2. QED
    BY <1>2, <1>8, <1>10, <2>1 DEF RequestsFollow, MessagesKeepTheirShare
<1>12. TypeOK'
  <2>1. drop' \in {"none", "recent", "old"} /\ client' \in Sockets \cup {None}
    BY <1>1, <1>2 DEF IInv, TypeOK
  <2>2. sent' \subseteq Message
    BY <1>10
  <2>3. QED
    BY <1>2, <1>6, <1>8, <1>9, <2>1, <2>2, RequestsKept DEF IInv, TypeOK
<1>13. NoOrphanedRequest'
  <2>1. SUFFICES ASSUME NEW r \in Requests, req'[r].phase = "pending"
                 PROVE  req'[r].ws = client' \/ sock'[req'[r].ws].state \in {"gone", "closing"}
    BY DEF NoOrphanedRequest, Pending
  <2>2. CASE r \in PendingOn(s)
    BY <1>2, <1>5, <1>7, <2>1, <2>2
  <2>3. CASE r \notin PendingOn(s)
    <3>1. req'[r] = req[r] /\ Pending(r) /\ req[r].ws \in Sockets /\ req[r].ws # s
      BY <1>1, <1>5, <1>7, <2>1, <2>3 DEF PendingOn, Pending, WellFormed, Request
    <3>2. QED
      BY <1>2, <1>9, <3>1 DEF IInv, Sound, NoOrphanedRequest
  <2>4. QED
    BY <2>2, <2>3
<1>14. IsConnected' => client # s /\ client' = client /\ IsConnected /\ sock'[client] = sock[client]
  BY <1>1, <1>2, <1>9 DEF IsConnected
<1>15. WaitersMeetTheBridge'
  <2>1. IsConnected' => openNow # None
    BY <1>14 DEF IsConnected
  <2>2. SUFFICES ASSUME IsConnected', NEW r \in Requests, req'[r].phase = "waiting" PROVE FALSE
    BY DEF WaitersMeetTheBridge, Waiting
  <2> HIDE DEF openNow
  <2>3. QED
    BY <1>5, <1>7, <1>14, <2>1, <2>2 DEF IInv, Sound, WaitersMeetTheBridge, Waiting
<1>16. ClientIsKnown' /\ OpenClientHoldsTheId'
  BY <1>1, <1>2, <1>9, <1>14 DEF IInv, Sound, ClientIsKnown, OpenClientHoldsTheId
<1>17. QED
  BY <1>6, <1>8, <1>11, <1>12, <1>13, <1>15, <1>16, RequestsKept DEF IInv, Sound

(* A round of keep-alive that gives the client up fails what is bound to it. *)
LEMMA GivenUpPreserves ==
  ASSUME IInv, NEW s \in Sockets, Ping(s), sock[s].missed + 1 > GraceRounds
  PROVE  IInv'
<1> DEFINE f(r) == IF r \in PendingOn(s) THEN AfterLoss(r, None, "recent") ELSE req[r]
<1>1. \A x \in Requests : req[x] \in Request /\ WellFormed(req[x])
  BY DEF IInv, TypeOK, WellFormed
<1>2. /\ client = s /\ sock[s].state = "open"
      /\ sock' = [sock EXCEPT ![s].state = "gone"]
      /\ client' = None /\ drop' = "recent"
      /\ req' = [r \in Requests |-> f(r)]
      /\ UNCHANGED <<reg, lastReg, sent, held, runs, reconnects>>
  BY DEF Ping
<1>3. \A r \in Requests :
        \/ r \notin PendingOn(s) /\ f(r) = req[r]
        \/ /\ r \in PendingOn(s) /\ WellFormed(f(r)) /\ f(r).phase \in {"done", "waiting"}
           /\ f(r).reg = req[r].reg /\ f(r).by = req[r].by
  <2> TAKE r \in Requests
  <2>1. f(r) = IF r \in PendingOn(s) THEN AfterLoss(r, None, "recent") ELSE req[r]
    OBVIOUS
  <2> HIDE DEF f
  <2>2. QED
    BY <2>1, AfterLossIsWellFormed DEF IInv
<1> HIDE DEF f
<1>4. req' \in [Requests -> Request] /\ \A r \in Requests : req'[r] = f(r)
  BY <1>1, <1>2, <1>3 DEF WellFormed
<1>5. RequestsFollow
  BY <1>1, <1>3, <1>4 DEF RequestsFollow, IInv, Sound, IdleIsUnanswered, AnsweredByItsShare,
                          PendingOn, Pending
<1>6. sock' \in [Sockets -> Socket] /\ \A t \in Sockets \ {s} : sock'[t] = sock[t]
  <2>1. [sock[s] EXCEPT !.state = "gone"] \in Socket
    BY DEF IInv, TypeOK, Socket
  <2>2. QED
    BY <1>2, <2>1 DEF IInv, TypeOK
<1>7. TypeOK'
  BY <1>2, <1>4, <1>5, <1>6, RequestsKept DEF IInv, TypeOK
<1>8. MessagesKeepTheirShare'
  BY <1>2, <1>5 DEF IInv, TypeOK, Message, Sound, MessagesKeepTheirShare, RequestsFollow
<1>9. NoOrphanedRequest'
  <2>1. SUFFICES ASSUME NEW r \in Requests, req'[r].phase = "pending"
                 PROVE  sock'[req'[r].ws].state \in {"gone", "closing"}
    BY DEF NoOrphanedRequest, Pending
  <2>2. r \notin PendingOn(s) /\ req'[r] = req[r] /\ Pending(r)
    BY <1>3, <1>4, <2>1 DEF Pending
  <2>3. req[r].ws \in Sockets /\ req[r].ws # s
    BY <1>1, <2>2 DEF PendingOn, Pending, WellFormed, Request
  <2>4. QED
    BY <1>2, <1>6, <2>2, <2>3 DEF IInv, Sound, NoOrphanedRequest
<1>10. WaitersMeetTheBridge' /\ ClientIsKnown' /\ OpenClientHoldsTheId'
  BY <1>2 DEF WaitersMeetTheBridge, ClientIsKnown, OpenClientHoldsTheId, IsConnected
<1>11. QED
  BY <1>4, <1>5, <1>7, <1>8, <1>9, <1>10, RequestsKept DEF IInv, Sound

---------------------------------------------------------------------------
(* The invariant *)

(* A hub that has just started: no bridge, no request, nothing in flight.   *)
LEMMA InitEstablishes == Init => IInv
<1> SUFFICES ASSUME Init PROVE IInv
  OBVIOUS
<1> DEFINE unused == [state |-> "unused", reg |-> 0, missed |-> 0]
           idle   == [phase |-> "idle", outcome |-> "none", reg |-> 0, attempt |-> 1,
                      ws |-> None, by |-> 0]
<1>1. unused \in Socket /\ idle \in Request /\ idle.phase = "idle" /\ idle.ws = None /\ idle.by = 0
  BY DEF Socket, Request
<1>2. sock = [s \in Sockets |-> unused] /\ req = [r \in Requests |-> idle]
  BY DEF Init
<1> HIDE DEF unused, idle
<1>3. TypeOK
  BY <1>1, <1>2, Bounds DEF Init, TypeOK
<1>4. Sound
  BY <1>1, <1>2 DEF Init, Sound, ClientIsKnown, OpenClientHoldsTheId, IsConnected,
     MessagesKeepTheirShare, IdleIsUnanswered, AnsweredByItsShare, NoOrphanedRequest, Pending,
     WaitersMeetTheBridge
<1>5. QED
  BY <1>3, <1>4 DEF IInv

(* Each event of the hub preserves the invariant; the long ones are above.  *)
LEMMA StepPreserves == IInv /\ [Next]_vars => IInv'
<1> SUFFICES ASSUME IInv, [Next]_vars PROVE IInv'
  OBVIOUS
<1>1. ASSUME NEW r \in Requests, RequestTimesOut(r) PROVE IInv'
  BY <1>1, OneSettles DEF RequestTimesOut, Pending, Outcomes
<1>2. ASSUME NEW r \in Requests, WaitTimesOut(r) PROVE IInv'
  BY <1>2, OneSettles DEF WaitTimesOut, Waiting, Outcomes
<1>3. ASSUME NEW r \in Requests, Inflated(r) PROVE IInv'
  BY <1>3, OneSettles DEF Inflated, Outcomes
<1>4. CASE DropAges
  BY <1>4, RequestsUntouched DEF DropAges, IInv, TypeOK, Sound, OpenClientHoldsTheId, IsConnected
<1>5. ASSUME NEW m \in sent, Run(m) PROVE IInv'
  <2>1. m \in Message /\ m.r \in Requests
    BY DEF IInv, TypeOK, Message
  <2>2. runs' \in [Requests -> Nat]
    BY <1>5, <2>1 DEF Run, IInv, TypeOK
  <2>3. sent' \subseteq Message /\ held' \subseteq Message /\ sent' \cup held' \subseteq sent \cup held
    BY <1>5, <2>1 DEF Run, IInv, TypeOK
  <2>4. QED
    BY <1>5, <2>2, <2>3, RequestsUntouched
       DEF Run, IInv, TypeOK, Sound, OpenClientHoldsTheId, IsConnected
<1>6. ASSUME NEW s \in Sockets,
             \/ Alive(s)
             \/ LinkBreaks(s)
             \/ Ping(s) /\ ~(sock[s].missed + 1 > GraceRounds)
      PROVE  IInv'
  <2>1. /\ UNCHANGED <<reg, lastReg, client, drop, req, sent, held, runs, reconnects>>
        /\ \/ sock' = [sock EXCEPT ![s].missed = 0]
           \/ sock' = [sock EXCEPT ![s].missed = @ + 1]
           \/ sock' = [sock EXCEPT ![s].state = "gone"] /\ sock[s].state = "open"
    BY <1>6 DEF Alive, LinkBreaks, Ping
  <2>2. /\ sock' \in [Sockets -> Socket]
        /\ \A t \in Sockets : /\ sock'[t].reg = sock[t].reg
                              /\ \/ sock'[t].state = sock[t].state
                                 \/ sock[t].state = "open" /\ sock'[t].state = "gone"
    <3>1. /\ sock[s] \in Socket /\ [sock[s] EXCEPT !.missed = 0] \in Socket
          /\ [sock[s] EXCEPT !.missed = @ + 1] \in Socket
          /\ [sock[s] EXCEPT !.state = "gone"] \in Socket
      BY DEF IInv, TypeOK, Socket
    <3>2. QED
      BY <2>1, <3>1 DEF IInv, TypeOK, Socket
  <2>3. IsConnected' => reg' # 0 /\ sock'[client].reg = reg'
    BY <2>1, <2>2 DEF IInv, TypeOK, Sound, OpenClientHoldsTheId, IsConnected
  <2>4. QED
    BY <2>1, <2>2, <2>3, RequestsUntouched DEF IInv, TypeOK
<1>7. CASE Register \/ EndedForRoom
  <2>1. ~IsConnected /\ UNCHANGED <<client, sock, drop, req, sent, held, runs, reconnects>>
    BY <1>7 DEF Register, EndedForRoom, IInv, Sound, OpenClientHoldsTheId
  <2>2. reg' \in Regs \cup {0} /\ lastReg' \in Regs
    BY <1>7, BoundsAreNatural DEF Register, EndedForRoom, IInv, TypeOK, Regs
  <2>3. ~IsConnected'
    BY <2>1 DEF IsConnected
  <2>4. QED
    BY <2>1, <2>2, <2>3, RequestsUntouched DEF IInv, TypeOK
<1>8. CASE Replace \/ Stop
  <2>1. reg' \in Regs \cup {0} /\ lastReg' \in Regs
    BY <1>8, BoundsAreNatural DEF Replace, Stop, IInv, TypeOK, Regs
  <2>2. QED
    BY <1>8, <2>1, DisconnectPreserves DEF Replace, Stop
<1>9. CASE UNCHANGED vars
  BY <1>9, RequestsUntouched DEF vars, IInv, TypeOK, Sound, OpenClientHoldsTheId, IsConnected
<1>10. ASSUME NEW s \in Sockets, Ping(s) PROVE IInv'
  BY <1>6, <1>10, GivenUpPreserves
<1>11. QED
  BY <1>1, <1>2, <1>3, <1>4, <1>5, <1>6, <1>7, <1>8, <1>9, <1>10, AskPreserves, DialPreserves,
     AnswerPreserves, CloseEventPreserves DEF Next

---------------------------------------------------------------------------
(* How often a request runs *)

InFlight(q) == q.phase \in {"pending", "waiting", "inflating"}

OutcomeComesLast == \A r \in Requests : req[r].outcome = "none" <=> req[r].phase # "done"

\* Only a GET goes out again, and it waits for a bridge once.
OnlyGetsRepeat ==
  \A r \in Requests : /\ req[r].attempt = 2 => KindOf[r] = "get"
                      /\ req[r].phase = "waiting" => KindOf[r] = "get" /\ req[r].attempt = 1

IdleIsUntried ==
  \A r \in Requests : req[r].phase = "idle" => runs[r] = 0 /\ req[r].attempt = 1

\* An attempt the bridge has not run is one it can still run.
RunsFitAttempts ==
  /\ \A r \in Requests : runs[r] <= req[r].attempt
  /\ \A m \in sent : runs[m.r] < req[m.r].attempt
  /\ \A m, n \in sent : m.r = n.r /\ m # n => runs[m.r] = 0
  /\ \A m \in sent \cup held : m.attempt <= req[m.r].attempt

AnswersWereRun ==
  /\ \A m \in held : runs[m.r] > 0
  /\ \A r \in Requests : req[r].phase = "inflating" => runs[r] > 0

Delivery ==
  /\ OutcomeComesLast
  /\ OnlyGetsRepeat
  /\ IdleIsUntried
  /\ RunsFitAttempts
  /\ AnswersWereRun

\* The bridge ran the attempt that the request waits for.
Answerable(r) ==
  req[r].phase = "inflating" \/ \E m \in held : m.r = r /\ m.attempt = req[r].attempt

\* What an event may make of a request that was asked: nothing, a new place, a second
\* attempt of a GET, or its outcome.
Moves(r) ==
  \/ req'[r] = req[r]
  \/ /\ InFlight(req[r])
     /\ InFlight(req'[r]) \/ req'[r].phase = "done"
     /\ req'[r].outcome = "none" <=> req'[r].phase # "done"
     /\ \/ req'[r].attempt = req[r].attempt
        \/ KindOf[r] = "get" /\ req[r].attempt = 1 /\ req'[r].attempt = 2
     /\ req'[r].phase = "waiting" => KindOf[r] = "get" /\ req'[r].attempt = 1
     /\ req'[r].phase = "inflating" \/ req'[r].outcome = "answered" =>
          Answerable(r) /\ req'[r].attempt = req[r].attempt
     /\ req'[r].reg = req[r].reg
     /\ KindOf[r] = "command" /\ Pending(r) /\ req'[r].outcome = "lost" => ~IsConnected'

\* An event's messages are those second attempts.
SendsRepeats ==
  \A m \in sent' \ sent : /\ m.attempt = req'[m.r].attempt
                          /\ req[m.r].attempt # req'[m.r].attempt

Event ==
  /\ \A r \in Requests : Moves(r)
  /\ SendsRepeats
  /\ held' \subseteq held
  /\ UNCHANGED runs

\* The callers' view of one request's step.
SeenSettles(r) ==
  \/ StateSeen(r)' = StateSeen(r)
  \/ /\ StateSeen(r) = "asked"
     /\ StateSeen(r)' \in {"answered", "failed"}
     /\ StateSeen(r)' = "answered" => runs[r] > 0

(* A message of the hub names a request, one of its two attempts and a       *)
(* registration, and is one of its request's two at most.                    *)
LEMMA MessagesAreTwoAtMost ==
  ASSUME IInv
  PROVE  /\ \A m \in sent \cup held : /\ m.r \in Requests /\ m.attempt \in {1, 2}
                                      /\ m.reg = req[m.r].reg
         /\ \A m, n \in sent : m.r = n.r /\ m.attempt = n.attempt => m = n
         /\ \A r \in Requests : req[r].attempt \in {1, 2} /\ runs[r] \in Nat
<1>1. \A m \in sent \cup held : m \in Message /\ m.reg = req[m.r].reg
  BY DEF IInv, TypeOK, Sound, MessagesKeepTheirShare
<1>2. \A m, n \in Message : m.r = n.r /\ m.attempt = n.attempt /\ m.reg = n.reg => m = n
  BY DEF Message
<1>3. \A m, n \in sent : m.r = n.r /\ m.attempt = n.attempt => m = n
  BY <1>1, <1>2
<1>4. \A m \in sent \cup held : /\ m.r \in Requests /\ m.attempt \in {1, 2}
                               /\ m.reg = req[m.r].reg
  BY <1>1 DEF Message
<1>5. \A r \in Requests : req[r].attempt \in {1, 2} /\ runs[r] \in Nat
  BY DEF IInv, TypeOK, Request
<1>6. QED
  BY <1>3, <1>4, <1>5

(* What can be answered has been run. *)
LEMMA AnswerableWasRun == ASSUME Delivery, NEW r \in Requests, Answerable(r) PROVE runs[r] > 0
BY DEF Delivery, AnswersWereRun, Answerable

(* An event keeps every attempt within what the bridge may run. *)
LEMMA EventKeepsDelivery ==
  ASSUME IInv, IInv', Delivery, Event
  PROVE  Delivery'
<1> USE DEF Event
<1>0. /\ \A m \in sent' : m.r \in Requests /\ m.attempt \in {1, 2} /\ m.reg = req'[m.r].reg
      /\ \A m, n \in Message : m.r = n.r /\ m.attempt = n.attempt /\ m.reg = n.reg => m = n
      /\ sent' \subseteq Message
  BY DEF IInv, TypeOK, Message, Sound, MessagesKeepTheirShare
<1>1. /\ \A r \in Requests : /\ req[r].attempt \in {1, 2} /\ runs[r] \in Nat
                             /\ req'[r].attempt \in {1, 2}
      /\ \A m \in sent \cup held \cup sent' : m.r \in Requests /\ m.attempt \in {1, 2}
      /\ \A m, n \in sent' : m.r = n.r /\ m.attempt = n.attempt => m = n
  <2>1. \A r \in Requests : req'[r].attempt \in {1, 2}
    BY DEF IInv, TypeOK, Request
  <2>2. \A m, n \in sent' : m.r = n.r /\ m.attempt = n.attempt => m = n
    BY <1>0
  <2>3. QED
    BY <1>0, <2>1, <2>2, MessagesAreTwoAtMost
<1>2. \A r \in Requests :
        \/ req'[r].attempt = req[r].attempt
        \/ req[r].attempt = 1 /\ req'[r].attempt = 2
  BY DEF Moves
<1>3. OutcomeComesLast' /\ OnlyGetsRepeat' /\ IdleIsUntried'
  BY DEF Moves, Delivery, OutcomeComesLast, OnlyGetsRepeat, IdleIsUntried, InFlight
<1>4. AnswersWereRun'
  BY AnswerableWasRun DEF Moves, Delivery, AnswersWereRun, InFlight
<1>5. \A m \in sent' : m \in sent \/ (m.attempt = 2 /\ req[m.r].attempt = 1 /\ req'[m.r].attempt = 2)
  BY <1>1, <1>2 DEF SendsRepeats
<1>6. RunsFitAttempts'
  <2>1. \A r \in Requests : runs'[r] <= req'[r].attempt
    BY <1>1, <1>2 DEF Delivery, RunsFitAttempts
  <2>2. \A m \in sent' : runs'[m.r] < req'[m.r].attempt
    <3> SUFFICES ASSUME NEW m \in sent' PROVE runs[m.r] < req'[m.r].attempt
      OBVIOUS
    <3>1. m.r \in Requests
      BY <1>1
    <3>2. CASE m \in sent
      BY <1>1, <1>2, <3>1, <3>2 DEF Delivery, RunsFitAttempts
    <3>3. CASE m.attempt = 2 /\ req[m.r].attempt = 1 /\ req'[m.r].attempt = 2
      BY <1>1, <3>1, <3>3 DEF Delivery, RunsFitAttempts
    <3>4. QED
      BY <1>5, <3>2, <3>3
  <2>3. \A m, n \in sent' : m.r = n.r /\ m # n => runs'[m.r] = 0
    <3> SUFFICES ASSUME NEW m \in sent', NEW n \in sent', m.r = n.r, m # n
                 PROVE  runs[m.r] = 0
      OBVIOUS
    <3>1. m.r \in Requests
      BY <1>1
    <3>2. m \in sent \/ n \in sent
      BY <1>1, <1>5
    <3>3. CASE m \in sent /\ n \in sent
      BY <3>3 DEF Delivery, RunsFitAttempts
    <3>4. CASE m \notin sent \/ n \notin sent
      BY <1>1, <1>5, <3>1, <3>2, <3>4 DEF Delivery, RunsFitAttempts
    <3>5. QED
      BY <3>3, <3>4
  <2>4. \A m \in sent' \cup held' : m.attempt <= req'[m.r].attempt
    BY <1>1, <1>2, <1>5 DEF Delivery, RunsFitAttempts
  <2>5. QED
    BY <2>1, <2>2, <2>3, <2>4 DEF RunsFitAttempts
<1>7. QED
  BY <1>3, <1>4, <1>6 DEF Delivery

(* What settling and sending leave of a request's record. *)
LEMMA DoneKeepsTheRest ==
  ASSUME NEW q \in Request, NEW outcome
  PROVE  /\ Done(q, outcome).phase = "done" /\ Done(q, outcome).outcome = outcome
         /\ Done(q, outcome).attempt = q.attempt /\ Done(q, outcome).reg = q.reg
BY DEF Done, Request

(* A request that is sent keeps its outcome. *)
LEMMA SentKeepsTheRest ==
  ASSUME NEW q \in Request, NEW s, NEW attempt
  PROVE  /\ SentOn(q, s, attempt).phase = "pending" /\ SentOn(q, s, attempt).ws = s
         /\ SentOn(q, s, attempt).attempt = attempt /\ SentOn(q, s, attempt).outcome = q.outcome
         /\ SentOn(q, s, attempt).reg = q.reg
BY DEF SentOn, Request

(* A request whose link dropped fails, waits as a first GET or goes out as a *)
(* second one.                                                               *)
LEMMA AfterLossMoves ==
  ASSUME IInv, Delivery, NEW r \in Requests, Pending(r),
         NEW openNow, NEW dropNow, req'[r] = AfterLoss(r, openNow, dropNow),
         KindOf[r] = "command" => ~IsConnected'
  PROVE  /\ Moves(r)
         /\ req'[r].phase = "pending" =>
              req[r].attempt = 1 /\ req'[r].attempt = 2 /\ req'[r].ws = openNow
<1> DEFINE w == [req[r] EXCEPT !.phase = "waiting", !.ws = None]
<1>1. /\ req[r] \in Request /\ InFlight(req[r]) /\ req[r].outcome = "none"
      /\ req[r].phase = "pending" /\ req[r].attempt \in {1, 2}
  BY DEF IInv, TypeOK, Pending, InFlight, Delivery, OutcomeComesLast, Request
<1>2. /\ w.phase = "waiting" /\ w.outcome = "none" /\ w.attempt = req[r].attempt
      /\ w.reg = req[r].reg
  BY <1>1 DEF Request
<1>3. \/ req'[r] = Done(req[r], "lost")
      \/ req'[r] = Done(req[r], "session_closed")
      \/ req'[r] = w /\ KindOf[r] = "get" /\ req[r].attempt = 1
      \/ req'[r] = SentOn(req[r], openNow, 2) /\ KindOf[r] = "get" /\ req[r].attempt = 1
  BY DEF AfterLoss, Repeats
<1> HIDE DEF w
<1>4. CASE req'[r] = Done(req[r], "lost")
  <2>1. /\ req'[r].phase = "done" /\ req'[r].outcome = "lost" /\ req'[r].attempt = req[r].attempt
        /\ req'[r].reg = req[r].reg
    BY <1>1, <1>4, DoneKeepsTheRest
  <2>2. QED
    BY <1>1, <2>1 DEF Moves
<1>5. CASE req'[r] = Done(req[r], "session_closed")
  <2>1. /\ req'[r].phase = "done" /\ req'[r].outcome = "session_closed"
        /\ req'[r].attempt = req[r].attempt /\ req'[r].reg = req[r].reg
    BY <1>1, <1>5, DoneKeepsTheRest
  <2>2. QED
    BY <1>1, <2>1 DEF Moves
<1>6. CASE req'[r] = w /\ KindOf[r] = "get" /\ req[r].attempt = 1
  BY <1>1, <1>2, <1>6 DEF Moves, InFlight
<1>7. CASE req'[r] = SentOn(req[r], openNow, 2) /\ KindOf[r] = "get" /\ req[r].attempt = 1
  <2>1. /\ req'[r].phase = "pending" /\ req'[r].outcome = "none" /\ req'[r].attempt = 2
        /\ req'[r].ws = openNow /\ req'[r].reg = req[r].reg
    BY <1>1, <1>7, SentKeepsTheRest
  <2>2. QED
    BY <1>1, <1>7, <2>1 DEF Moves, InFlight
<1>8. QED
  BY <1>3, <1>4, <1>5, <1>6, <1>7

(* A timer or a callback that settles one request is an event.               *)
LEMMA SettlingIsAnEvent ==
  ASSUME IInv, Delivery, NEW r \in Requests, NEW outcome \in Outcomes, InFlight(req[r]),
         req' = [req EXCEPT ![r] = Done(@, outcome)],
         outcome = "answered" => Answerable(r),
         outcome = "lost" => ~Pending(r),
         UNCHANGED <<sent, held, runs>>
  PROVE  Event
<1>1. req[r] \in Request /\ \A x \in Requests \ {r} : req'[x] = req[x]
  BY DEF IInv, TypeOK
<1>2. req'[r] = Done(req[r], outcome)
  BY DEF IInv, TypeOK
<1>3. /\ req'[r].phase = "done" /\ req'[r].outcome = outcome /\ req'[r].attempt = req[r].attempt
      /\ outcome # "none" /\ req'[r].reg = req[r].reg
  BY <1>1, <1>2, DoneKeepsTheRest DEF Outcomes
<1>4. Moves(r)
  BY <1>3 DEF Moves
<1>5. QED
  BY <1>1, <1>4 DEF Event, Moves, SendsRepeats

(* A dial sends what waited once more. *)
LEMMA DialIsAnEvent ==
  ASSUME IInv, Delivery, NEW s \in Sockets, Dial(s)
  PROVE  Event
<1>1. \A r \in Requests :
        \/ r \in Waiting /\ req'[r] = SentOn(req[r], s, 2)
        \/ r \in Waiting /\ req'[r] = Done(req[r], "session_closed") /\ ~SameRegistration(req[r])
        \/ r \notin Waiting /\ req'[r] = req[r]
  BY DEF Dial
<1>2. \A r \in Waiting : /\ r \in Requests /\ req[r] \in Request /\ InFlight(req[r]) /\ ~Pending(r)
                         /\ KindOf[r] = "get" /\ req[r].attempt = 1 /\ req[r].outcome = "none"
  BY DEF Waiting, IInv, TypeOK, InFlight, Pending, Delivery, OnlyGetsRepeat, OutcomeComesLast
<1>3. \A r \in Requests : Moves(r)
  <2> TAKE r \in Requests
  <2>1. CASE r \in Waiting /\ req'[r] = SentOn(req[r], s, 2)
    <3>1. /\ req'[r].phase = "pending" /\ req'[r].outcome = "none" /\ req'[r].attempt = 2
          /\ req'[r].reg = req[r].reg
      BY <1>2, <2>1, SentKeepsTheRest
    <3>2. QED
      BY <1>2, <2>1, <3>1 DEF Moves, InFlight
  <2>2. CASE r \in Waiting /\ req'[r] = Done(req[r], "session_closed")
    <3>1. /\ req'[r].phase = "done" /\ req'[r].outcome = "session_closed"
          /\ req'[r].attempt = req[r].attempt /\ req'[r].reg = req[r].reg
      BY <1>2, <2>2, DoneKeepsTheRest
    <3>2. QED
      BY <1>2, <2>2, <3>1 DEF Moves
  <2>3. QED
    BY <1>1, <2>1, <2>2 DEF Moves
<1>4. SendsRepeats
  <2> SUFFICES ASSUME NEW m \in sent', m \notin sent
               PROVE  m.attempt = req'[m.r].attempt /\ req[m.r].attempt # req'[m.r].attempt
    BY DEF SendsRepeats
  <2>1. PICK r \in Waiting : SameRegistration(req[r]) /\ m = [r |-> r, attempt |-> 2, reg |-> reg]
    BY DEF Dial
  <2>2. m.r = r /\ m.attempt = 2
    BY <2>1
  <2>3. req'[r] = SentOn(req[r], s, 2)
    BY <1>1, <1>2, <2>1
  <2>4. req'[r].attempt = 2
    BY <1>2, <2>3, SentKeepsTheRest
  <2>5. QED
    BY <1>2, <2>2, <2>4
<1>5. QED
  BY <1>3, <1>4 DEF Event, Dial

(* An answer settles its request, or claims it for gunzip. *)
LEMMA AnswerIsAnEvent ==
  ASSUME IInv, Delivery, NEW m \in held, NEW frame \in Frames, Answer(m, frame)
  PROVE  Event
<1> DEFINE answered == [Answered(req[m.r], frame) EXCEPT !.by = m.reg]
<1>1. /\ m.r \in Requests /\ req[m.r] \in Request
      /\ \A r \in Requests : req[r].outcome = "none" <=> req[r].phase # "done"
  BY MessagesAreTwoAtMost DEF IInv, TypeOK, Delivery, OutcomeComesLast
<1>2. /\ answered.reg = req[m.r].reg /\ answered.attempt = req[m.r].attempt
      /\ \/ answered.phase = "inflating" /\ answered.outcome = req[m.r].outcome
         \/ answered.phase = "done" /\ answered.outcome \in {"answered", "bad_response"}
  BY <1>1 DEF Answered, Frames, Done, Request
<1>3. \/ req' = req
      \/ /\ Pending(m.r) /\ req[m.r].attempt = m.attempt
         /\ req' = [req EXCEPT ![m.r] = answered]
  BY DEF Answer
<1> HIDE DEF answered
<1>4. \A r \in Requests \ {m.r} : req'[r] = req[r]
  BY <1>3 DEF IInv, TypeOK
<1>5. Moves(m.r)
  <2>1. \/ req'[m.r] = req[m.r]
        \/ Pending(m.r) /\ Answerable(m.r) /\ req'[m.r] = answered
    BY <1>1, <1>3 DEF IInv, TypeOK, Answerable
  <2>2. Pending(m.r) => InFlight(req[m.r]) /\ req[m.r].outcome = "none"
    BY <1>1 DEF Pending, InFlight
  <2>3. QED
    BY <1>1, <1>2, <2>1, <2>2 DEF Moves, InFlight
<1>6. QED
  BY <1>4, <1>5 DEF Event, Moves, SendsRepeats, Answer

(* A 'close' event fails, repeats or moves what was bound to its socket. *)
LEMMA CloseIsAnEvent ==
  ASSUME IInv, Delivery, NEW s \in Sockets, CloseEvent(s)
  PROVE  Event
<1> DEFINE successor == IF client = s THEN None ELSE client
           openNow   == IF client # s /\ IsConnected THEN client ELSE None
           dropNow   == IF client = s THEN "recent" ELSE drop
           moved     == MovesTo(s, successor)
<1>1. /\ req' = [r \in Requests |-> CASE r \in moved -> [req[r] EXCEPT !.ws = successor]
                                      [] r \in PendingOn(s) \ moved -> AfterLoss(r, openNow, dropNow)
                                      [] OTHER -> req[r]]
      /\ sent' = sent \cup (IF openNow # None THEN NewMessages(openNow) ELSE {})
      /\ client' = successor
      /\ UNCHANGED <<held, runs>>
  BY DEF CloseEvent
<1>2. \A r \in PendingOn(s) \ moved : KindOf[r] = "command" => successor = None
  BY DEF MovesTo, FailsWithSocket
<1>3. moved \subseteq PendingOn(s)
  BY DEF MovesTo
<1>4. \A r \in PendingOn(s) \ moved : KindOf[r] = "command" => ~IsConnected'
  BY <1>1, <1>2 DEF IsConnected
<1> HIDE DEF successor, openNow, dropNow, moved
<1>5. \A r \in Requests :
        /\ Moves(r)
        /\ \/ req'[r] = req[r]
           \/ req'[r].attempt = req[r].attempt /\ Pending(r)
           \/ req'[r].phase = "pending" => req[r].attempt # req'[r].attempt
  <2> TAKE r \in Requests
  <2>1. req[r] \in Request /\ (req[r].outcome = "none" <=> req[r].phase # "done")
    BY DEF IInv, TypeOK, Delivery, OutcomeComesLast
  <2>2. CASE r \in moved
    <3>1. req'[r] = [req[r] EXCEPT !.ws = successor] /\ Pending(r)
      BY <1>1, <1>3, <2>2 DEF PendingOn
    <3>2. /\ req'[r].phase = "pending" /\ req'[r].outcome = req[r].outcome
          /\ req'[r].attempt = req[r].attempt /\ req'[r].reg = req[r].reg
      BY <2>1, <3>1 DEF Request, Pending
    <3>3. QED
      BY <2>1, <3>1, <3>2 DEF Moves, InFlight, Pending
  <2>3. CASE r \in PendingOn(s) \ moved
    <3>1. req'[r] = AfterLoss(r, openNow, dropNow) /\ Pending(r)
      BY <1>1, <2>3 DEF PendingOn
    <3>2. QED
      BY <1>4, <2>3, <3>1, AfterLossMoves
  <2>4. CASE r \notin PendingOn(s)
    <3>1. req'[r] = req[r]
      BY <1>1, <1>3, <2>4
    <3>2. QED
      BY <3>1 DEF Moves
  <2>5. QED
    BY <2>2, <2>3, <2>4
<1>6. SendsRepeats
  <2> SUFFICES ASSUME NEW m \in sent', m \notin sent
               PROVE  m.attempt = req'[m.r].attempt /\ req[m.r].attempt # req'[m.r].attempt
    BY DEF SendsRepeats
  <2>1. m \in NewMessages(openNow)
    BY <1>1
  <2>2. PICK r \in Requests : /\ req'[r].phase = "pending" /\ req'[r].ws = openNow
                              /\ req[r].phase # "pending" \/ req[r].attempt # req'[r].attempt
                              /\ m = MessageOf(r, req'[r], openNow)
    BY <2>1 DEF NewMessages
  <2>3. m.r = r /\ m.attempt = req'[r].attempt
    BY <2>2 DEF MessageOf
  <2>4. QED
    BY <1>5, <2>2, <2>3 DEF Pending
<1>7. QED
  BY <1>1, <1>5, <1>6 DEF Event

(* A round of keep-alive fails what is bound to a client it gives up.        *)
LEMMA PingIsAnEvent ==
  ASSUME IInv, Delivery, NEW s \in Sockets, Ping(s)
  PROVE  Event
<1>1. CASE req' = req
  BY <1>1 DEF Ping, Event, Moves, SendsRepeats
<1>2. CASE sock[s].missed + 1 > GraceRounds
  <2>1. /\ req' = [r \in Requests |->
                     IF r \in PendingOn(s) THEN AfterLoss(r, None, "recent") ELSE req[r]]
        /\ ~IsConnected' /\ UNCHANGED <<sent, held, runs>>
    BY <1>2 DEF Ping, IsConnected
  <2>2. \A r \in Requests : Moves(r)
    <3> TAKE r \in Requests
    <3>1. CASE r \in PendingOn(s)
      <4>1. req'[r] = AfterLoss(r, None, "recent") /\ Pending(r)
        BY <2>1, <3>1 DEF PendingOn
      <4>2. QED
        BY <2>1, <4>1, AfterLossMoves
    <3>2. CASE r \notin PendingOn(s)
      <4>1. req'[r] = req[r]
        BY <2>1, <3>2
      <4>2. QED
        BY <4>1 DEF Moves
    <3>3. QED
      BY <3>1, <3>2
  <2>3. QED
    BY <2>1, <2>2 DEF Event, SendsRepeats
<1>3. QED
  BY <1>1, <1>2 DEF Ping

(* disconnect() fails what is on the client's socket and what waits.         *)
LEMMA DisconnectIsAnEvent ==
  ASSUME IInv, Delivery, Disconnect, UNCHANGED <<sent, held, runs>>
  PROVE  Event
<1>1. \A r \in Requests :
        \/ req'[r] = req[r]
        \/ Pending(r) /\ req'[r] = Done(req[r], "session_closed")
        \/ r \in Waiting /\ req'[r] = Done(req[r], "lost")
  BY DEF Disconnect, Pending, Waiting
<1>2. \A r \in Requests : Moves(r)
  <2> TAKE r \in Requests
  <2>1. req[r] \in Request
    BY DEF IInv, TypeOK
  <2>2. CASE Pending(r) /\ req'[r] = Done(req[r], "session_closed")
    <3>1. /\ req'[r].phase = "done" /\ req'[r].outcome = "session_closed"
          /\ req'[r].attempt = req[r].attempt /\ req'[r].reg = req[r].reg
      BY <2>1, <2>2, DoneKeepsTheRest
    <3>2. QED
      BY <2>2, <3>1 DEF Moves, InFlight, Pending
  <2>3. CASE r \in Waiting /\ req'[r] = Done(req[r], "lost")
    <3>1. /\ req'[r].phase = "done" /\ req'[r].outcome = "lost"
          /\ req'[r].attempt = req[r].attempt /\ req[r].phase = "waiting"
          /\ req'[r].reg = req[r].reg
      BY <2>1, <2>3, DoneKeepsTheRest DEF Waiting
    <3>2. QED
      BY <3>1 DEF Moves, InFlight, Pending
  <2>4. QED
    BY <1>1, <2>2, <2>3 DEF Moves
<1>3. QED
  BY <1>2 DEF Event, SendsRepeats

(* Every step that neither asks nor runs anything is an event.               *)
LEMMA StepsAreEvents ==
  ASSUME IInv, Delivery, [Next]_vars
  PROVE  Event \/ (\E r \in Requests : Ask(r)) \/ (\E m \in sent : Run(m))
<1> SUFFICES ASSUME ~(\E r \in Requests : Ask(r)), ~(\E m \in sent : Run(m)) PROVE Event
  OBVIOUS
<1>1. CASE req' = req /\ sent' = sent /\ held' = held /\ runs' = runs
  BY <1>1 DEF Event, Moves, SendsRepeats
<1>2. ASSUME NEW r \in Requests, RequestTimesOut(r) PROVE Event
  BY <1>2, SettlingIsAnEvent DEF RequestTimesOut, Pending, InFlight, Outcomes
<1>3. ASSUME NEW r \in Requests, WaitTimesOut(r) PROVE Event
  BY <1>3, SettlingIsAnEvent DEF WaitTimesOut, Waiting, Pending, InFlight, Outcomes
<1>4. ASSUME NEW r \in Requests, Inflated(r) PROVE Event
  <2>1. InFlight(req[r]) /\ Answerable(r)
    BY <1>4 DEF Inflated, InFlight, Answerable
  <2>2. PICK outcome \in {"answered", "bad_response"} : req' = [req EXCEPT ![r] = Done(@, outcome)]
    BY <1>4 DEF Inflated
  <2>3. outcome \in Outcomes
    BY DEF Outcomes
  <2>4. QED
    BY <1>4, <2>1, <2>2, <2>3, SettlingIsAnEvent DEF Inflated
<1>5. CASE \/ DropAges \/ Register \/ EndedForRoom
           \/ \E s \in Sockets : Alive(s) \/ LinkBreaks(s)
           \/ UNCHANGED vars
  BY <1>1, <1>5 DEF DropAges, Register, EndedForRoom, Alive, LinkBreaks, vars
<1>6. CASE Replace \/ Stop
  BY <1>6, DisconnectIsAnEvent DEF Replace, Stop
<1>7. QED
  BY <1>2, <1>3, <1>4, <1>5, <1>6, DialIsAnEvent, AnswerIsAnEvent, CloseIsAnEvent, PingIsAnEvent
     DEF Next

(* A viewer's request starts with no attempt behind it.                      *)
LEMMA AskingIsSeen ==
  ASSUME IInv, Delivery, NEW r \in Requests, Ask(r)
  PROVE  /\ \A x \in Requests \ {r} : req'[x] = req[x]
         /\ req[r].phase = "idle" /\ runs[r] = 0 /\ req'[r].attempt = 1
         /\ \/ req'[r].phase \in {"pending", "waiting"} /\ req'[r].outcome = "none"
            \/ req'[r].phase = "done" /\ req'[r].outcome = "lost"
         /\ req'[r].phase = "waiting" => KindOf[r] = "get"
         /\ \A m \in sent' \ sent : m.r = r /\ m.attempt = 1 /\ m.reg = reg
         /\ req'[r].reg = reg
         /\ IsConnected => req'[r].phase = "pending"
<1> DEFINE q == [req[r] EXCEPT !.reg = reg]
           w == [q EXCEPT !.phase = "waiting"]
<1>1. /\ req[r] \in Request /\ reg \in Regs /\ req[r].phase = "idle"
      /\ req[r].outcome = "none" /\ req[r].attempt = 1 /\ runs[r] = 0
  BY DEF Ask, IInv, TypeOK, Delivery, OutcomeComesLast, IdleIsUntried
<1>2. q \in Request /\ q.outcome = "none" /\ q.attempt = 1 /\ q.reg = reg
  BY <1>1 DEF Request
<1>3. /\ w.phase = "waiting" /\ w.outcome = "none" /\ w.attempt = 1 /\ w.reg = reg
  BY <1>2 DEF Request
<1>4. /\ \A x \in Requests \ {r} : req'[x] = req[x]
      /\ \/ IsConnected /\ req'[r] = SentOn(q, client, 1)
         \/ ~IsConnected /\ req'[r] = w /\ KindOf[r] = "get"
         \/ ~IsConnected /\ req'[r] = Done(q, "lost")
      /\ sent' = sent \cup (IF IsConnected THEN NewMessages(client) ELSE {})
  BY DEF Ask, IInv, TypeOK
<1> HIDE DEF q, w
<1>5. /\ SentOn(q, client, 1).phase = "pending" /\ SentOn(q, client, 1).outcome = "none"
      /\ SentOn(q, client, 1).attempt = 1 /\ SentOn(q, client, 1).reg = reg
  BY <1>2 DEF SentOn, Request
<1>6. /\ Done(q, "lost").phase = "done" /\ Done(q, "lost").outcome = "lost"
      /\ Done(q, "lost").attempt = 1 /\ Done(q, "lost").reg = reg
  BY <1>2 DEF Done, Request
<1>7. \A m \in sent' \ sent : m.r = r /\ m.attempt = 1 /\ m.reg = reg
  <2> SUFFICES ASSUME NEW m \in NewMessages(client), IsConnected
               PROVE  m.r = r /\ m.attempt = 1 /\ m.reg = reg
    BY <1>4
  <2>1. PICK x \in Requests : /\ req[x].phase # "pending" \/ req[x].attempt # req'[x].attempt
                              /\ req'[x].phase = "pending"
                              /\ m = MessageOf(x, req'[x], client)
    BY DEF NewMessages
  <2>2. x = r
    BY <1>4, <2>1
  <2>3. m.r = x /\ m.attempt = req'[x].attempt /\ m.reg = sock[client].reg
    BY <2>1 DEF MessageOf
  <2>4. sock[client].reg = reg
    BY DEF IInv, Sound, OpenClientHoldsTheId
  <2>5. QED
    BY <1>3, <1>4, <1>5, <1>6, <2>2, <2>3, <2>4
<1>8. QED
  BY <1>1, <1>3, <1>4, <1>5, <1>6, <1>7

(* A request that is asked has no message yet, so its first one may run.     *)
LEMMA AskKeepsDelivery ==
  ASSUME IInv, IInv', Delivery, NEW r \in Requests, Ask(r)
  PROVE  Delivery'
<1>1. UNCHANGED <<held, runs>> /\ reg \in Regs
  BY DEF Ask, IInv, TypeOK
<1>2. \A m \in sent \cup held : /\ m.r \in Requests /\ m.r # r /\ req'[m.r] = req[m.r]
                                /\ m.attempt \in {1, 2}
  BY AskingIsSeen, MessagesAreTwoAtMost DEF IInv, Sound, MessagesKeepTheirShare
<1>3. \A m, n \in sent' : m.r = r /\ n.r = r => m = n
  <2>1. \A m, n \in Message : m.r = n.r /\ m.attempt = n.attempt /\ m.reg = n.reg => m = n
    BY DEF Message
  <2>2. sent' \subseteq Message
    BY DEF IInv, TypeOK
  <2>3. \A m \in sent' : m.r = r => m.attempt = 1 /\ m.reg = reg
    BY <1>2, AskingIsSeen
  <2>4. QED
    BY <2>1, <2>2, <2>3
<1>4. \A m \in sent' : m \in sent \/ (m.r = r /\ m.attempt = 1)
  BY AskingIsSeen
<1>5. OutcomeComesLast' /\ OnlyGetsRepeat' /\ IdleIsUntried'
  BY <1>1, AskingIsSeen DEF Delivery, OutcomeComesLast, OnlyGetsRepeat, IdleIsUntried
<1>6. AnswersWereRun'
  BY <1>1, AskingIsSeen DEF Delivery, AnswersWereRun
<1>7. RunsFitAttempts'
  <2>1. \A x \in Requests : runs'[x] <= req'[x].attempt
    BY <1>1, AskingIsSeen DEF Delivery, RunsFitAttempts
  <2>2. \A m \in sent' : runs'[m.r] < req'[m.r].attempt
    BY <1>1, <1>2, <1>4, AskingIsSeen DEF Delivery, RunsFitAttempts
  <2>3. \A m, n \in sent' : m.r = n.r /\ m # n => runs'[m.r] = 0
    BY <1>1, <1>2, <1>3, <1>4 DEF Delivery, RunsFitAttempts
  <2>4. \A m \in sent' \cup held' : m.attempt <= req'[m.r].attempt
    BY <1>1, <1>2, <1>4, AskingIsSeen DEF Delivery, RunsFitAttempts
  <2>5. QED
    BY <2>1, <2>2, <2>3, <2>4 DEF RunsFitAttempts
<1>8. QED
  BY <1>5, <1>6, <1>7 DEF Delivery

(* The bridge runs an attempt it has not run yet. *)
LEMMA RunKeepsDelivery ==
  ASSUME IInv, Delivery, NEW m \in sent, Run(m)
  PROVE  Delivery'
<1>1. /\ \A n \in sent \cup held : n.r \in Requests /\ n.attempt \in {1, 2}
      /\ \A r \in Requests : req[r].attempt \in {1, 2} /\ runs[r] \in Nat
      /\ \A n, o \in sent : n.r = o.r /\ n.attempt = o.attempt => n = o
  BY MessagesAreTwoAtMost
<1>2. /\ runs'[m.r] = runs[m.r] + 1
      /\ \A r \in Requests \ {m.r} : runs'[r] = runs[r]
      /\ sent' = sent \ {m} /\ held' = held \cup {m} /\ req' = req
  BY <1>1 DEF Run, IInv, TypeOK
<1>3. /\ runs[m.r] < req[m.r].attempt /\ req[m.r].phase # "idle"
      /\ \A n \in sent \ {m} : n.r = m.r => runs[m.r] = 0 /\ req[m.r].attempt = 2
  <2>1. \A n \in sent \ {m} : n.r = m.r => n.attempt # m.attempt
    BY <1>1
  <2>2. \A n \in sent : n.attempt <= req[n.r].attempt
    BY DEF Delivery, RunsFitAttempts
  <2>3. \A n \in sent \ {m} : n.r = m.r => req[m.r].attempt = 2
    BY <1>1, <2>1, <2>2
  <2>4. QED
    BY <2>3 DEF Delivery, RunsFitAttempts, IInv, Sound, MessagesKeepTheirShare
<1>4. OutcomeComesLast' /\ OnlyGetsRepeat' /\ IdleIsUntried'
  BY <1>2, <1>3 DEF Delivery, OutcomeComesLast, OnlyGetsRepeat, IdleIsUntried
<1>5. AnswersWereRun'
  <2>1. \A r \in Requests : runs[r] > 0 => runs'[r] > 0
    BY <1>1, <1>2
  <2>2. runs'[m.r] > 0
    BY <1>1, <1>2
  <2>3. QED
    BY <1>1, <1>2, <2>1, <2>2 DEF Delivery, AnswersWereRun
<1>6. RunsFitAttempts'
  <2>1. \A r \in Requests : runs'[r] <= req'[r].attempt
    BY <1>1, <1>2, <1>3 DEF Delivery, RunsFitAttempts
  <2>2. \A n \in sent' : runs'[n.r] < req'[n.r].attempt
    BY <1>1, <1>2, <1>3 DEF Delivery, RunsFitAttempts
  <2>3. \A n, o \in sent' : n.r = o.r /\ n # o => runs'[n.r] = 0
    <3> SUFFICES ASSUME NEW n \in sent', NEW o \in sent', n.r = o.r, n # o PROVE runs'[n.r] = 0
      OBVIOUS
    <3>1. CASE n.r = m.r
      <4>1. n.attempt # o.attempt /\ n.attempt # m.attempt /\ o.attempt # m.attempt
        BY <1>1, <1>2, <3>1
      <4>2. QED
        BY <1>1, <1>2, <4>1
    <3>2. CASE n.r # m.r
      BY <1>1, <1>2, <3>2 DEF Delivery, RunsFitAttempts
    <3>3. QED
      BY <3>1, <3>2
  <2>4. \A n \in sent' \cup held' : n.attempt <= req'[n.r].attempt
    BY <1>2 DEF Delivery, RunsFitAttempts
  <2>5. QED
    BY <2>1, <2>2, <2>3, <2>4 DEF RunsFitAttempts
<1>7. QED
  BY <1>4, <1>5, <1>6 DEF Delivery

(* A hub that has just started has run nothing. *)
LEMMA InitDelivers == Init => Delivery
<1> SUFFICES ASSUME Init PROVE Delivery
  OBVIOUS
<1> DEFINE idle == [phase |-> "idle", outcome |-> "none", reg |-> 0, attempt |-> 1,
                    ws |-> None, by |-> 0]
<1>1. idle.phase = "idle" /\ idle.outcome = "none" /\ idle.attempt = 1
  OBVIOUS
<1>2. req = [r \in Requests |-> idle] /\ runs = [r \in Requests |-> 0] /\ sent = {} /\ held = {}
  BY DEF Init
<1> HIDE DEF idle
<1>3. QED
  BY <1>1, <1>2 DEF Delivery, OutcomeComesLast, OnlyGetsRepeat, IdleIsUntried, RunsFitAttempts,
     AnswersWereRun

(* Every step keeps both invariants. *)
LEMMA StepKeepsBoth == IInv /\ Delivery /\ [Next]_vars => (IInv /\ Delivery)'
<1> SUFFICES ASSUME IInv, Delivery, [Next]_vars PROVE IInv' /\ Delivery'
  OBVIOUS
<1>1. IInv'
  BY StepPreserves
<1>2. QED
  BY <1>1, StepsAreEvents, EventKeepsDelivery, AskKeepsDelivery, RunKeepsDelivery

---------------------------------------------------------------------------
(* The promise to request()'s callers *)

(* What the callers see of a request is its phase and outcome.               *)
LEMMA SeenStates ==
  ASSUME IInv, Delivery, NEW r \in Requests
  PROVE  /\ StateSeen(r) = "idle" <=> req[r].phase = "idle"
         /\ StateSeen(r) = "asked" <=> InFlight(req[r])
         /\ StateSeen(r) = "answered" <=> req[r].phase = "done" /\ req[r].outcome = "answered"
         /\ StateSeen(r) = "failed" <=> req[r].phase = "done" /\ req[r].outcome # "answered"
<1>1. req[r].phase \in {"idle", "pending", "inflating", "waiting", "done"}
  BY DEF IInv, TypeOK, Request
<1>2. req[r].outcome = "none" <=> req[r].phase # "done"
  BY DEF Delivery, OutcomeComesLast
<1>3. QED
  BY <1>1, <1>2 DEF StateSeen, InFlight

(* The same after a step. *)
LEMMA SeenStatesNext ==
  ASSUME IInv', Delivery', NEW r \in Requests
  PROVE  /\ StateSeen(r)' = "idle" <=> req'[r].phase = "idle"
         /\ StateSeen(r)' = "asked" <=> InFlight(req'[r])
         /\ StateSeen(r)' = "answered" <=> req'[r].phase = "done" /\ req'[r].outcome = "answered"
         /\ StateSeen(r)' = "failed" <=> req'[r].phase = "done" /\ req'[r].outcome # "answered"
<1>1. req'[r].phase \in {"idle", "pending", "inflating", "waiting", "done"}
  BY DEF IInv, TypeOK, Request
<1>2. req'[r].outcome = "none" <=> req'[r].phase # "done"
  BY DEF Delivery, OutcomeComesLast
<1>3. QED
  BY <1>1, <1>2 DEF StateSeen, InFlight

Seen == [r \in Requests |-> StateSeen(r)]

(* An event settles some of the requests that are asked, or shows nothing.   *)
LEMMA EventIsPromised ==
  ASSUME IInv, IInv', Delivery, Delivery', Event
  PROVE  [Promise!Next]_Promise!vars
<1> DEFINE settled == {r \in Requests : StateSeen(r) = "asked" /\ StateSeen(r)' # "asked"}
           verdict == [r \in settled |-> StateSeen(r)']
<1>1. \A r \in Requests : SeenSettles(r)
  <2> TAKE r \in Requests
  <2>1. CASE req'[r] = req[r]
    BY <2>1 DEF SeenSettles, StateSeen
  <2>2. CASE req'[r] # req[r]
    <3>1. /\ InFlight(req[r])
          /\ InFlight(req'[r]) \/ req'[r].phase = "done"
          /\ req'[r].outcome = "answered" => runs[r] > 0
      BY <2>2, AnswerableWasRun DEF Event, Moves
    <3>2. QED
      BY <3>1, SeenStates, SeenStatesNext DEF SeenSettles
  <2>3. QED
    BY <2>1, <2>2
<1>2. \A r \in settled : r \in Requests /\ StateSeen(r)' \in {"answered", "failed"}
  BY <1>1 DEF SeenSettles
<1>3. verdict \in [settled -> {"answered", "failed"}]
  BY <1>2
<1>4. \A r \in settled : verdict[r] = "answered" => runs[r] > 0
  BY <1>1 DEF SeenSettles
<1>5. \A r \in Requests : StateSeen(r)' = IF r \in settled THEN verdict[r] ELSE StateSeen(r)
  BY <1>1 DEF SeenSettles
<1>6. settled \in SUBSET {r \in Requests : Seen[r] = "asked"}
  BY DEF Seen
<1> HIDE DEF settled, verdict
<1>7. Seen' = [r \in Requests |-> IF r \in settled THEN verdict[r] ELSE Seen[r]]
  BY <1>5 DEF Seen
<1>8. Promise!Settle
  <2>1. \A r \in settled : verdict[r] = "answered" => runs[r] > 0
    BY <1>4
  <2>2. \E dec \in [settled -> {"answered", "failed"}] :
          /\ \A r \in settled : dec[r] = "answered" => runs[r] > 0
          /\ Seen' = [r \in Requests |-> IF r \in settled THEN dec[r] ELSE Seen[r]]
    BY <1>3, <1>7, <2>1
  <2>3. UNCHANGED runs
    BY DEF Event
  <2>4. QED
    BY <1>6, <2>2, <2>3 DEF Promise!Settle, Seen
<1>9. QED
  BY <1>8 DEF Promise!Next

(* A viewer's request shows as asked, or as refused at once.                 *)
LEMMA AskIsPromised ==
  ASSUME IInv, IInv', Delivery, Delivery', NEW r \in Requests, Ask(r)
  PROVE  [Promise!Next]_Promise!vars
<1>1. StateSeen(r) = "idle" /\ StateSeen(r)' \in {"asked", "failed"}
  BY AskingIsSeen, SeenStates, SeenStatesNext DEF InFlight
<1>2. \A x \in Requests \ {r} : StateSeen(x)' = StateSeen(x)
  BY AskingIsSeen DEF StateSeen
<1>3. Seen[r] = "idle" /\ Seen' = [Seen EXCEPT ![r] = StateSeen(r)']
  BY <1>1, <1>2 DEF Seen
<1>4. UNCHANGED runs
  BY DEF Ask
<1>5. Promise!Ask(r)
  BY <1>1, <1>3, <1>4 DEF Promise!Ask, Seen
<1>6. QED
  BY <1>5 DEF Promise!Next

(* The bridge runs what was asked, and a second time only a GET.             *)
LEMMA RunIsPromised ==
  ASSUME IInv, Delivery, NEW m \in sent, Run(m)
  PROVE  [Promise!Next]_Promise!vars
<1>1. /\ m.r \in Requests /\ req[m.r].attempt \in {1, 2} /\ runs[m.r] \in Nat
      /\ runs[m.r] < req[m.r].attempt /\ req[m.r].phase # "idle"
      /\ req[m.r].attempt = 2 => KindOf[m.r] = "get"
  BY MessagesAreTwoAtMost DEF Delivery, RunsFitAttempts, OnlyGetsRepeat, IInv, Sound,
     MessagesKeepTheirShare
<1>2. runs[m.r] = 0 \/ (m.r \in {r \in Requests : KindOf[r] = "get"} /\ runs[m.r] = 1)
  BY <1>1
<1>3. Seen[m.r] # "idle"
  BY <1>1, SeenStates DEF Seen
<1>4. Seen' = Seen /\ runs' = [runs EXCEPT ![m.r] = @ + 1]
  BY DEF Run, Seen, StateSeen
<1>5. Promise!Run(m.r)
  BY <1>2, <1>3, <1>4 DEF Promise!Run, Seen
<1>6. QED
  BY <1>1, <1>5 DEF Promise!Next

(* Each step of the hub is one of the promise, or hidden from the callers.   *)
LEMMA StepIsPromised ==
  IInv /\ Delivery /\ IInv' /\ Delivery' /\ [Next]_vars => [Promise!Next]_Promise!vars
BY StepsAreEvents, EventIsPromised, AskIsPromised, RunIsPromised

(* A hub that has just started has promised nothing. *)
LEMMA InitIsPromised == Init => Promise!Init
<1> SUFFICES ASSUME Init PROVE Promise!Init
  OBVIOUS
<1>1. \A r \in Requests : req[r].phase = "idle"
  BY DEF Init
<1>2. \A r \in Requests : StateSeen(r) = "idle"
  BY <1>1, InitEstablishes, InitDelivers, SeenStates
<1>3. QED
  BY <1>2 DEF Init, Promise!Init

\* A command whose socket is lost, in one step.
NoCommandIsLost ==
  \A r \in Requests :
       /\ KindOf[r] = "command"
       /\ Pending(r)
       /\ req'[r].outcome = "lost"
       => ~IsConnected'

(* A pending command fails with its socket only when no other took over.     *)
LEMMA CommandsAreSpared == IInv /\ Delivery /\ [Next]_vars => NoCommandIsLost
<1> SUFFICES ASSUME IInv, Delivery, [Next]_vars,
                    NEW r \in Requests, Pending(r), KindOf[r] = "command",
                    req'[r].outcome = "lost"
             PROVE  ~IsConnected'
  BY DEF NoCommandIsLost
<1>1. req[r].outcome = "none" /\ req[r].phase = "pending"
  BY DEF Delivery, OutcomeComesLast, Pending
<1>2. CASE Event
  BY <1>1, <1>2 DEF Event, Moves
<1>3. ASSUME NEW x \in Requests, Ask(x) PROVE FALSE
  BY <1>1, <1>3, AskingIsSeen
<1>4. ASSUME NEW m \in sent, Run(m) PROVE FALSE
  BY <1>1, <1>4 DEF Run
<1>5. QED
  BY <1>2, <1>3, <1>4, StepsAreEvents

---------------------------------------------------------------------------
(* The look-up of a prompt *)

\* While the bridge is asked, the request is the prompt's registration's, and what it
\* found is what that bridge knew when it ran the attempt.
LookIsForThePrompt ==
  /\ req[Look].reg = req[Prompt].reg
  /\ InFlight(req[Look])
  /\ \A a \in Attempts : found[a] => runs[Prompt] > 0
  /\ ranFirst => /\ runs[Prompt] > 0
                 /\ \A m \in held : m.r = Look => found[m.attempt]
                 /\ req[Look].phase = "inflating" => found[req[Look].attempt]

LookUpIsSound ==
  /\ LookupTypeOK
  /\ lookup # "off" => req[Prompt].phase = "done"
  /\ lookup \in {"off", "due", "waiting"} => ~ranFirst
  /\ lookup # "asking" => \A a \in Attempts : ~found[a]
  /\ lookup = "asking" => LookIsForThePrompt
  /\ lookup = "landed" => runs[Prompt] > 0
  /\ lookup = "missing" /\ ranFirst => req[Look].phase = "done" /\ req[Look].outcome # "answered"

(* The prompt and its look-up are two requests. *)
LEMMA PromptAndLook == Prompt \in Requests /\ Look \in Requests /\ Prompt # Look
BY PromptIsLookedUp

(* What any step of the hub leaves of a request: a settled one stays as it   *)
(* is, one that was asked keeps its registration, and what was run was run.  *)
LEMMA StepsKeepRequests ==
  ASSUME IInv, Delivery, Next, NEW r \in Requests
  PROVE  /\ req[r].phase = "done" => req'[r] = req[r]
         /\ req[r].phase # "idle" => req'[r].reg = req[r].reg
         /\ InFlight(req[r]) => Moves(r)
         /\ runs[r] > 0 => runs'[r] > 0
         /\ \A m \in held' : m \in held \/ m \in sent \ sent'
<1>1. CASE Event
  BY <1>1 DEF Event, Moves, InFlight
<1>2. ASSUME NEW x \in Requests, Ask(x)
      PROVE  /\ r # x => req'[r] = req[r]
             /\ req[x].phase = "idle" /\ UNCHANGED <<held, runs>>
  <2>1. req[x].phase = "idle" /\ UNCHANGED <<held, runs>>
    BY <1>2 DEF Ask
  <2>2. r # x => req'[r] = req[r]
    BY <1>2, AskingIsSeen
  <2>3. QED
    BY <2>1, <2>2
<1>3. ASSUME NEW m \in sent, Run(m)
      PROVE  /\ req' = req /\ held' = held \cup {m} /\ m \notin sent'
             /\ runs[r] > 0 => runs'[r] > 0
  <2>1. m.r \in Requests /\ runs[r] \in Nat
    BY MessagesAreTwoAtMost
  <2>2. QED
    BY <1>3, <2>1 DEF Run, IInv, TypeOK
<1>4. CASE \E x \in Requests : Ask(x)
  BY <1>2, <1>4 DEF Moves, InFlight
<1>5. CASE \E m \in sent : Run(m)
  BY <1>3, <1>5 DEF Moves
<1>6. QED
  BY <1>1, <1>4, <1>5, StepsAreEvents

(* promptLanded decides whether to ask; asking starts a look-up for the      *)
(* prompt's own registration.                                                *)
LEMMA LookUpKeepsSound ==
  ASSUME IInv, IInv', Delivery, LookUpIsSound, LookUp
  PROVE  LookUpIsSound'
<1>1. /\ lookup = "due" /\ req[Prompt].phase = "done" /\ ~ranFirst
      /\ found \in [Attempts -> BOOLEAN] /\ ranFirst \in BOOLEAN
      /\ \A a \in Attempts : ~found[a]
      /\ found' = found
  BY DEF LookUp, LookUpIsSound, LookupTypeOK
<1>2. CASE IsConnected /\ SameBridge(req[Prompt])
  <2>1. /\ Ask(Look) /\ lookup' = "asking" /\ ranFirst' = (runs[Prompt] > 0)
        /\ req[Prompt].reg = reg
    BY <1>2 DEF LookUp, SameBridge, SameRegistration
  <2>2. /\ req'[Look].reg = reg /\ req'[Look].phase = "pending" /\ req[Look].phase = "idle"
        /\ req'[Prompt] = req[Prompt]
    BY <1>2, <2>1, AskingIsSeen, PromptAndLook
  <2>3. UNCHANGED <<held, runs>>
    BY <2>1 DEF Ask
  <2>4. \A m \in held : m.r # Look
    BY <2>2 DEF IInv, Sound, MessagesKeepTheirShare
  <2>5. LookIsForThePrompt'
    BY <1>1, <2>1, <2>2, <2>3, <2>4 DEF LookIsForThePrompt, InFlight
  <2>6. QED
    BY <1>1, <2>1, <2>2, <2>5 DEF LookUpIsSound, LookupTypeOK
<1>3. CASE ~(IsConnected /\ SameBridge(req[Prompt]))
  <2>1. lookup' \in {"missing", "waiting"} /\ UNCHANGED <<vars, ranFirst>>
    BY <1>3 DEF LookUp
  <2>2. QED
    BY <1>1, <2>1 DEF LookUpIsSound, LookupTypeOK, vars
<1>4. QED
  BY <1>2, <1>3

(* What the hub's step makes of the look-up, case by case. *)
LEMMA FollowCases ==
  ASSUME LookUpIsSound, HubStep
  PROVE  \/ lookup = "off" /\ lookup' = "due" /\ req'[Prompt].phase = "done"
         \/ lookup = "waiting" /\ lookup' \in {"due", "missing"}
         \/ /\ lookup = "asking" /\ req'[Look].phase = "done"
            /\ lookup' = Verdict(req'[Look])
         \/ lookup' = lookup /\ (lookup = "asking" => req'[Look].phase # "done")
<1>1. lookup # "off" => ~AnswerIsLost
  BY DEF LookUpIsSound, AnswerIsLost, Pending
<1>2. AnswerIsLost => req'[Prompt].phase = "done"
  BY DEF AnswerIsLost
<1>3. lookup' = Follow
  BY DEF HubStep
<1>4. CASE AnswerIsLost
  <2>1. lookup = "off"
    BY <1>1, <1>4
  <2>2. Follow = "due"
    BY <1>4, <2>1 DEF Follow
  <2>3. QED
    BY <1>2, <1>3, <1>4, <2>1, <2>2
<1>5. CASE ~AnswerIsLost /\ lookup = "waiting"
  BY <1>3, <1>5 DEF Follow
<1>6. CASE ~AnswerIsLost /\ lookup = "asking"
  BY <1>3, <1>6 DEF Follow
<1>7. CASE ~AnswerIsLost /\ lookup \notin {"waiting", "asking"}
  BY <1>3, <1>7 DEF Follow
<1>8. QED
  BY <1>4, <1>5, <1>6, <1>7

(* What the bridge of the prompt's registration finds. *)
LEMMA FindingsAreTrue ==
  ASSUME IInv, Delivery, LookUpIsSound, HubStep, lookup = "asking", lookup' = "asking"
  PROVE  /\ found' \in [Attempts -> BOOLEAN]
         /\ \A a \in Attempts : found'[a] => found[a] \/ runs[Prompt] > 0
         /\ runs[Prompt] > 0 => \A a \in Attempts : found[a] => found'[a]
         /\ runs[Prompt] > 0 => \A m \in sent \ sent' : m.r = Look => found'[m.attempt]
<1> DEFINE looked == {m \in sent \ sent' : m.r = Look}
<1>1. PICK there \in BOOLEAN :
        /\ \A m \in looked : m.reg = req[Prompt].reg => there = (runs[Prompt] > 0)
        /\ found' = [a \in Attempts |->
                       CASE lookup' # "asking" -> FALSE
                         [] lookup' = "asking" /\ \E m \in looked : m.attempt = a -> there
                         [] OTHER -> found[a]]
  BY DEF HubStep, Finds
<1>2. \A m \in looked : m.reg = req[Prompt].reg /\ m.attempt \in Attempts
  <2>1. \A m \in sent : m.reg = req[m.r].reg /\ m.attempt \in {1, 2}
    BY MessagesAreTwoAtMost
  <2>2. req[Look].reg = req[Prompt].reg
    BY DEF LookUpIsSound, LookIsForThePrompt
  <2>3. QED
    BY <2>1, <2>2 DEF Attempts
<1>3. found \in [Attempts -> BOOLEAN]
  BY DEF LookUpIsSound, LookupTypeOK
<1>4. \A a \in Attempts : found'[a] = IF \E m \in looked : m.attempt = a THEN there ELSE found[a]
  BY <1>1
<1>5. looked # {} => there = (runs[Prompt] > 0)
  BY <1>1, <1>2
<1>6. found' \in [Attempts -> BOOLEAN]
  BY <1>1, <1>3
<1> HIDE DEF looked
<1>7. \A a \in Attempts : found'[a] => found[a] \/ runs[Prompt] > 0
  BY <1>4, <1>5
<1>8. runs[Prompt] > 0 => \A a \in Attempts : found[a] => found'[a]
  BY <1>4, <1>5
<1>9. runs[Prompt] > 0 => \A m \in looked : found'[m.attempt]
  BY <1>2, <1>4, <1>5
<1>10. QED
  BY <1>6, <1>7, <1>8, <1>9 DEF looked

(* While the bridge is asked, its finding stays true of the prompt. *)
LEMMA AskingStaysForThePrompt ==
  ASSUME IInv, IInv', Delivery, LookUpIsSound, HubStep, lookup = "asking", lookup' = "asking",
         req'[Look].phase # "done"
  PROVE  LookIsForThePrompt'
<1>1. /\ LookIsForThePrompt /\ req[Prompt].phase = "done" /\ Next /\ ranFirst' = ranFirst
      /\ InFlight(req[Look])
  BY DEF LookUpIsSound, HubStep, LookIsForThePrompt
<1>2. /\ req'[Prompt] = req[Prompt] /\ req'[Look].reg = req[Look].reg /\ Moves(Look)
      /\ runs[Prompt] > 0 => runs'[Prompt] > 0
      /\ \A m \in held' : m \in held \/ m \in sent \ sent'
  BY <1>1, StepsKeepRequests, PromptAndLook DEF InFlight
<1>3. \A m \in held : m.attempt \in Attempts
  BY MessagesAreTwoAtMost DEF Attempts
<1>4. InFlight(req'[Look])
  BY <1>1, <1>2 DEF Moves, InFlight
<1>5. req'[Look].phase = "inflating" =>
        \/ req[Look].phase = "inflating" /\ req'[Look].attempt = req[Look].attempt
        \/ \E m \in held : m.r = Look /\ m.attempt = req[Look].attempt
                           /\ req'[Look].attempt = req[Look].attempt
  BY <1>2 DEF Moves, Answerable
<1>6. \A a \in Attempts : found'[a] => runs'[Prompt] > 0
  BY <1>1, <1>2, FindingsAreTrue DEF LookIsForThePrompt
<1>7. ASSUME ranFirst'
      PROVE  /\ runs'[Prompt] > 0
             /\ \A m \in held' : m.r = Look => found'[m.attempt]
             /\ req'[Look].phase = "inflating" => found'[req'[Look].attempt]
  <2>1. /\ runs[Prompt] > 0
        /\ \A m \in held : m.r = Look => found[m.attempt]
        /\ req[Look].phase = "inflating" => found[req[Look].attempt]
    BY <1>1, <1>7 DEF LookIsForThePrompt
  <2>2. \A a \in Attempts : found[a] => found'[a]
    BY <2>1, FindingsAreTrue
  <2>3. \A m \in held' : m.r = Look => found'[m.attempt]
    BY <1>2, <1>3, <2>1, <2>2, FindingsAreTrue
  <2>4. req[Look].attempt \in Attempts
    BY MessagesAreTwoAtMost, PromptAndLook DEF Attempts
  <2>5. req'[Look].phase = "inflating" => found'[req'[Look].attempt]
    BY <1>3, <1>5, <2>1, <2>2, <2>4
  <2>6. QED
    BY <1>2, <2>1, <2>3, <2>5
<1>8. QED
  BY <1>1, <1>2, <1>4, <1>6, <1>7 DEF LookIsForThePrompt

(* The verdict of a look-up that is over is the truth about the prompt. *)
LEMMA VerdictIsTrue ==
  ASSUME IInv, Delivery, LookUpIsSound, HubStep, lookup = "asking", req'[Look].phase = "done"
  PROVE  /\ Verdict(req'[Look]) = "landed" => runs'[Prompt] > 0
         /\ Verdict(req'[Look]) = "missing" /\ ranFirst => req'[Look].outcome # "answered"
<1>1. LookIsForThePrompt /\ Next /\ InFlight(req[Look])
  BY DEF LookUpIsSound, HubStep, LookIsForThePrompt
<1>2. Moves(Look) /\ (runs[Prompt] > 0 => runs'[Prompt] > 0)
  BY <1>1, StepsKeepRequests, PromptAndLook
<1>3. req[Look].attempt \in Attempts
  BY MessagesAreTwoAtMost, PromptAndLook DEF Attempts
<1>4. req'[Look].outcome = "answered" =>
        Answerable(Look) /\ req'[Look].attempt = req[Look].attempt
  BY <1>1, <1>2 DEF Moves, InFlight
<1>5. Verdict(req'[Look]) = "landed" => runs'[Prompt] > 0
  BY <1>1, <1>2, <1>3, <1>4 DEF Verdict, LookIsForThePrompt
<1>6. ranFirst /\ req'[Look].outcome = "answered" => found[req'[Look].attempt]
  BY <1>1, <1>4 DEF LookIsForThePrompt, Answerable
<1>7. QED
  BY <1>5, <1>6 DEF Verdict

(* A step of the hub keeps what is known of the look-up true. *)
LEMMA HubStepKeepsSound ==
  ASSUME IInv, IInv', Delivery, LookUpIsSound, HubStep
  PROVE  LookUpIsSound'
<1>1. /\ Next /\ ranFirst' = ranFirst /\ ranFirst \in BOOLEAN
      /\ lookup \in {"off", "due", "waiting", "asking", "landed", "missing"}
  BY DEF HubStep, LookUpIsSound, LookupTypeOK
<1>2. /\ req[Prompt].phase = "done" => req'[Prompt] = req[Prompt]
      /\ req[Look].phase = "done" => req'[Look] = req[Look]
      /\ runs[Prompt] > 0 => runs'[Prompt] > 0
  BY <1>1, StepsKeepRequests, PromptAndLook
<1>3. lookup' # "asking" =>
        found' \in [Attempts -> BOOLEAN] /\ \A a \in Attempts : ~found'[a]
  BY DEF HubStep, Finds
<1>4. lookup # "off" => req'[Prompt].phase = "done"
  BY <1>2 DEF LookUpIsSound
<1>5. CASE lookup = "off" /\ lookup' = "due" /\ req'[Prompt].phase = "done"
  BY <1>1, <1>3, <1>5 DEF LookUpIsSound, LookupTypeOK
<1>6. CASE lookup = "waiting" /\ lookup' \in {"due", "missing"}
  BY <1>1, <1>3, <1>4, <1>6 DEF LookUpIsSound, LookupTypeOK
<1>7. CASE lookup = "asking" /\ req'[Look].phase = "done" /\ lookup' = Verdict(req'[Look])
  <2>1. lookup' \in {"landed", "missing"}
    BY <1>7 DEF Verdict
  <2>2. lookup' = "landed" => runs'[Prompt] > 0
    BY <1>7, VerdictIsTrue
  <2>3. lookup' = "missing" /\ ranFirst' => req'[Look].outcome # "answered"
    BY <1>1, <1>7, VerdictIsTrue
  <2>4. QED
    BY <1>1, <1>3, <1>4, <1>7, <2>1, <2>2, <2>3 DEF LookUpIsSound, LookupTypeOK
<1>8. CASE lookup' = lookup /\ lookup # "asking"
  BY <1>1, <1>2, <1>3, <1>4, <1>8 DEF LookUpIsSound, LookupTypeOK
<1>9. CASE lookup' = lookup /\ lookup = "asking" /\ req'[Look].phase # "done"
  <2>1. LookIsForThePrompt' /\ found' \in [Attempts -> BOOLEAN]
    BY <1>9, AskingStaysForThePrompt, FindingsAreTrue
  <2>2. QED
    BY <1>1, <1>4, <1>9, <2>1 DEF LookUpIsSound, LookupTypeOK
<1>10. QED
  BY <1>5, <1>6, <1>7, <1>8, <1>9, FollowCases

\* All three invariants of the hub with its look-up.
PromptIInv == IInv /\ Delivery /\ LookUpIsSound

(* The look-up's steps are the hub's, or none. *)
LEMMA PromptStepsAreHubSteps == [PromptNext]_promptVars => [Next]_vars
BY PromptAndLook DEF PromptNext, HubStep, LookUp, LookTimesOut, promptVars, vars, Next

(* Before anybody asks, nothing is looked up. *)
LEMMA PromptInitEstablishes == PromptInit => PromptIInv
<1> SUFFICES ASSUME PromptInit PROVE PromptIInv
  OBVIOUS
<1>1. IInv /\ Delivery
  BY InitEstablishes, InitDelivers DEF PromptInit
<1>2. LookUpIsSound
  BY DEF PromptInit, LookUpIsSound, LookupTypeOK
<1>3. QED
  BY <1>1, <1>2 DEF PromptIInv

(* Every step of the hub and its look-up keeps the three. *)
LEMMA PromptStepKeeps == PromptIInv /\ [PromptNext]_promptVars => PromptIInv'
<1> SUFFICES ASSUME IInv, Delivery, LookUpIsSound, [PromptNext]_promptVars PROVE PromptIInv'
  BY DEF PromptIInv
<1>1. IInv' /\ Delivery'
  BY PromptStepsAreHubSteps, StepKeepsBoth
<1>2. ASSUME HubStep PROVE LookUpIsSound'
  BY <1>1, <1>2, HubStepKeepsSound
<1>3. ASSUME LookUp PROVE LookUpIsSound'
  BY <1>1, <1>3, LookUpKeepsSound
<1>4. ASSUME LookTimesOut PROVE LookUpIsSound'
  BY <1>4 DEF LookTimesOut, LookUpIsSound, LookupTypeOK, vars, LookIsForThePrompt, InFlight
<1>5. ASSUME UNCHANGED promptVars PROVE LookUpIsSound'
  BY <1>5 DEF promptVars, lookupVars, vars, LookUpIsSound, LookupTypeOK, LookIsForThePrompt, InFlight
<1>6. LookUpIsSound'
  BY <1>2, <1>3, <1>4, <1>5 DEF PromptNext
<1>7. QED
  BY <1>1, <1>6 DEF PromptIInv

---------------------------------------------------------------------------
(* Theorems *)

(* The hub's tables are well typed, and a request is in the table of        *)
(* pending ones exactly while it is bound to a socket.                      *)
THEOREM HubIsTyped == Spec => []TypeOK
<1>1. IInv => TypeOK
  BY DEF IInv
<1>2. QED
  BY <1>1, InitEstablishes, StepPreserves, PTL DEF Spec

(* request() is answered by the bridge of the registration it was made for, *)
(* however the id changes hands while it is pending, inflating or waiting.  *)
THEOREM AnswersComeFromTheShare == Spec => []AnsweredByItsShare
<1>1. IInv => AnsweredByItsShare
  BY DEF IInv, Sound
<1>2. QED
  BY <1>1, InitEstablishes, StepPreserves, PTL DEF Spec

(* No request is left on a socket whose 'close' event has already run.      *)
THEOREM NoRequestIsOrphaned == Spec => []NoOrphanedRequest
<1>1. IInv => NoOrphanedRequest
  BY DEF IInv, Sound
<1>2. QED
  BY <1>1, InitEstablishes, StepPreserves, PTL DEF Spec

(* No request waits for a bridge whose socket is open. *)
THEOREM NobodyWaitsForAnOpenBridge == Spec => []WaitersMeetTheBridge
<1>1. IInv => WaitersMeetTheBridge
  BY DEF IInv, Sound
<1>2. QED
  BY <1>1, InitEstablishes, StepPreserves, PTL DEF Spec

(* Every request of the hub's tables is held by an open socket, a 'close'   *)
(* event to come or the wait for a bridge that is away.                     *)
THEOREM RequestsAreHeld == Spec => []EveryRequestIsHeld
<1>1. IInv => EveryRequestIsHeld
  BY DEF IInv, Sound, EveryRequestIsHeld
<1>2. QED
  BY <1>1, InitEstablishes, StepPreserves, PTL DEF Spec

(* The hub implements the promise to request()'s callers: a request is       *)
(* settled once, answered only after the bridge ran it, and run a second     *)
(* time only if it is a GET.                                                 *)
THEOREM HubKeepsItsPromise == Spec => KeepsPromise
<1>1. Spec => [](IInv /\ Delivery)
  BY InitEstablishes, InitDelivers, StepKeepsBoth, PTL DEF Spec
<1>2. QED
  BY <1>1, InitIsPromised, StepIsPromised, PTL DEF Spec, KeepsPromise, Promise!Spec

(* No command of a viewer fails because the bridge dialled in again. *)
THEOREM RedialsSpareCommands == Spec => CommandSurvivesRedial
<1>1. Spec => [](IInv /\ Delivery)
  BY InitEstablishes, InitDelivers, StepKeepsBoth, PTL DEF Spec
<1>2. IInv /\ Delivery /\ [Next]_vars => [NoCommandIsLost]_vars
  BY CommandsAreSpared
<1>3. QED
  BY <1>1, <1>2, PTL DEF Spec, CommandSurvivesRedial, NoCommandIsLost

(* With a prompt and its look-up among the requests the hub is the same hub. *)
LEMMA PromptsRunOnTheHub == PromptSpec => Spec
<1>1. PromptInit => Init
  BY DEF PromptInit
<1>2. QED
  BY <1>1, PromptStepsAreHubSteps, PTL DEF PromptSpec, Spec

(* The three invariants hold from the start. *)
LEMMA PromptsStaySound == PromptSpec => []PromptIInv
BY PromptInitEstablishes, PromptStepKeeps, PTL DEF PromptSpec

\* What a step may make of the report of a lost prompt.
TruthIsTold ==
  /\ lookup' = "landed" => runs'[Prompt] > 0
  /\ (lookup' = "missing" /\ ranFirst') => req'[Look].outcome # "answered"

(* A viewer is told that its lost prompt was sent only if the share's bridge *)
(* ran it, and that it was not, against the bridge's own answer, never if it *)
(* had run by then; meanwhile the hub keeps its promise to every caller and  *)
(* no re-dial costs a command.                                               *)
THEOREM ViewersAreToldTheTruth == PromptSpec => CallersAreTold
<1>1. PromptIInv => LookupTypeOK
  BY DEF PromptIInv, LookUpIsSound
<1>2. PromptIInv' => [TruthIsTold]_promptVars
  BY DEF PromptIInv, LookUpIsSound, TruthIsTold
<1>3. PromptSpec => PromptIsToldTheTruth
  BY <1>2, PromptsStaySound, PTL DEF PromptIsToldTheTruth, TruthIsTold
<1>4. PromptSpec => CallersAreServed
  BY PromptsRunOnTheHub, HubKeepsItsPromise, RedialsSpareCommands, PTL DEF CallersAreServed
<1>5. QED
  BY <1>1, <1>3, <1>4, PromptsStaySound, PTL DEF CallersAreTold

=============================================================================
