----------------------------- MODULE BridgeHub -----------------------------
(***************************************************************************)
(* The relay's bridge hub (BridgeClient, src/relay/src/ws/bridge.ts) for   *)
(* one session id: the registrations that hold the id one after another,   *)
(* the sockets their bridges dial, and the viewers' requests that wait on  *)
(* those sockets.  Every table of the hub is keyed by the session id, save *)
(* the pending requests, which it checks against it.                       *)
(*                                                                         *)
(* A handler runs to completion and the promises it settles are resumed    *)
(* before the next one, so a handler and what its rejections make of the   *)
(* waiting requests are one action.  A socket's 'close' event comes some   *)
(* time after the socket stopped being OPEN.                               *)
(***************************************************************************)
EXTENDS Naturals, FiniteSets

CONSTANTS
  Requests,       \* viewers' requests
  KindOf,         \* "get", "checked" (the caller looks a lost one up) or "command"
  None,           \* no socket
  MaxSockets,     \* bound: sockets that bridges dial
  MaxRegs,        \* bound: registrations of the id
  GraceRounds     \* wsPongGraceRounds()

Kinds   == {"get", "checked", "command"}
Sockets == 1..MaxSockets      \* in the order they are dialled
Regs    == 1..MaxRegs

ASSUME KindsAreKnown == KindOf \in [Requests -> Kinds]
ASSUME BoundsAreNatural == {MaxSockets, MaxRegs, GraceRounds} \subseteq Nat \ {0}
ASSUME NoneIsNoSocket == None \notin Nat

VARIABLES
  reg,        \* the registration that holds the id, 0 for none
  lastReg,    \* registrations made so far
  client,     \* clients.get(id)
  sock,       \* each socket: its registration and what the relay knows of it
  drop,       \* droppedAt.get(id): "none", "recent", or "old" after RECENT_DROP_MS
  req,        \* each request: where it is and what became of it
  sent,       \* messages the bridge has not run yet
  held,       \* messages the bridge has run and not answered
  runs,       \* history: how often each request was run
  reconnects  \* history: sockets whose connection was reported to onReconnect

vars == <<reg, lastReg, client, sock, drop, req, sent, held, runs, reconnects>>

\* "gone": no longer OPEN, its 'close' event still to run; "closing": the same,
\* but disconnect()'s closing handshake is under way and messages still arrive.
Socket  == [state : {"unused", "open", "gone", "closing", "closed"},
            reg : Regs \cup {0}, missed : Nat]

\* "inflating": claimed by a compressed response; "waiting": for a re-dial.
Request == [phase : {"idle", "pending", "inflating", "waiting", "done"},
            outcome : {"none", "answered", "timeout", "lost", "session_closed", "bad_response"},
            reg : Regs \cup {0},          \* the registration it was made for
            attempt : {1, 2},
            ws : Sockets \cup {None},     \* the socket its failure is bound to
            by : Regs \cup {0}]           \* history: whose bridge answered it

Message == [r : Requests, attempt : {1, 2}, reg : Regs]

TypeOK ==
  /\ reg \in Regs \cup {0}
  /\ lastReg \in Regs
  /\ client \in Sockets \cup {None}
  /\ sock \in [Sockets -> Socket]
  /\ drop \in {"none", "recent", "old"}
  /\ req \in [Requests -> Request]
  /\ \A r \in Requests : req[r].phase = "pending" <=> req[r].ws # None
  /\ sent \subseteq Message
  /\ held \subseteq Message
  /\ runs \in [Requests -> Nat]
  /\ reconnects \subseteq Sockets

\* A registration just made, or restored by a new process, which expects its
\* bridge back (expectReconnect).
Init ==
  /\ reg = 1
  /\ lastReg = 1
  /\ client = None
  /\ sock = [s \in Sockets |-> [state |-> "unused", reg |-> 0, missed |-> 0]]
  /\ drop \in {"none", "recent"}
  /\ req = [r \in Requests |-> [phase |-> "idle", outcome |-> "none", reg |-> 0, attempt |-> 1,
                                ws |-> None, by |-> 0]]
  /\ sent = {}
  /\ held = {}
  /\ runs = [r \in Requests |-> 0]
  /\ reconnects = {}

---------------------------------------------------------------------------
(* What becomes of a request *)

IsConnected == client # None /\ sock[client].state = "open"

FailsWithSocket(r) == KindOf[r] # "command"

Pending(r) == req[r].phase = "pending"
Waiting    == {r \in Requests : req[r].phase = "waiting"}

\* Mutant: a socket that was replaced already fails nothing when it closes.
PendingOnCurrent(s) == {r \in Requests : Pending(r) /\ req[r].ws = s /\ client = s}

PendingOn(s) == {r \in Requests : Pending(r) /\ req[r].ws = s}

Done(q, outcome) == [q EXCEPT !.phase = "done", !.outcome = outcome, !.ws = None]

\* requestOnce on an open socket.
SentOn(q, s, attempt) == [q EXCEPT !.phase = "pending", !.ws = s, !.attempt = attempt]

MessageOf(r, q, s) == [r |-> r, attempt |-> q.attempt, reg |-> sock[s].reg]

\* Mutant: any registration of the id will do.
AnyRegistration(q) == reg # 0

SameRegistration(q) == q.reg = reg

\* request() after a rejection that says the link dropped, with the hub as the
\* handler left it: only a first GET is repeated, on the socket that is open or
\* once one is.
Repeats(r) == KindOf[r] = "get" /\ req[r].attempt = 1

\* Mutant: waitForConnection without its look at the socket that is there.
AfterLossWaits(r, openNow, dropNow) ==
  IF Repeats(r) /\ (openNow # None \/ dropNow = "recent")
  THEN [req[r] EXCEPT !.phase = "waiting", !.ws = None]
  ELSE Done(req[r], "lost")

AfterLoss(r, openNow, dropNow) ==
  CASE ~Repeats(r) -> Done(req[r], "lost")
    [] Repeats(r) /\ openNow # None /\ SameRegistration(req[r]) -> SentOn(req[r], openNow, 2)
    [] Repeats(r) /\ openNow # None /\ ~SameRegistration(req[r]) -> Done(req[r], "session_closed")
    [] Repeats(r) /\ openNow = None /\ dropNow = "recent" ->
         [req[r] EXCEPT !.phase = "waiting", !.ws = None]
    [] OTHER -> Done(req[r], "lost")

\* The messages that requests newly pending on s have put on the wire.
NewMessages(s) ==
  {MessageOf(r, req'[r], s) :
     r \in {x \in Requests : /\ req'[x].phase = "pending" /\ req'[x].ws = s
                             /\ req[x].phase # "pending" \/ req[x].attempt # req'[x].attempt}}

---------------------------------------------------------------------------
(* Viewers ask, timers fire *)

Ask(r) ==
  /\ reg # 0
  /\ req[r].phase = "idle"
  /\ LET q == [req[r] EXCEPT !.reg = reg] IN
     req' = [req EXCEPT ![r] = CASE IsConnected -> SentOn(q, client, 1)
                                 [] ~IsConnected /\ KindOf[r] = "get" /\ drop = "recent" ->
                                      [q EXCEPT !.phase = "waiting"]
                                 [] OTHER -> Done(q, "lost")]
  /\ sent' = sent \cup (IF IsConnected THEN NewMessages(client) ELSE {})
  /\ UNCHANGED <<reg, lastReg, client, sock, drop, held, runs, reconnects>>

RequestTimesOut(r) ==
  /\ Pending(r)
  /\ req' = [req EXCEPT ![r] = Done(@, "timeout")]
  /\ UNCHANGED <<reg, lastReg, client, sock, drop, sent, held, runs, reconnects>>

\* waitForConnection's timer: the request fails as it did before the wait.
WaitTimesOut(r) ==
  /\ r \in Waiting
  /\ req' = [req EXCEPT ![r] = Done(@, "lost")]
  /\ UNCHANGED <<reg, lastReg, client, sock, drop, sent, held, runs, reconnects>>

DropAges ==
  /\ drop = "recent"
  /\ drop' = "old"
  /\ UNCHANGED <<reg, lastReg, client, sock, req, sent, held, runs, reconnects>>

---------------------------------------------------------------------------
(* The bridge: dials, runs requests, answers on its latest socket *)

LatestOf(g) == {s \in Sockets : sock[s].reg = g /\ \A t \in Sockets : sock[t].reg = g => t <= s}

\* The 'connection' handler.
Dial(s) ==
  /\ reg # 0
  /\ sock[s].state = "unused"
  /\ \A t \in 1..(s - 1) : sock[t].state # "unused"
  /\ sock' = [t \in Sockets |->
                CASE t = s -> [state |-> "open", reg |-> reg, missed |-> 0]
                  [] t = client /\ sock[t].state = "open" -> [sock[t] EXCEPT !.state = "gone"]
                  [] OTHER -> sock[t]]
  /\ client' = s
  /\ drop' = "none"
  /\ req' = [r \in Requests |->
               CASE r \in Waiting /\ SameRegistration(req[r]) -> SentOn(req[r], s, 2)
                 [] r \in Waiting /\ ~SameRegistration(req[r]) -> Done(req[r], "session_closed")
                 [] OTHER -> req[r]]
  /\ sent' = sent \cup {[r |-> r, attempt |-> 2, reg |-> reg] :
                          r \in {x \in Waiting : SameRegistration(req[x])}}
  /\ reconnects' = IF client # None \/ drop # "none" THEN reconnects \cup {s} ELSE reconnects
  /\ UNCHANGED <<reg, lastReg, held, runs>>

Run(m) ==
  /\ m \in sent
  /\ sent' = sent \ {m}
  /\ held' = held \cup {m}
  /\ runs' = [runs EXCEPT ![m.r] = @ + 1]
  /\ UNCHANGED <<reg, lastReg, client, sock, drop, req, reconnects>>

\* An answer that is claimed and inflated, one that is used as it came, and one
\* whose body can become no string.
Frames == {"compressed", "plain", "unusable"}

Answered(q, frame) ==
  CASE frame = "compressed" -> [q EXCEPT !.phase = "inflating", !.ws = None]
    [] frame = "plain" -> Done(q, "answered")
    [] OTHER -> Done(q, "bad_response")

\* onMessage, and onCompressedResponse up to its claim of the request: an
\* answer is matched by the request id of one attempt, on any socket.
Answer(m, frame) ==
  /\ m \in held
  /\ \E s \in LatestOf(m.reg) :
       /\ sock[s].state \in {"open", "closing"}
       /\ sock' = [sock EXCEPT ![s].missed = 0]
  /\ held' = held \ {m}
  /\ req' = IF Pending(m.r) /\ req[m.r].attempt = m.attempt
            THEN [req EXCEPT ![m.r] = [Answered(@, frame) EXCEPT !.by = m.reg]]
            ELSE req
  /\ UNCHANGED <<reg, lastReg, client, drop, sent, runs, reconnects>>

\* gunzip's callback.
Inflated(r) ==
  /\ req[r].phase = "inflating"
  /\ \E outcome \in {"answered", "bad_response"} : req' = [req EXCEPT ![r] = Done(@, outcome)]
  /\ UNCHANGED <<reg, lastReg, client, sock, drop, sent, held, runs, reconnects>>

\* A pong or any byte on the socket the bridge still uses.
Alive(s) ==
  /\ sock[s].state = "open"
  /\ s \in LatestOf(sock[s].reg)
  /\ sock' = [sock EXCEPT ![s].missed = 0]
  /\ UNCHANGED <<reg, lastReg, client, drop, req, sent, held, runs, reconnects>>

---------------------------------------------------------------------------
(* Sockets go *)

LinkBreaks(s) ==
  /\ sock[s].state = "open"
  /\ sock' = [sock EXCEPT ![s].state = "gone"]
  /\ UNCHANGED <<reg, lastReg, client, drop, req, sent, held, runs, reconnects>>

\* movePending: what the bridge still answers goes over to its new socket.
MovesTo(s, successor) ==
  IF successor = None THEN {} ELSE {r \in PendingOn(s) : ~FailsWithSocket(r)}

CloseEvent(s) ==
  LET current   == client = s
      successor == IF current THEN None ELSE client
      openNow   == IF ~current /\ IsConnected THEN client ELSE None
      dropNow   == IF current THEN "recent" ELSE drop
      moved     == MovesTo(s, successor)
      failed    == PendingOn(s) \ moved
  IN /\ sock[s].state \in {"gone", "closing"}
     /\ sock' = [sock EXCEPT ![s].state = "closed"]
     /\ client' = IF current THEN None ELSE client
     /\ drop' = dropNow
     /\ req' = [r \in Requests |->
                  CASE r \in moved -> [req[r] EXCEPT !.ws = successor]
                    [] r \in failed -> AfterLoss(r, openNow, dropNow)
                    [] OTHER -> req[r]]
     /\ sent' = sent \cup (IF openNow # None THEN NewMessages(openNow) ELSE {})
     /\ UNCHANGED <<reg, lastReg, held, runs, reconnects>>

\* One client's turn in pingClients.
Ping(s) ==
  /\ client = s
  /\ sock[s].state = "open"
  /\ IF sock[s].missed + 1 > GraceRounds
     THEN /\ sock' = [sock EXCEPT ![s].state = "gone"]
          /\ client' = None
          /\ drop' = "recent"
          /\ req' = [r \in Requests |->
                       IF r \in PendingOn(s) THEN AfterLoss(r, None, "recent") ELSE req[r]]
     ELSE /\ sock' = [sock EXCEPT ![s].missed = @ + 1]
          /\ UNCHANGED <<client, drop, req>>
  /\ UNCHANGED <<reg, lastReg, sent, held, runs, reconnects>>

---------------------------------------------------------------------------
(* Registrations come and go *)

\* disconnect(id): the requests on its socket and those that wait for one.
Disconnect ==
  /\ drop' = "none"
  /\ client' = None
  /\ sock' = IF IsConnected THEN [sock EXCEPT ![client].state = "closing"] ELSE sock
  /\ req' = [r \in Requests |->
               CASE client # None /\ Pending(r) -> Done(req[r], "session_closed")
                 [] r \in Waiting -> Done(req[r], "lost")
                 [] OTHER -> req[r]]

Register ==
  /\ reg = 0
  /\ lastReg < MaxRegs
  /\ lastReg' = lastReg + 1
  /\ reg' = lastReg + 1
  /\ UNCHANGED <<client, sock, drop, req, sent, held, runs, reconnects>>

\* The owner registers again over its live share, a resume included.
Replace ==
  /\ reg # 0
  /\ lastReg < MaxRegs
  /\ lastReg' = lastReg + 1
  /\ reg' = lastReg + 1
  /\ Disconnect
  /\ UNCHANGED <<sent, held, runs, reconnects>>

\* DELETE by the bridge, or the reaper's sweep.
Stop ==
  /\ reg # 0
  /\ reg' = 0
  /\ Disconnect
  /\ UNCHANGED <<lastReg, sent, held, runs, reconnects>>

\* A full relay ends a share without a bridge socket, or a registration no
\* bridge took up, and leaves the hub alone.
EndedForRoom ==
  /\ reg # 0
  /\ ~IsConnected
  /\ reg' = 0
  /\ UNCHANGED <<lastReg, client, sock, drop, req, sent, held, runs, reconnects>>

---------------------------------------------------------------------------
Next ==
  \/ \E r \in Requests : Ask(r)
  \/ \E r \in Requests : RequestTimesOut(r)
  \/ \E r \in Requests : WaitTimesOut(r)
  \/ DropAges
  \/ \E s \in Sockets : Dial(s)
  \/ \E m \in sent : Run(m)
  \/ \E m \in held, frame \in Frames : Answer(m, frame)
  \/ \E r \in Requests : Inflated(r)
  \/ \E s \in Sockets : Alive(s)
  \/ \E s \in Sockets : LinkBreaks(s)
  \/ \E s \in Sockets : CloseEvent(s)
  \/ \E s \in Sockets : Ping(s)
  \/ Register
  \/ Replace
  \/ Stop
  \/ EndedForRoom

Spec == Init /\ [][Next]_vars

\* A socket that is no longer OPEN has its 'close' event, a wait its timer and
\* gunzip its callback.  Nothing makes a bridge come back or answer, and the
\* long timer of a request is left out on purpose.
FairSpec ==
  /\ Spec
  /\ \A s \in Sockets : WF_vars(CloseEvent(s))
  /\ \A r \in Requests : WF_vars(WaitTimesOut(r)) /\ WF_vars(Inflated(r))

---------------------------------------------------------------------------
(* Safety *)

(* A viewer's request is answered by the bridge of the registration it was  *)
(* made for, also when the id changed hands while the request waited for a  *)
(* bridge to come back.                                                     *)
AnsweredByItsShare ==
  \A r \in Requests : req[r].by # 0 => req[r].by = req[r].reg

(* A pending request is always bound to the current socket or to one whose  *)
(* 'close' event is still to come: no request is left to its timer alone.   *)
NoOrphanedRequest ==
  \A r \in Requests : Pending(r) =>
    req[r].ws = client \/ sock[req[r].ws].state \in {"gone", "closing"}

(* No request waits for a bridge that is there. *)
WaitersMeetTheBridge == IsConnected => Waiting = {}

(* Every request of the hub's tables is held by something that will settle   *)
(* it before its own long timer: an open socket, a 'close' event or the      *)
(* short wait for a bridge that is away.                                     *)
EveryRequestIsHeld == TypeOK /\ NoOrphanedRequest /\ WaitersMeetTheBridge

(* A command the bridge still runs does not fail because the bridge dialled *)
(* again and the socket it was sent on closed.                              *)
CommandSurvivesRedial ==
  [][\A r \in Requests :
       /\ KindOf[r] = "command"
       /\ Pending(r)
       /\ req'[r].outcome = "lost"
       => ~IsConnected']_vars

(* Every step is one that the callers of request() may see: settled once,   *)
(* answered only after it ran, run twice only if it is a GET.               *)
StateSeen(r) ==
  CASE req[r].phase = "idle" -> "idle"
    [] req[r].outcome = "none" /\ req[r].phase # "idle" -> "asked"
    [] req[r].outcome = "answered" -> "answered"
    [] OTHER -> "failed"

Promise == INSTANCE RelayedRequest WITH
  Repeatable <- {r \in Requests : KindOf[r] = "get"},
  state      <- [r \in Requests |-> StateSeen(r)],
  runs       <- runs

KeepsPromise == Promise!Spec

(* The hub keeps the promise, and a re-dial costs no command.               *)
CallersAreServed == KeepsPromise /\ CommandSurvivesRedial

---------------------------------------------------------------------------
(* Liveness *)

(* A request whose socket is gone is settled, or sent or moved to a socket  *)
(* that is open, without its own long timer.                                *)
LostRequestsRecover ==
  \A r \in Requests :
    (Pending(r) /\ sock[req[r].ws].state \in {"gone", "closing"})
      ~> (req[r].phase = "done" \/ (Pending(r) /\ sock[req[r].ws].state = "open"))

---------------------------------------------------------------------------
(* A statement of the source's comments that the code does not keep *)

(* onReconnect listeners are told of a bridge that comes back, "never for   *)
(* its first connection".  The mark of a lost link outlives a share that a  *)
(* full relay ended to make room.                                           *)
FirstConnectionIsNoReconnect ==
  \A s \in reconnects :
    sock[s].reg # 1 => \E t \in 1..(s - 1) : sock[t].reg = sock[s].reg

=============================================================================
