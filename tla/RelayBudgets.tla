---------------------------- MODULE RelayBudgets ----------------------------
(***************************************************************************)
(* What viewers' requests may make the relay hold in memory                *)
(* (relay/src/proxy/adapter.ts, 543-601, 733-1095): the bytes of the       *)
(* bodies they send, charged before they are read and settled as they are  *)
(* parsed, and the bytes of the answers that wait for them to read, each   *)
(* under a ceiling of the process and one of the share.  Bytes are counted *)
(* in units as coarse as the limits allow.                                 *)
(***************************************************************************)
EXTENDS Integers, FiniteSets

CONSTANTS Shares, Requests, None,
          Limit,         \* proxyBodyLimitBytes()
          MaxInbound,    \* proxyMaxInboundBytes()
          ShareInbound,  \* proxyInboundShareBytes()
          Reserve,       \* proxyInboundReserveBytes()
          Small,         \* proxyInboundSmallBodyBytes()
          MaxPosts,      \* proxyMaxInflightPosts()
          PerCheck,      \* bytes a check of the stall watch wants to have seen
          Strikes,       \* proxyStallStrikes()
          MaxBuffered,   \* proxyMaxBufferedBytes()
          ShareBuffered, \* proxySessionShareBytes()
          Lengths        \* of opencode's answers

ASSUME LimitsAreNatural ==
  /\ {Limit, MaxInbound, ShareInbound, Reserve, Small, MaxPosts, PerCheck, Strikes,
      MaxBuffered, ShareBuffered} \subseteq Nat \ {0}
  /\ Lengths \subseteq Nat
  /\ Reserve <= MaxInbound /\ Small <= ShareInbound
ASSUME NoneIsNoShare == None \notin Shares
ASSUME RequestsAreFinite == IsFiniteSet(Requests)

VARIABLES
  req,         \* the requests
  inbound,     \* proxyInboundBytes
  inboundOf,   \* proxyInboundBySession
  posts,       \* proxyPostsInFlight
  buffered,    \* proxyBufferedBytes
  bufferedOf,  \* proxyBufferedBySession
  squeezed     \* shares whose refusedAt is less than a window old

budgetsVars == <<req, inbound, inboundOf, posts, buffered, bufferedOf, squeezed>>
inVars == <<inbound, inboundOf, posts>>
outVars == <<buffered, bufferedOf, squeezed>>

\* "reading": its body arrives; "parsing": all of it has, and express.json is at
\* it; "waiting": for the bridge; "sending": the answer was handed to the response.
Phases == {"idle", "reading", "parsing", "waiting", "sending"}

Request == [phase : Phases, share : Shares \cup {None},
            claim : Nat,      \* bytes charged for the body as its headers came in
            charged : Nat,    \* bytes charged now
            counted : BOOLEAN, \* in posts and inbound: not released
            read : Nat, moved : Nat, \* bytes of the body that arrived, and since the last check
            owed : Nat,
            watched : BOOLEAN, \* the stall watch of the body runs
            checks : Nat,     \* ghost: checks of that watch
            len : Nat,        \* bytes charged for the answer
            left : Nat,       \* bytes of it the viewer has not taken
            taken : BOOLEAN,  \* some since the last check
            strikes : Nat,
            cut : BOOLEAN,    \* the relay destroyed the response
            fired : SUBSET {"finish", "close", "socket"}]

Fresh == [phase |-> "idle", share |-> None, claim |-> 0, charged |-> 0, counted |-> FALSE,
          read |-> 0, moved |-> 0, owed |-> 0, watched |-> FALSE, checks |-> 0,
          len |-> 0, left |-> 0, taken |-> FALSE, strikes |-> 0, cut |-> FALSE, fired |-> {}]

BudgetsTypeOK ==
  /\ req \in [Requests -> Request]
  /\ inbound \in Int /\ inboundOf \in [Shares -> Int] /\ posts \in [Shares -> Int]
  /\ buffered \in Int /\ bufferedOf \in [Shares -> Int]
  /\ squeezed \subseteq Shares

BudgetsInit ==
  /\ req = [r \in Requests |-> Fresh]
  /\ inbound = 0 /\ inboundOf = [s \in Shares |-> 0] /\ posts = [s \in Shares |-> 0]
  /\ buffered = 0 /\ bufferedOf = [s \in Shares |-> 0]
  /\ squeezed = {}

---------------------------------------------------------------------------
(* The charge of a body *)

\* What a share that holds next to nothing may fill, and what others leave to it.
Ceiling(s, claim) ==
  IF inboundOf[s] + claim <= Small THEN MaxInbound ELSE MaxInbound - Reserve

Admits(s, claim) ==
  /\ posts[s] < MaxPosts
  /\ inbound + claim <= Ceiling(s, claim)
  /\ inboundOf[s] + claim <= ShareInbound

\* admitInboundBody: a body is claimed as declared, or at the limit if its
\* headers do not tell; a refusal changes nothing.
Admit(r, s, claim) ==
  /\ req[r].phase = "idle"
  /\ Admits(s, claim)
  /\ req' = [req EXCEPT ![r] = [Fresh EXCEPT !.phase = "reading", !.share = s, !.claim = claim,
                                             !.charged = claim, !.counted = TRUE, !.watched = TRUE]]
  /\ inbound' = inbound + claim
  /\ inboundOf' = [inboundOf EXCEPT ![s] = @ + claim]
  /\ posts' = [posts EXCEPT ![s] = @ + 1]
  /\ UNCHANGED outVars

\* A GET is not charged for.
Get(r, s) ==
  /\ req[r].phase = "idle"
  /\ req' = [req EXCEPT ![r] = [Fresh EXCEPT !.phase = "waiting", !.share = s]]
  /\ UNCHANGED <<inVars, outVars>>

\* recharge().
Recharge(r, actual) ==
  LET by == actual - req[r].charged IN
  /\ inbound' = inbound + by
  /\ inboundOf' = [inboundOf EXCEPT ![req[r].share] = @ + by]

\* settleInboundCharge is forgotten with the charge.
Settles(q) == q.counted

Destroyed(q) == q.cut \/ q.fired \cap {"close", "socket"} # {}

\* Bytes of the body arrive.
Receive(r) ==
  LET q == req[r] IN
  /\ q.phase = "reading" /\ ~Destroyed(q)
  /\ q.read < q.claim
  /\ req' = [req EXCEPT ![r] = [q EXCEPT !.read = @ + 1, !.moved = @ + 1]]
  /\ UNCHANGED <<inVars, outVars>>

\* The last of it: at a declared length, or anywhere in one that is not declared.
Complete(r) ==
  LET q == req[r] IN
  /\ q.phase = "reading" /\ ~Destroyed(q)
  /\ q.read = q.claim \/ q.claim = Limit
  /\ req' = [req EXCEPT ![r] = [Fresh EXCEPT !.phase = "parsing", !.share = q.share, !.claim = q.claim,
                                             !.charged = q.charged, !.counted = TRUE]]
  /\ UNCHANGED <<inVars, outVars>>

\* express.json is done, whether the viewer is still there or not: verify settles
\* the charge to the parsed size, a body that is over the limit or unreadable to 0.
Parsed(r, actual) ==
  LET q == req[r] IN
  /\ q.phase = "parsing"
  /\ actual <= Limit /\ (q.claim < Limit => actual \in {0, q.claim})
  /\ IF Settles(q)
     THEN /\ Recharge(r, actual)
          /\ req' = [req EXCEPT ![r] = [q EXCEPT !.phase = "waiting", !.claim = 0, !.charged = actual]]
     ELSE /\ req' = [req EXCEPT ![r] = [q EXCEPT !.phase = "waiting", !.claim = 0]]
          /\ UNCHANGED <<inbound, inboundOf>>
  /\ UNCHANGED <<posts, outVars>>

Owed(q) == IF q.moved > q.owed + PerCheck THEN 0 ELSE q.owed + PerCheck - q.moved

\* The stall watch of a body; a body that owes too much is answered 408.
BodyCheck(r) ==
  LET q == req[r] IN
  /\ q.watched
  /\ IF q.read >= q.claim
     THEN req' = [req EXCEPT ![r] = [q EXCEPT !.watched = FALSE]]
     ELSE LET due == Owed(q) IN
          req' = [req EXCEPT ![r] =
            IF due < Strikes * PerCheck
            THEN [q EXCEPT !.checks = @ + 1, !.moved = 0, !.owed = due]
            ELSE [Fresh EXCEPT !.phase = "sending", !.share = q.share, !.charged = q.charged,
                               !.counted = TRUE]]
  /\ UNCHANGED <<inVars, outVars>>

---------------------------------------------------------------------------
(* The charge of an answer *)

Holds(s, len) == buffered + len <= MaxBuffered /\ bufferedOf[s] + len <= ShareBuffered

\* sendBounded: the answer, or a 503 that remembers that the share is full.
Answer(r, len) ==
  LET q == req[r]  s == q.share IN
  /\ q.phase = "waiting"
  /\ IF Holds(s, len)
     THEN /\ req' = [req EXCEPT ![r] = [q EXCEPT !.phase = "sending", !.len = len, !.left = len]]
          /\ buffered' = buffered + len
          /\ bufferedOf' = [bufferedOf EXCEPT ![s] = @ + len]
          /\ UNCHANGED squeezed
     ELSE /\ req' = [req EXCEPT ![r] = [q EXCEPT !.phase = "sending"]]
          /\ squeezed' = IF bufferedOf[s] > 0 THEN squeezed \cup {s} ELSE squeezed
          /\ UNCHANGED <<buffered, bufferedOf>>
  /\ UNCHANGED inVars

\* The viewer reads.
Drain(r) ==
  LET q == req[r] IN
  /\ q.phase = "sending" /\ q.left > 0 /\ ~Destroyed(q)
  /\ req' = [req EXCEPT ![r] = [q EXCEPT !.left = @ - 1, !.taken = TRUE]]
  /\ UNCHANGED <<inVars, outVars>>

\* PROXY_SQUEEZE_WINDOW_MS pass.
Unsqueeze(s) ==
  /\ s \in squeezed
  /\ squeezed' = squeezed \ {s}
  /\ UNCHANGED <<req, inVars, buffered, bufferedOf>>

StrikeLimit(s) == IF s \in squeezed THEN 1 ELSE Strikes

\* release() of an answer's bytes.
GiveBack(s, len) ==
  /\ buffered' = buffered - len
  /\ bufferedOf' = [bufferedOf EXCEPT ![s] = @ - len]
  /\ squeezed' = IF bufferedOf'[s] > 0 THEN squeezed ELSE squeezed \ {s}

Paid(q) == [q EXCEPT !.len = 0, !.left = 0, !.taken = FALSE, !.strikes = 0]

\* Mutant: a response that was closed before its answer came is left to its 'close'.
FinishedOnly(q) == q.left = 0 /\ ~Destroyed(q)

IsDone(q) == q.left = 0 \/ Destroyed(q)

\* stallChecker: an answer that is out or whose viewer is gone is released, one
\* that nobody reads is cut.
AnswerCheck(r) ==
  LET q == req[r] IN
  /\ q.len > 0
  /\ IF IsDone(q)
     THEN req' = [req EXCEPT ![r] = Paid(q)] /\ GiveBack(q.share, q.len)
     ELSE /\ UNCHANGED outVars
          /\ req' = [req EXCEPT ![r] =
                [q EXCEPT !.taken = FALSE,
                          !.strikes = IF q.taken THEN 0 ELSE IF @ < Strikes THEN @ + 1 ELSE @,
                          !.cut = ~q.taken /\ q.strikes + 1 >= StrikeLimit(q.share)]]
  /\ UNCHANGED inVars

---------------------------------------------------------------------------
(* The end of a request *)

\* Mutant: each of the events gives the body's charge back.
ReleasesAgain(q) == TRUE

ReleasesOnce(q) == q.counted

\* release() of a body's charge, at the response's 'finish' or 'close' or its
\* socket's 'close'.
ReleaseBody(r) ==
  IF ReleasesOnce(req[r])
  THEN /\ Recharge(r, 0)
       /\ posts' = [posts EXCEPT ![req[r].share] = @ - 1]
  ELSE UNCHANGED inVars

ReleaseAnswer(r) ==
  IF req[r].len > 0 THEN GiveBack(req[r].share, req[r].len) ELSE UNCHANGED outVars

Ends(r, event) ==
  /\ req[r].phase # "idle" /\ event \notin req[r].fired
  /\ ReleaseBody(r)
  /\ IF event = "socket" THEN UNCHANGED outVars ELSE ReleaseAnswer(r)
  /\ LET q == req[r]
         p == IF event = "socket" THEN q ELSE Paid(q) IN
     req' = [req EXCEPT ![r] =
       [p EXCEPT !.fired = @ \cup {event}, !.charged = 0, !.counted = FALSE, !.watched = FALSE,
                 !.read = 0, !.moved = 0, !.owed = 0, !.checks = 0,
                 !.phase = IF @ = "reading" THEN "parsing" ELSE @]]

\* The answer is out.
Finish(r) ==
  /\ req[r].phase = "sending" /\ req[r].left = 0 /\ ~Destroyed(req[r])
  /\ Ends(r, "finish")

\* The viewer hangs up, or the socket fails.
HangUp(r) == Ends(r, "close") \/ Ends(r, "socket")

\* A destroyed response closes.
CutCloses(r) == req[r].cut /\ Ends(r, "close")

\* server.requestTimeout bounds the arrival of a body that the watch has left.
ArrivalTimeout(r) == req[r].phase = "reading" /\ Ends(r, "socket")

\* The response and the socket are gone, and another request takes the name.
Reuse(r) ==
  /\ req[r].phase = "sending" /\ req[r].len = 0 /\ {"close", "socket"} \subseteq req[r].fired
  /\ req' = [req EXCEPT ![r] = Fresh]
  /\ UNCHANGED <<inVars, outVars>>

---------------------------------------------------------------------------
Viewer(r) ==
  \/ \E s \in Shares : Get(r, s) \/ \E claim \in 0..Limit : Admit(r, s, claim)
  \/ Receive(r) \/ Complete(r) \/ Drain(r) \/ HangUp(r)

Relay(r) ==
  \/ \E actual \in 0..Limit : Parsed(r, actual)
  \/ \E len \in Lengths : Answer(r, len)
  \/ BodyCheck(r) \/ AnswerCheck(r) \/ Finish(r) \/ ArrivalTimeout(r) \/ CutCloses(r) \/ Reuse(r)

BudgetsNext ==
  \/ \E r \in Requests : Viewer(r) \/ Relay(r)
  \/ \E s \in Shares : Unsqueeze(s)

\* The relay's timers, its parser and the bridge's answer or timeout; viewers owe it
\* nothing.
Fairness ==
  \A r \in Requests :
    /\ WF_budgetsVars(BodyCheck(r)) /\ WF_budgetsVars(AnswerCheck(r)) /\ WF_budgetsVars(Finish(r))
    /\ WF_budgetsVars(ArrivalTimeout(r)) /\ WF_budgetsVars(CutCloses(r))
    /\ WF_budgetsVars(\E actual \in 0..Limit : Parsed(r, actual))
    /\ WF_budgetsVars(\E len \in Lengths : Answer(r, len))

BudgetsSpec == BudgetsInit /\ [][BudgetsNext]_budgetsVars /\ Fairness

---------------------------------------------------------------------------
(* Properties *)

\* Bytes are counted one by one: the sum of what the requests have of them.
Sum(bytes) == Cardinality(UNION {{<<r, i>> : i \in 1..bytes[r]} : r \in Requests})

ChargedTo(S) == [r \in Requests |-> IF req[r].share \in S THEN req[r].charged ELSE 0]
HeldFor(S)   == [r \in Requests |-> IF req[r].share \in S THEN req[r].len ELSE 0]

(* The counters are the sum of what unreleased requests were charged, for    *)
(* the process and for each share, whichever of the parser, the answer, the  *)
(* stall watches, a hang-up and the socket's end came first.                 *)
ChargesAreExact ==
  /\ inbound = Sum(ChargedTo(Shares))
  /\ buffered = Sum(HeldFor(Shares))
  /\ \A s \in Shares :
       /\ inboundOf[s] = Sum(ChargedTo({s}))
       /\ bufferedOf[s] = Sum(HeldFor({s}))
       /\ posts[s] = Cardinality({r \in Requests : req[r].share = s /\ req[r].counted})

\* A share whose whole footprint is one small body.
Quiet == {s \in Shares : inboundOf[s] <= Small}

(* Shares that send large bodies leave the reserve: a quiet share gets a     *)
(* small body in, however full the others have made the relay, until quiet   *)
(* shares have spent it ("reserve / small is how many quiet shares fit").    *)
QuietShareGetsIn ==
  \A s \in Shares : \A claim \in 0..Small :
    /\ posts[s] < MaxPosts /\ inboundOf[s] + claim <= Small
    /\ Sum(ChargedTo(Quiet)) + claim <= Reserve
    => Admits(s, claim)

(* A body pays for its charge in bytes: one that still arrives has brought   *)
(* all but Strikes windows' worth of what the checks since asked for.        *)
ArrivingBodyPays ==
  \A r \in Requests :
    LET q == req[r] IN
    q.watched => q.checks * PerCheck - q.read < Strikes * PerCheck

(* What a request is charged is exact, paid for while it arrives, and leaves *)
(* the other shares their room.                                              *)
ChargesAreSound == BudgetsTypeOK /\ ChargesAreExact /\ ArrivingBodyPays /\ QuietShareGetsIn

(* Whatever the viewer does, what its request was charged comes back.        *)
ChargesComeBack ==
  \A r \in Requests : req[r].counted \/ req[r].len > 0 ~> ~req[r].counted /\ req[r].len = 0
=============================================================================
