------------------------- MODULE LocalSharesProofs -------------------------
(* However starts, stops and crashes of one machine interleave: its records  *)
(* stay sound and its shares found, racing starts come to one secret, and    *)
(* nobody else's process is ended.  For any number of starts, stops, kills   *)
(* and processes.                                                            *)
EXTENDS LocalShares, OwnerSecret, OwnProcesses, PluginStarts, TLAPS

\* A start that has written its record, and one that may run on a kept server.
Late == {"linking", "undoing", "serving", "closing", "lingering", "gone"}
Keeping == {"ready", "asked", "answered", "linking", "undoing", "serving"}

\* What a record may name: a start that has got as far as writing one.
Written(x) == x = Old \/ start[x].at \in Late
Sound(r) ==
  /\ Written(r.token)
  /\ r.code # None => Written(r.code)
  /\ r.server # None => Written(r.server)

\* A record that a start settles: its process is gone, or has said that it failed.
Over(r) == \/ r.token = Old \/ start[r.token].at = "gone"
           \/ r.gone /\ start[r.token].at = "lingering"

\* No process that failed and lives on is in the record unmarked.
FileInv ==
  file # None =>
    /\ Sound(file)
    /\ (file.gone \/ (file.token # Old /\ start[file.token].at = "lingering")) => Over(file)

\* What a start knows is of shares that are over; its code is its own or one it was given.
StartInv(s) ==
  LET p == start[s] IN
  /\ p.at = "settling" => p.earlier # None /\ Over(p.earlier) /\ Sound(p.earlier) /\ p.earlier.code = None
  /\ p.kept # None => /\ p.at \in Keeping /\ p.kept.server # None
                      /\ Over(p.kept) /\ Sound(p.kept) /\ s \notin servers
  /\ s \in servers => p.at \notin {"idle", "settling", "ready", "closing"}
  /\ p.given # None => Written(p.given)
  /\ p.at \in {"answered", "linking", "undoing"} => p.code # None /\ p.code \in {s, p.given}
  /\ p.at \in {"serving", "closing"} => p.code # None
  /\ p.at = "undoing" => p.code = s

\* The record of a start that is up has its code, and names the server it holds.
OwnRecord(s) ==
  LET p == start[s] IN
  (file # None /\ file.token = s) =>
    /\ p.at \in {"linking", "undoing", "serving", "closing"} => file.code = p.code
    /\ p.at \in {"linking", "undoing", "serving"} =>
         IF p.kept # None THEN file.server = p.kept.server
         ELSE file.server \in {s, None} /\ (s \in servers => file.server = s)
    /\ p.at = "closing" => file.server \notin servers

RelayInv ==
  (relay # None /\ relay.token # Old /\ start[relay.token].at \in {"answered", "linking", "undoing", "serving"})
    => relay.code = start[relay.token].code

\* The registration is under a code that viewers have used, of a share nobody ended.
Used == relay # None /\ relay.code \in served \ ended

\* While commands take turns, a start at work or serving is the only one, the file is as
\* it left or found it, and a code in use is in the file and in the start's hands.
AtWork == Working \cup {"serving"}
TurnInv(s) ==
  LET p == start[s] IN
  /\ \A t \in Starts : p.at \in AtWork /\ start[t].at \in AtWork => s = t
  /\ stop.at # "idle" => p.at \notin Working
  /\ p.at = "settling" => file \in {None, p.earlier}
  /\ p.at \in {"ready", "asked", "answered"} /\ file # None =>
       IF p.kept # None THEN file = p.kept ELSE file.server \notin servers
  /\ p.at \in {"linking", "undoing", "serving"} => file # None /\ file.token = s
  /\ s \in served => p.at \in {"serving", "closing", "lingering", "gone"}
  /\ p.at = "asked" /\ Used => p.given = relay.code
  /\ p.at = "answered" /\ relay # None => relay.token = s
Turns ==
  overlapped \/
  /\ stop.at # "idle" => stop.rec # None /\ file \in {None, stop.rec}
  /\ \A s \in Starts : TurnInv(s)
  /\ Used => file # None /\ file.code = relay.code

\* A share that is linking has its record as one that is served has.
RecordInv ==
  overtaken \/ cutShort \/
  \A s \in Starts :
    (start[s].at \in {"linking", "serving"} /\ relay # None /\ relay.token = s) => Recorded(s)

SharesInv ==
  /\ TypeOK
  /\ stop.at # "idle" => stop.rec # None
  /\ served \subseteq Starts
  /\ FileInv
  /\ \A s \in Starts : StartInv(s)
  /\ \A s \in Starts : OwnRecord(s)
  /\ RelayInv
  /\ Turns
  /\ RecordInv

\* What is known of a start command.
Command == [at : Phases, earlier : Records \cup {None}, kept : Records \cup {None},
            given : Starts \cup {None}, code : Starts \cup {None}]

LEMMA Helpers ==
  ASSUME OldIsNoStart
  PROVE  /\ \A phase \in Phases : Outside(phase) \in Command
         /\ \A s \in Shares, c \in Starts \cup {None}, v \in Shares \cup {None} : Record(s, c, v) \in Records
         /\ \A f \in Records \cup {None}, t \in Shares :
              ClearOwn(f, t) \in Records \cup {None} /\ MarkOwnGone(f, t) \in Records \cup {None}
<1>1. \A phase \in Phases : Outside(phase) \in Command
  BY DEF Outside, Command
<1>2. \A s \in Shares, c \in Starts \cup {None}, v \in Shares \cup {None} : Record(s, c, v) \in Records
  BY DEF Record, Records
<1>3. \A f \in Records \cup {None}, t \in Shares :
              ClearOwn(f, t) \in Records \cup {None} /\ MarkOwnGone(f, t) \in Records \cup {None}
  BY DEF ClearOwn, MarkOwnGone, Records
<1> QED BY <1>1, <1>2, <1>3

\* Of the starts, a step moves only s.
Moves(s) == start' \in [Starts -> Command] /\ \A t \in Starts \ {s} : start'[t] = start[t]

LEMMA Now ==
  ASSUME SharesInv
  PROVE  /\ file \in Records \cup {None} /\ start \in [Starts -> Command]
         /\ relay \in [token : Shares, code : Shares] \cup {None}
         /\ stop \in [at : {"idle", "asked", "told"}, rec : Records \cup {None}]
         /\ servers \subseteq Shares /\ orphaned \subseteq Shares
         /\ kills \in 0..MaxKills /\ stops \in 0..MaxStops
BY DEF SharesInv, TypeOK, Command

\* A start's record with some fields changed.
LEMMA Fields ==
  ASSUME OldIsNoStart, NEW p \in Command
  PROVE  /\ \A a \in Phases : [p EXCEPT !.at = a] \in Command
         /\ \A a \in Phases, r \in Records \cup {None} :
              /\ [p EXCEPT !.at = a, !.earlier = r] \in Command
              /\ [p EXCEPT !.at = a, !.kept = r] \in Command
         /\ \A r \in Records \cup {None} : [p EXCEPT !.kept = r] \in Command
         /\ \A a \in Phases, c \in Starts \cup {None} :
              /\ [p EXCEPT !.at = a, !.given = c] \in Command
              /\ [p EXCEPT !.at = a, !.code = c] \in Command
BY DEF Command

LEMMA MovesByField ==
  ASSUME SharesInv, NEW s \in Starts, NEW p \in Command, start' = [start EXCEPT ![s] = p]
  PROVE  Moves(s) /\ start'[s] = p
BY Now DEF Moves

LEMMA BeginDoes ==
  ASSUME OldIsNoStart, SharesInv, NEW s \in Starts, Begin(s)
  PROVE  /\ Moves(s) /\ start[s].at = "idle"
         /\ start'[s].given \in {start[s].given, None}
         /\ \/ start'[s].at = "ready" /\ file = None /\ start'[s].kept = start[s].kept /\ servers' = servers
            \/ start'[s] = Outside("gone") /\ file # None /\ BridgeRuns(file) /\ servers' = servers
            \/ /\ file # None /\ ~BridgeRuns(file) /\ start'[s].at = "ready"
               /\ start'[s].kept = start[s].kept /\ servers' = servers \ {file.server}
            \/ /\ file # None /\ ~BridgeRuns(file) /\ start'[s].at = "ready"
               /\ start'[s].kept = file /\ file.server \in servers /\ servers' = servers
            \/ /\ file # None /\ ~BridgeRuns(file) /\ file.code = None /\ start'[s].at = "settling"
               /\ start'[s].earlier = file /\ start'[s].kept = start[s].kept /\ servers' = servers
<1>0. start[s] \in Command /\ start \in [Starts -> Command]
  BY Now
<1>1. CASE file = None
  <2>1. start' = [start EXCEPT ![s] = [start[s] EXCEPT !.at = "ready"]]
    BY <1>0, <1>1 DEF Begin
  <2>2. [start[s] EXCEPT !.at = "ready"] \in Command
    BY <1>0, Fields DEF Phases, Working
  <2>3. Moves(s) /\ start'[s] = [start[s] EXCEPT !.at = "ready"]
    BY <2>1, <2>2, MovesByField
  <2> QED BY <1>0, <1>1, <2>3 DEF Begin, Command
<1>2. CASE file # None /\ BridgeRuns(file)
  <2>1. start' = [start EXCEPT ![s] = Outside("gone")]
    BY <1>2 DEF Begin
  <2>2. Outside("gone") \in Command
    BY Helpers DEF Phases
  <2>3. Moves(s) /\ start'[s] = Outside("gone")
    BY <2>1, <2>2, MovesByField
  <2> QED BY <1>2, <2>3 DEF Begin, Outside
<1>3. CASE file # None /\ ~BridgeRuns(file) /\ ResumableCode(file) # None
  <2>1. ServerSettled(s, file, [start[s] EXCEPT !.at = "ready"])
    BY <1>3 DEF Begin
  <2>2. /\ [start[s] EXCEPT !.at = "ready"] \in Command
        /\ [[start[s] EXCEPT !.at = "ready"] EXCEPT !.kept = file] \in Command
    BY <1>0, Now, Fields DEF Phases, Working
  <2>3. CASE start' = [start EXCEPT ![s] = [start[s] EXCEPT !.at = "ready"]] /\ servers' = servers \ {file.server}
    <3>1. Moves(s) /\ start'[s] = [start[s] EXCEPT !.at = "ready"]
      BY <2>2, <2>3, MovesByField
    <3> QED BY <1>0, <1>3, <2>3, <3>1 DEF Begin, Command
  <2>4. CASE start' = [start EXCEPT ![s] = [[start[s] EXCEPT !.at = "ready"] EXCEPT !.kept = file]]
             /\ file.server \in servers /\ servers' = servers
    <3>1. Moves(s) /\ start'[s] = [[start[s] EXCEPT !.at = "ready"] EXCEPT !.kept = file]
      BY <2>2, <2>4, MovesByField
    <3> QED BY <1>0, <1>3, <2>4, <3>1 DEF Begin, Command
  <2> QED BY <2>1, <2>3, <2>4 DEF ServerSettled
<1>4. CASE file # None /\ ~BridgeRuns(file) /\ ResumableCode(file) = None
  <2>1. start' = [start EXCEPT ![s] = [start[s] EXCEPT !.at = "settling", !.earlier = file]]
    BY <1>0, <1>4 DEF Begin
  <2>2. [start[s] EXCEPT !.at = "settling", !.earlier = file] \in Command
    BY <1>0, Now, Fields DEF Phases, Working
  <2>3. Moves(s) /\ start'[s] = [start[s] EXCEPT !.at = "settling", !.earlier = file]
    BY <2>1, <2>2, MovesByField
  <2> QED BY <1>0, <1>4, <2>3 DEF Begin, Command, ResumableCode
<1> QED BY <1>1, <1>2, <1>3, <1>4

LEMMA FailDoes ==
  ASSUME OldIsNoStart, SharesInv, NEW s \in Starts, NEW f, Fail(s, f)
  PROVE  /\ Moves(s) /\ start'[s] \in {Outside("gone"), Outside("lingering")}
         /\ file' = PutBack(s, f) /\ servers' = servers \ {s}
<1>1. PICK end \in {"gone", "lingering"} : start' = [start EXCEPT ![s] = Outside(end)]
  BY DEF Fail
<1>2. Outside(end) \in Command
  BY Helpers DEF Phases
<1>3. Moves(s) /\ start'[s] = Outside(end)
  BY <1>1, <1>2, MovesByField
<1> QED BY <1>3 DEF Fail

LEMMA SettledDoes ==
  ASSUME OldIsNoStart, SharesInv, NEW s \in Starts, Settled(s)
  PROVE  /\ Moves(s) /\ start[s].at = "settling"
         /\ \/ /\ relay' = Deleted(start[s].earlier.token)
               /\ file' = ClearOwn(file, start[s].earlier.token)
               /\ start'[s].at = "ready" /\ start'[s].given = start[s].given
               /\ \/ start'[s].kept = start[s].kept /\ servers' = servers \ {start[s].earlier.server}
                  \/ /\ start'[s].kept = start[s].earlier /\ start[s].earlier.server \in servers
                     /\ servers' = servers
            \/ Fail(s, file) /\ relay' = relay
<1> DEFINE e == start[s].earlier
           p == [start[s] EXCEPT !.at = "ready", !.earlier = None]
<1>0. start[s] \in Command /\ e \in Records /\ start[s].at = "settling"
  BY Now DEF Settled, SharesInv, StartInv, Command
<1>1. CASE Fail(s, file) /\ relay' = relay
  BY <1>0, <1>1, FailDoes DEF Settled
<1>2. CASE /\ relay' = Deleted(e.token) /\ file' = ClearOwn(file, e.token) /\ ServerSettled(s, e, p)
  <2>1. p \in Command /\ [p EXCEPT !.kept = e] \in Command
    BY <1>0, Fields DEF Phases, Working
  <2>2. CASE start' = [start EXCEPT ![s] = p] /\ servers' = servers \ {e.server}
    <3>1. Moves(s) /\ start'[s] = p
      BY <2>1, <2>2, MovesByField
    <3> QED BY <1>0, <1>2, <2>2, <3>1 DEF Command
  <2>3. CASE start' = [start EXCEPT ![s] = [p EXCEPT !.kept = e]] /\ e.server \in servers /\ servers' = servers
    <3>1. Moves(s) /\ start'[s] = [p EXCEPT !.kept = e]
      BY <2>1, <2>3, MovesByField
    <3> QED BY <1>0, <1>2, <2>3, <3>1 DEF Command
  <2> QED BY <1>2, <2>2, <2>3 DEF ServerSettled
<1> QED BY <1>1, <1>2 DEF Settled

LEMMA AskDoes ==
  ASSUME OldIsNoStart, SharesInv, NEW s \in Starts, Ask(s)
  PROVE  /\ Moves(s) /\ start[s].at = "ready"
         /\ \/ /\ start'[s].at = "asked" /\ start'[s].kept = start[s].kept
               /\ start'[s].given = ResumableCode(file) /\ file' = file
               /\ servers' = servers \/ (start[s].kept = None /\ servers' = servers \cup {s})
            \/ Fail(s, file)
<1>1. CASE Fail(s, file)
  BY <1>1, FailDoes DEF Ask
<1>2. CASE start' = [start EXCEPT ![s].at = "asked", ![s].given = ResumableCode(file)] /\ ~Fail(s, file)
  <2>0. start[s] \in Command /\ start \in [Starts -> Command]
    BY Now
  <2>1. ResumableCode(file) \in Starts \cup {None}
    BY Now DEF ResumableCode, Records
  <2>2. start' = [start EXCEPT ![s] = [start[s] EXCEPT !.at = "asked", !.given = ResumableCode(file)]]
    BY <1>2, <2>0
  <2>3. [start[s] EXCEPT !.at = "asked", !.given = ResumableCode(file)] \in Command
    BY <2>0, <2>1, Fields DEF Phases, Working
  <2>4. Moves(s) /\ start'[s] = [start[s] EXCEPT !.at = "asked", !.given = ResumableCode(file)]
    BY <2>2, <2>3, MovesByField
  <2> QED BY <1>2, <2>0, <2>4 DEF Ask, Command
<1> QED BY <1>1, <1>2 DEF Ask

LEMMA RegisterDoes ==
  ASSUME OldIsNoStart, SharesInv, NEW s \in Starts, Register(s)
  PROVE  /\ Moves(s) /\ start[s].at = "asked"
         /\ \/ \E code \in {s, start[s].given} \ {None} :
                 /\ start'[s].at = "answered" /\ start'[s].kept = start[s].kept
                 /\ start'[s].given = start[s].given /\ start'[s].code = code
                 /\ relay' = [token |-> s, code |-> code]
                 /\ code = IF Continues(s) THEN relay.code ELSE s
                 /\ file' = file /\ servers' = servers
            \/ Fail(s, file) /\ relay' = relay
<1>1. CASE Fail(s, file) /\ relay' = relay
  BY <1>1, FailDoes DEF Register
<1>2. ASSUME NEW code \in {IF Continues(s) THEN relay.code ELSE s},
             relay' = [token |-> s, code |-> code],
             start' = [start EXCEPT ![s].at = "answered", ![s].code = code], UNCHANGED <<file, servers>>
      PROVE  /\ Moves(s) /\ start'[s].at = "answered" /\ start'[s].kept = start[s].kept
             /\ start'[s].given = start[s].given /\ start'[s].code = code
             /\ code \in {s, start[s].given} \ {None}
             /\ code = IF Continues(s) THEN relay.code ELSE s
  <2>0. start[s] \in Command /\ start \in [Starts -> Command]
    BY Now
  <2>1. code \in {s, start[s].given} \ {None}
    BY <1>2, Now DEF Continues, OldIsNoStart, Shares
  <2>2. code \in Starts
    BY <2>0, <2>1 DEF Command
  <2>3. start' = [start EXCEPT ![s] = [start[s] EXCEPT !.at = "answered", !.code = code]]
    BY <1>2, <2>0
  <2>4. [start[s] EXCEPT !.at = "answered", !.code = code] \in Command
    BY <2>0, <2>2, Fields DEF Phases, Working
  <2>5. Moves(s) /\ start'[s] = [start[s] EXCEPT !.at = "answered", !.code = code]
    BY <2>3, <2>4, MovesByField
  <2> QED BY <1>2, <2>0, <2>1, <2>5 DEF Command
<1> QED BY <1>1, <1>2 DEF Register

LEMMA AnsweredDoes ==
  ASSUME OldIsNoStart, SharesInv, NEW s \in Starts, Answered(s)
  PROVE  /\ Moves(s) /\ start[s].at = "answered"
         /\ \/ /\ start'[s].at = "linking" /\ start'[s].kept = start[s].kept
               /\ start'[s].given = start[s].given /\ start'[s].code = start[s].code
               /\ file' = Record(s, start[s].code,
                            IF s \in servers THEN s
                            ELSE IF start[s].kept # None THEN start[s].kept.server ELSE None)
               /\ file' \in Records /\ servers' = servers
               /\ overtaken' = (overtaken \/ Overtakes(s))
            \/ Fail(s, file) /\ overtaken' = overtaken
<1>1. CASE Fail(s, file) /\ overtaken' = overtaken
  BY <1>1, FailDoes DEF Answered
<1>2. CASE ~(Fail(s, file) /\ overtaken' = overtaken)
  <2>0. start[s] \in Command /\ start \in [Starts -> Command]
    BY Now
  <2>1. start' = [start EXCEPT ![s] = [start[s] EXCEPT !.at = "linking"]]
    BY <1>2, <2>0 DEF Answered
  <2>2. [start[s] EXCEPT !.at = "linking"] \in Command
    BY <2>0, Fields DEF Phases, Working
  <2>3. Moves(s) /\ start'[s] = [start[s] EXCEPT !.at = "linking"]
    BY <2>1, <2>2, MovesByField
  <2>4. start[s].kept # None => start[s].kept.server \in Shares \cup {None}
    BY <2>0 DEF Command, Records
  <2>5. s \in Shares /\ start[s].code \in Starts \cup {None}
    BY <2>0 DEF Command, Shares
  <2>6. Record(s, start[s].code, IF s \in servers THEN s
                            ELSE IF start[s].kept # None THEN start[s].kept.server ELSE None) \in Records
    BY <2>4, <2>5, Helpers
  <2>7. /\ start'[s].at = "linking" /\ start'[s].kept = start[s].kept
        /\ start'[s].given = start[s].given /\ start'[s].code = start[s].code
    BY <2>0, <2>3 DEF Command
  <2>8. /\ file' = Record(s, start[s].code, IF s \in servers THEN s
                            ELSE IF start[s].kept # None THEN start[s].kept.server ELSE None)
        /\ servers' = servers /\ overtaken' = (overtaken \/ Overtakes(s))
    BY <1>2 DEF Answered
  <2>9. start[s].at = "answered"
    BY DEF Answered
  <2> QED BY <2>3, <2>6, <2>7, <2>8, <2>9
<1> QED BY <1>1, <1>2 DEF Answered

LEMMA LinkedDoes ==
  ASSUME OldIsNoStart, SharesInv, NEW s \in Starts, Linked(s)
  PROVE  /\ Moves(s) /\ start[s].at = "linking"
         /\ start'[s].at = "serving" /\ start'[s].kept = start[s].kept
         /\ start'[s].given = None /\ start'[s].code = start[s].code
<1>0. start[s] \in Command /\ start \in [Starts -> Command]
  BY Now
<1>1. start' = [start EXCEPT ![s] = [start[s] EXCEPT !.at = "serving", !.given = None]]
  BY <1>0 DEF Linked
<1>2. [start[s] EXCEPT !.at = "serving", !.given = None] \in Command
  BY <1>0, Fields DEF Phases, Working
<1>3. Moves(s) /\ start'[s] = [start[s] EXCEPT !.at = "serving", !.given = None]
  BY <1>1, <1>2, MovesByField
<1> QED BY <1>0, <1>3 DEF Linked, Command

LEMMA LinkFailsDoes ==
  ASSUME OldIsNoStart, SharesInv, NEW s \in Starts, LinkFails(s)
  PROVE  /\ Moves(s) /\ start[s].at = "linking"
         /\ \/ Resumed(s) /\ Fail(s, MarkOwnGone(file, s))
            \/ /\ ~Resumed(s) /\ start'[s].at = "undoing" /\ start'[s].kept = start[s].kept
               /\ start'[s].given = start[s].given /\ start'[s].code = start[s].code
               /\ file' = file /\ servers' = servers
<1>0. start[s] \in Command /\ start \in [Starts -> Command]
  BY Now
<1>1. CASE Resumed(s)
  BY <1>1, FailDoes DEF LinkFails
<1>2. CASE ~Resumed(s)
  <2>1. start' = [start EXCEPT ![s] = [start[s] EXCEPT !.at = "undoing"]]
    BY <1>0, <1>2 DEF LinkFails
  <2>2. [start[s] EXCEPT !.at = "undoing"] \in Command
    BY <1>0, Fields DEF Phases, Working
  <2>3. Moves(s) /\ start'[s] = [start[s] EXCEPT !.at = "undoing"]
    BY <2>1, <2>2, MovesByField
  <2> QED BY <1>0, <1>2, <2>3 DEF LinkFails, Command
<1> QED BY <1>1, <1>2

LEMMA CloseDoes ==
  ASSUME OldIsNoStart, SharesInv, NEW s \in Starts, Close(s)
  PROVE  /\ Moves(s) /\ start[s].at = "serving"
         /\ start'[s].at = "closing" /\ start'[s].kept = None
         /\ start'[s].given = start[s].given /\ start'[s].code = start[s].code
         /\ servers' = servers \ Held(s)
<1>0. start[s] \in Command /\ start \in [Starts -> Command]
  BY Now
<1>1. start' = [start EXCEPT ![s] = [start[s] EXCEPT !.at = "closing", !.kept = None]]
  BY <1>0 DEF Close, Closing
<1>2. [start[s] EXCEPT !.at = "closing", !.kept = None] \in Command
  BY <1>0, Fields DEF Phases, Working
<1>3. Moves(s) /\ start'[s] = [start[s] EXCEPT !.at = "closing", !.kept = None]
  BY <1>1, <1>2, MovesByField
<1> QED BY <1>0, <1>3 DEF Close, Closing, Command

LEMMA EndsDo ==
  ASSUME OldIsNoStart, SharesInv, NEW s \in Starts, start' = [start EXCEPT ![s] = Outside("gone")]
  PROVE  Moves(s) /\ start'[s] = Outside("gone")
BY Helpers, MovesByField DEF Phases

LEMMA StopEndsDoes ==
  ASSUME OldIsNoStart, SharesInv, StopEnds
  PROVE  /\ stop.at = "told" /\ stop.rec \in Records
         /\ \/ /\ start' = start /\ ~Alive(stop.rec.token) /\ servers' = servers \ {stop.rec.server}
            \/ /\ stop.rec.token \in Starts /\ Moves(stop.rec.token) /\ Alive(stop.rec.token)
               /\ \/ /\ start[stop.rec.token].at \in {"serving", "closing"}
                     /\ start'[stop.rec.token].at = "closing" /\ start'[stop.rec.token].kept = None
                     /\ start'[stop.rec.token].given = start[stop.rec.token].given
                     /\ start'[stop.rec.token].code = start[stop.rec.token].code
                     /\ servers' = servers \ ({stop.rec.server} \cup
                          IF start[stop.rec.token].at = "serving" THEN Held(stop.rec.token) ELSE {})
                  \/ /\ start[stop.rec.token].at \notin {"serving", "closing"}
                     /\ start'[stop.rec.token] = Outside("gone")
                     /\ servers' = servers \ {stop.rec.server}
<1> DEFINE s == stop.rec.token
<1>0. start \in [Starts -> Command] /\ stop.at = "told" /\ stop.rec \in Records
  BY Now DEF StopEnds, SharesInv
<1>1. CASE ~Alive(s)
  BY <1>0, <1>1 DEF StopEnds
<1>2. CASE Alive(s)
  <2>1. s \in Starts /\ start[s] \in Command
    BY <1>0, <1>2 DEF Alive, Records, Shares
  <2>2. /\ start' = [start EXCEPT ![s] = Terminated(s)]
        /\ servers' = servers \ ({stop.rec.server} \cup IF start[s].at = "serving" THEN Held(s) ELSE {})
    BY <1>2 DEF StopEnds
  <2>3. CASE start[s].at \in {"serving", "closing"}
    <3>1. Terminated(s) = [start[s] EXCEPT !.at = "closing", !.kept = None]
      BY <2>3 DEF Terminated
    <3>2. [start[s] EXCEPT !.at = "closing", !.kept = None] \in Command
      BY <2>1, Fields DEF Phases, Working
    <3>3. Moves(s) /\ start'[s] = [start[s] EXCEPT !.at = "closing", !.kept = None]
      BY <2>1, <2>2, <3>1, <3>2, MovesByField
    <3> QED BY <1>0, <1>2, <2>1, <2>2, <2>3, <3>3 DEF Command
  <2>4. CASE start[s].at \notin {"serving", "closing"}
    <3>1. Terminated(s) = Outside("gone")
      BY <2>4 DEF Terminated
    <3>2. Moves(s) /\ start'[s] = Outside("gone")
      BY <2>1, <2>2, <3>1, EndsDo
    <3>3. servers' = servers \ {stop.rec.server}
      BY <2>2, <2>4
    <3> QED BY <1>0, <1>2, <2>1, <2>4, <3>2, <3>3
  <2> QED BY <2>3, <2>4
<1> QED BY <1>1, <1>2

\* Starts go their way: what has been at its record stays past it, what ended stays ended.
Advance ==
  \A t \in Starts :
    /\ start[t].at \in Late => start'[t].at \in Late
    /\ start[t].at = "gone" => start'[t].at = "gone"
    /\ start[t].at = "lingering" => start'[t].at \in {"lingering", "gone"}

LEMMA RecordsLast ==
  ASSUME OldIsNoStart, Advance, NEW r \in Records
  PROVE  (Sound(r) => Sound(r)') /\ (Over(r) => Over(r)')
<1>1. /\ r.token \in Starts \cup {Old} /\ r.code \in Starts \cup {None}
      /\ r.server \in Starts \cup {Old, None} /\ r.gone \in BOOLEAN
  BY DEF Records, Shares
<1>2. \A x \in Starts \cup {Old} : Written(x) => Written(x)'
  BY DEF Written, Advance
<1>3. Sound(r) => Sound(r)'
  BY <1>1, <1>2 DEF Sound
<1>4. Over(r) => Over(r)'
  BY <1>1 DEF Over, Advance
<1> QED BY <1>3, <1>4

LEMMA Typed ==
  ASSUME TypeOK, file' \in Records \cup {None}, start' \in [Starts -> Command],
         relay' \in [token : Shares, code : Shares] \cup {None},
         stop' \in [at : {"idle", "asked", "told"}, rec : Records \cup {None}],
         servers' \subseteq Shares, orphaned' \subseteq Shares,
         kills' \in 0..MaxKills, stops' \in 0..MaxStops
  PROVE  TypeOK'
BY DEF TypeOK, Command

\* The starts other than s stay sound while s moves.
LEMMA OthersStay ==
  ASSUME OldIsNoStart, SharesInv, NEW s \in Starts, Moves(s), Advance,
         servers' \subseteq servers \cup {s}, NEW t \in Starts \ {s}
  PROVE  StartInv(t)'
<1>1. start'[t] = start[t] /\ start[t] \in Command /\ StartInv(t)
  BY Now DEF Moves, SharesInv
<1>2. t \in servers' => t \in servers
  OBVIOUS
<1> DEFINE p == start[t]
<1>3. p.earlier \in Records \cup {None} /\ p.kept \in Records \cup {None} /\ p.given \in Starts \cup {None}
  BY <1>1 DEF Command
<1>4. p.at = "settling" => p.earlier # None /\ Over(p.earlier)' /\ Sound(p.earlier)' /\ p.earlier.code = None
  BY <1>1, <1>3, RecordsLast DEF StartInv
<1>5. p.kept # None => /\ p.at \in Keeping /\ p.kept.server # None
                       /\ Over(p.kept)' /\ Sound(p.kept)' /\ t \notin servers'
  BY <1>1, <1>2, <1>3, RecordsLast DEF StartInv
<1>6. p.given # None => Written(p.given)'
  BY <1>1, <1>3 DEF StartInv, Written, Advance
<1> QED BY <1>1, <1>2, <1>4, <1>5, <1>6 DEF StartInv, Over, Sound, Written

\* The record of a start that is up is left as it is while another moves.
LEMMA RecordsOfOthersStay ==
  ASSUME OldIsNoStart, SharesInv, NEW s \in Starts, Moves(s),
         servers' \subseteq servers \cup {s}, servers' \subseteq servers \/ start[s].at = "ready",
         NEW t \in Starts \ {s},
         (file' # None /\ file'.token = t /\ start[t].at \in {"linking", "undoing", "serving", "closing"})
           => /\ file # None /\ file.token = t
              /\ file'.code = file.code /\ file'.server = file.server
  PROVE  OwnRecord(t)'
<1>1. start'[t] = start[t] /\ OwnRecord(t)
  BY DEF Moves, SharesInv
<1>2. file # None /\ file.server = s => servers' \subseteq servers
  BY DEF SharesInv, FileInv, Sound, Written, Late, OldIsNoStart
<1> QED BY <1>1, <1>2 DEF OwnRecord

\* While commands take turns, whoever works or serves has the others out of its way.
LEMMA Alone ==
  ASSUME SharesInv, ~overlapped, NEW s \in Starts, start[s].at \in AtWork
  PROVE  /\ \A t \in Starts \ {s} : start[t].at \notin AtWork
         /\ start[s].at \in Working => stop.at = "idle"
BY DEF SharesInv, Turns, TurnInv

LEMMA OthersWait ==
  ASSUME SharesInv, ~overlapped, NEW s \in Starts, Moves(s), start[s].at \in AtWork, stop' = stop,
         NEW t \in Starts \ {s}, t \in served' => t \in served \/ start[t].at \notin {"idle"}
  PROVE  TurnInv(t)'
<1>1. start'[t] = start[t] /\ TurnInv(t) /\ start[t].at \notin AtWork
  BY Alone DEF Moves, SharesInv, Turns
<1>2. start[t].at \in Phases
  BY Now DEF Command
<1> QED BY <1>1, <1>2 DEF TurnInv, AtWork, Working, Phases

LEMMA FailKeeps ==
  ASSUME OldIsNoStart, SharesInv, NEW s \in Starts, start[s].at \in Working,
         NEW f \in Records \cup {None}, Fail(s, f),
         f # None => /\ file # None /\ f.token = file.token /\ f.code = file.code /\ f.server = file.server
                     /\ f.token = s => f.gone
                     /\ f.gone = file.gone \/ f.token = s,
         f = None => file = None \/ (file.token = s /\ start[s].at = "undoing"),
         relay' \in {relay, Deleted(s)}, relay' = relay \/ start[s].at = "undoing", 
         UNCHANGED <<stop, budgets, ghosts>>
  PROVE  SharesInv'
<1> USE DEF OldIsNoStart
<1>0. /\ Moves(s) /\ start'[s].at \in {"gone", "lingering"} /\ start'[s].kept = None /\ start'[s].given = None
      /\ file' = PutBack(s, f) /\ servers' = servers \ {s}
  BY FailDoes DEF Outside
<1>1. Advance
  BY <1>0 DEF Advance, Moves, Working, Late
<1>2. start[s] \in Command /\ start[s].kept \in Records \cup {None} /\ StartInv(s)
  BY Now DEF Command, SharesInv
<1>3. file' \in Records \cup {None}
  BY <1>0, <1>2 DEF PutBack
<1>4. TypeOK'
  <2>1. relay' \in [token : Shares, code : Shares] \cup {None}
    BY Now DEF Deleted
  <2> QED BY <1>0, <1>3, <2>1, Now, Typed DEF Moves, budgets, ghosts, SharesInv
<1>5. (stop.at # "idle" => stop.rec # None)' /\ (served \subseteq Starts)'
  BY DEF SharesInv, ghosts
<1>6. FileInv'
  <2>1. CASE file' = f /\ f # None
    <3>1. Sound(f)
      BY <2>1 DEF SharesInv, FileInv, Sound, Written
    <3>2. Sound(f)'
      BY <1>1, <2>1, <3>1, RecordsLast
    <3>3. (f.gone \/ (f.token # Old /\ start'[f.token].at = "lingering")) => Over(f)'
      <4>1. CASE f.token = s
        BY <1>0, <2>1, <4>1 DEF Over
      <4>2. CASE f.token # s
        <5>1. f.token = Old \/ f.token \in Starts \ {s}
          BY <2>1, <4>2 DEF Records, Shares
        <5> QED BY <1>0, <2>1, <4>2, <5>1 DEF SharesInv, FileInv, Over, Moves
      <4> QED BY <4>1, <4>2
    <3> QED BY <2>1, <3>2, <3>3 DEF FileInv, Sound, Over, Written
  <2>2. CASE file' = start[s].kept /\ start[s].kept # None
    <3>1. PICK k \in Records : k = start[s].kept
      BY <1>2, <2>2
    <3>2. Sound(k)' /\ Over(k)'
      BY <1>1, <1>2, <2>2, <3>1, RecordsLast DEF StartInv
    <3> QED BY <2>2, <3>1, <3>2 DEF FileInv, Sound, Over, Written
  <2>3. CASE file' = None
    BY <2>3 DEF FileInv
  <2> QED BY <1>0, <2>1, <2>2, <2>3 DEF PutBack
<1>7. \A t \in Starts : StartInv(t)'
  <2>1. StartInv(s)'
    BY <1>0 DEF StartInv
  <2>2. \A t \in Starts \ {s} : StartInv(t)'
    BY <1>0, <1>1, OthersStay
  <2> QED BY <2>1, <2>2
<1>8. \A t \in Starts : OwnRecord(t)'
  <2>1. OwnRecord(s)'
    BY <1>0 DEF OwnRecord
  <2>2. ASSUME NEW t \in Starts \ {s} PROVE OwnRecord(t)'
    <3>1. (file' # None /\ file'.token = t /\ start[t].at \in {"linking", "undoing", "serving", "closing"})
            => /\ file # None /\ file.token = t
               /\ file'.code = file.code /\ file'.server = file.server
      BY <1>0, <1>2 DEF PutBack, StartInv, Over
    <3> QED BY <1>0, <3>1, RecordsOfOthersStay
  <2> QED BY <2>1, <2>2
<1>9. RelayInv'
  BY <1>0, Now DEF RelayInv, SharesInv, Deleted, Moves, Shares
<1>10. Turns'
  <2>1. CASE overlapped
    BY <2>1 DEF Turns, ghosts
  <2>2. CASE ~overlapped
    <3>1. stop.at = "idle" /\ \A t \in Starts : TurnInv(t)
      BY <2>2, Alone DEF AtWork, SharesInv, Turns
    <3>2. TurnInv(s)'
      BY <1>0, <3>1 DEF TurnInv, AtWork, Working, Used, ghosts
    <3>3. \A t \in Starts \ {s} : TurnInv(t)'
      BY <1>0, <2>2, OthersWait DEF AtWork, ghosts
    <3>4. Used' => file' # None /\ file'.code = relay'.code
      <4>1. SUFFICES ASSUME Used' PROVE file' # None /\ file'.code = relay'.code
        OBVIOUS
      <4>2. relay' = relay /\ Used
        BY <4>1 DEF Used, Deleted, ghosts
      <4>3. file # None /\ file.code = relay.code
        BY <2>2, <4>2 DEF SharesInv, Turns
      <4>4. f # None
        <5>1. SUFFICES ASSUME f = None PROVE FALSE
          OBVIOUS
        <5>2. file.code = s /\ relay.code \in served
          BY <1>2, <4>2, <4>3, <5>1 DEF SharesInv, OwnRecord, StartInv, Used
        <5> QED BY <3>1, <4>3, <5>1, <5>2 DEF TurnInv
      <4> QED BY <1>0, <4>2, <4>3, <4>4 DEF PutBack
    <3> QED BY <3>1, <3>2, <3>3, <3>4 DEF Turns
  <2> QED BY <2>1, <2>2
<1>11. RecordInv'
  <2>1. CASE overtaken \/ cutShort
    BY <2>1 DEF RecordInv, ghosts
  <2>2. CASE ~(overtaken \/ cutShort)
    <3>1. SUFFICES ASSUME NEW t \in Starts, start'[t].at \in {"linking", "serving"}, relay' # None, relay'.token = t
                   PROVE  Recorded(t)'
      BY <2>2 DEF RecordInv, ghosts
    <3>2. t # s /\ start'[t] = start[t] /\ relay' = relay
      BY <1>0, <3>1 DEF Moves, Deleted
    <3>3. Recorded(t)
      BY <2>2, <3>1, <3>2 DEF SharesInv, RecordInv
    <3> QED BY <1>0, <3>2, <3>3 DEF Recorded, PutBack
  <2> QED BY <2>1, <2>2
<1> QED BY <1>4, <1>5, <1>6, <1>7, <1>8, <1>9, <1>10, <1>11 DEF SharesInv

LEMMA FileWaits ==
  ASSUME OldIsNoStart, SharesInv, NEW s \in Starts, Moves(s), Advance, file' = file,
         start'[s].at = "lingering" => start[s].at = "lingering"
  PROVE  FileInv'
<1>1. CASE file = None
  BY <1>1 DEF FileInv
<1>2. CASE file # None
  <2>1. PICK f \in Records : f = file
    BY <1>2, Now
  <2>2. /\ Sound(f) /\ ((f.gone \/ (f.token # Old /\ start[f.token].at = "lingering")) => Over(f))
        /\ f.token = Old \/ f.token \in Starts
    BY <1>2, <2>1 DEF SharesInv, FileInv, Sound, Over, Written, Records, Shares
  <2>3. Sound(f)' /\ (Over(f) => Over(f)')
    BY <2>2, RecordsLast
  <2>4. (f.gone \/ (f.token # Old /\ start'[f.token].at = "lingering")) => Over(f)'
    <3>1. CASE f.token = s
      BY <2>2, <2>3, <3>1
    <3>2. CASE f.token # s
      BY <2>2, <2>3, <3>2 DEF Moves
    <3> QED BY <3>1, <3>2
  <2> QED BY <2>1, <2>3, <2>4 DEF FileInv, Sound, Over, Written
<1> QED BY <1>1, <1>2

\* What holds of the record and the registration holds while a start moves on its own.
LEMMA RecordWaits ==
  ASSUME OldIsNoStart, SharesInv, NEW s \in Starts, Moves(s), file' = file, relay' \in {relay, None},
         start'[s].at \in {"linking", "serving"} => start[s].at \in {"linking", "serving"},
         overtaken' = overtaken, cutShort' = cutShort
  PROVE  RecordInv'
<1>1. CASE overtaken \/ cutShort
  BY <1>1 DEF RecordInv
<1>2. CASE ~(overtaken \/ cutShort)
  <2>1. SUFFICES ASSUME NEW t \in Starts, start'[t].at \in {"linking", "serving"}, relay' # None, relay'.token = t
                 PROVE  Recorded(t)'
    BY <1>2 DEF RecordInv
  <2>2. start[t].at \in {"linking", "serving"} /\ relay' = relay
    BY <2>1 DEF Moves
  <2> QED BY <1>2, <2>1, <2>2 DEF SharesInv, RecordInv, Recorded
<1> QED BY <1>1, <1>2

LEMMA BeginKeeps ==
  ASSUME OldIsNoStart, SharesInv, NEW s \in Starts, Begin(s)
  PROVE  SharesInv'
<1> USE DEF OldIsNoStart
<1>0. /\ Moves(s) /\ start[s].at = "idle" /\ start'[s].given \in {start[s].given, None}
      /\ \/ start'[s].at = "ready" /\ file = None /\ start'[s].kept = start[s].kept /\ servers' = servers
         \/ /\ start'[s].at = "gone" /\ start'[s].kept = None /\ file # None /\ BridgeRuns(file)
            /\ servers' = servers
         \/ /\ file # None /\ ~BridgeRuns(file) /\ start'[s].at = "ready"
            /\ start'[s].kept = start[s].kept /\ servers' = servers \ {file.server}
         \/ /\ file # None /\ ~BridgeRuns(file) /\ start'[s].at = "ready"
            /\ start'[s].kept = file /\ file.server \in servers /\ servers' = servers
         \/ /\ file # None /\ ~BridgeRuns(file) /\ file.code = None /\ start'[s].at = "settling"
            /\ start'[s].earlier = file /\ start'[s].kept = start[s].kept /\ servers' = servers
  BY BeginDoes DEF Outside
<1>1. /\ file' = file /\ relay' = relay /\ stop' = stop /\ overlapped' = (overlapped \/ Busy)
      /\ kills' = kills /\ stops' = stops /\ overtaken' = overtaken /\ cutShort' = cutShort
      /\ orphaned' = orphaned /\ served' = served /\ ended' = ended
  BY DEF Begin, budgets
<1>2. Advance
  BY <1>0 DEF Advance, Moves, Late
<1>3. start[s] \in Command /\ StartInv(s) /\ start[s].kept = None
  BY <1>0, Now DEF SharesInv, StartInv, Keeping
<1>4. TypeOK'
  BY <1>0, <1>1, Now, Typed DEF Moves, SharesInv
<1>5. (stop.at # "idle" => stop.rec # None)' /\ (served \subseteq Starts)'
  BY <1>1 DEF SharesInv
<1>6. FileInv'
  BY <1>0, <1>1, <1>2, FileWaits
<1>7. \A t \in Starts : StartInv(t)'
  <2>1. StartInv(s)'
    <3>1. s \notin servers' /\ start'[s].at \in {"ready", "gone", "settling"}
      BY <1>0, <1>3 DEF StartInv
    <3>2. start'[s].given # None => Written(start[s].given)'
      BY <1>0, <1>2, <1>3 DEF StartInv, Written, Advance, Command
    <3>3. ASSUME file # None, ~BridgeRuns(file)
          PROVE  Over(file)' /\ Sound(file)'
      <4>1. PICK f \in Records : f = file
        BY <3>3, Now
      <4>2. Over(f) /\ Sound(f)
        BY <3>3, <4>1 DEF BridgeRuns, Alive, Over, SharesInv, FileInv, Sound, Written, Late
      <4>3. Over(f)' /\ Sound(f)'
        BY <1>2, <4>2, RecordsLast
      <4> QED BY <1>1, <4>1, <4>3 DEF Over, Sound, Written
    <3>4. ASSUME start'[s].at = "settling"
          PROVE  /\ start'[s].earlier # None /\ start'[s].earlier.code = None
                 /\ Over(start[s].earlier)' /\ Sound(start[s].earlier)'
      BY <1>0, <1>1, <3>3, <3>4 DEF Over, Sound, Written
    <3>5. ASSUME start'[s].kept # None
          PROVE  /\ start'[s].at = "ready" /\ start'[s].kept.server # None
                 /\ Over(start[s].kept)' /\ Sound(start[s].kept)'
      BY <1>0, <1>1, <1>3, <3>3, <3>5, Now DEF Over, Sound, Written, Shares
    <3> QED BY <3>1, <3>2, <3>4, <3>5 DEF StartInv, Keeping
  <2>2. \A t \in Starts \ {s} : StartInv(t)'
    BY <1>0, <1>2, OthersStay
  <2> QED BY <2>1, <2>2
<1>8. \A t \in Starts : OwnRecord(t)'
  <2>1. OwnRecord(s)'
    BY <1>0 DEF OwnRecord
  <2>2. \A t \in Starts \ {s} : OwnRecord(t)'
    BY <1>0, <1>1, RecordsOfOthersStay
  <2> QED BY <2>1, <2>2
<1>9. RelayInv'
  BY <1>0, <1>1, Now DEF RelayInv, SharesInv, Moves, Shares
<1>10. Turns'
  <2>1. CASE overlapped'
    BY <2>1 DEF Turns
  <2>2. CASE ~overlapped'
    <3>1. /\ ~overlapped /\ stop.at = "idle" /\ \A t \in Starts : TurnInv(t)
          /\ \A t \in Starts : start[t].at \notin Working
      BY <1>1, <2>2 DEF SharesInv, Turns, Busy
    <3>2. start'[s].at # "gone" => \A t \in Starts : start[t].at # "serving"
      <4>1. SUFFICES ASSUME start'[s].at # "gone", NEW t \in Starts, start[t].at = "serving" PROVE FALSE
        OBVIOUS
      <4>2. file # None /\ file.token = t
        BY <3>1, <4>1 DEF TurnInv
      <4>3. ~file.gone
        BY <4>1, <4>2 DEF SharesInv, FileInv, Over
      <4>4. BridgeRuns(file)
        BY <4>1, <4>2, <4>3 DEF BridgeRuns, Alive
      <4> QED BY <1>0, <4>1, <4>2, <4>4
    <3>3. TurnInv(s)'
      <4>1. start'[s].at = "gone" \/ \A t \in Starts \ {s} : start'[t].at \notin AtWork
        BY <1>0, <3>1, <3>2 DEF Moves, AtWork
      <4>2. s \notin served
        BY <1>0, <3>1 DEF TurnInv
      <4>3. start'[s].at \in {"ready", "settling", "gone"}
        BY <1>0
      <4>4. start'[s].at = "settling" => file' \in {None, start'[s].earlier}
        BY <1>0, <1>1
      <4>5. start'[s].at = "ready" /\ file' # None =>
              IF start'[s].kept # None THEN file' = start'[s].kept ELSE file'.server \notin servers'
        BY <1>0, <1>1, <1>3
      <4> QED BY <1>1, <3>1, <4>1, <4>2, <4>3, <4>4, <4>5 DEF TurnInv, AtWork, Working
    <3>4. \A t \in Starts \ {s} : TurnInv(t)'
      <4>1. SUFFICES ASSUME NEW t \in Starts \ {s} PROVE TurnInv(t)'
        OBVIOUS
      <4>2. start'[t] = start[t] /\ TurnInv(t) /\ start[t].at \notin Working
        BY <1>0, <3>1 DEF Moves
      <4>3. start[t].at = "serving" => start'[s].at \notin AtWork
        BY <1>0, <3>2 DEF AtWork, Working
      <4> QED BY <1>0, <1>1, <3>1, <4>2, <4>3 DEF TurnInv, AtWork, Working, Moves
    <3>5. Used' => file' # None /\ file'.code = relay'.code
      BY <1>1, <3>1 DEF SharesInv, Turns, Used
    <3> QED BY <1>1, <3>1, <3>3, <3>4, <3>5 DEF Turns
  <2> QED BY <2>1, <2>2
<1>11. RecordInv'
  BY <1>0, <1>1, RecordWaits
<1> QED BY <1>4, <1>5, <1>6, <1>7, <1>8, <1>9, <1>10, <1>11 DEF SharesInv

\* A share's record stays its own while its start goes on.
LEMMA SettledKeeps ==
  ASSUME OldIsNoStart, SharesInv, NEW s \in Starts, Settled(s)
  PROVE  SharesInv'
<1> USE DEF OldIsNoStart
<1>0. /\ Moves(s) /\ start[s].at = "settling" /\ UNCHANGED <<stop, budgets, ghosts>>
      /\ \/ /\ relay' = Deleted(start[s].earlier.token)
            /\ file' = ClearOwn(file, start[s].earlier.token)
            /\ start'[s].at = "ready" /\ start'[s].given = start[s].given
            /\ \/ start'[s].kept = start[s].kept /\ servers' = servers \ {start[s].earlier.server}
               \/ /\ start'[s].kept = start[s].earlier /\ start[s].earlier.server \in servers
                  /\ servers' = servers
         \/ Fail(s, file) /\ relay' = relay
  BY SettledDoes DEF Settled
<1>f. CASE Fail(s, file) /\ relay' = relay
  <2>1. file # None => file.token # s
    BY <1>0 DEF SharesInv, FileInv, Sound, Written, Late
  <2> QED BY <1>0, <1>f, <2>1, Now, FailKeeps DEF Working
<1>s. CASE ~(Fail(s, file) /\ relay' = relay)
  <2>0. /\ start[s] \in Command /\ StartInv(s) /\ start[s].kept = None
        /\ start[s].earlier \in Records /\ start[s].earlier.code = None
    BY <1>0, Now DEF SharesInv, StartInv, Keeping, Command
  <2>1. PICK e \in Records : e = start[s].earlier
    BY <2>0
  <2>2. /\ relay' = Deleted(e.token) /\ file' = ClearOwn(file, e.token)
        /\ start'[s].at = "ready" /\ start'[s].given = start[s].given
        /\ \/ start'[s].kept = None /\ servers' = servers \ {e.server}
           \/ start'[s].kept = e /\ e.server \in servers /\ servers' = servers
    BY <1>0, <1>s, <2>0, <2>1
  <2>3. Advance
    BY <1>0, <2>2 DEF Advance, Moves, Late
  <2>4. TypeOK'
    <3>1. file' \in Records \cup {None}
      BY <2>2, Now DEF ClearOwn
    <3>2. relay' \in [token : Shares, code : Shares] \cup {None}
      BY <2>2, Now DEF Deleted
    <3> QED BY <1>0, <2>2, <3>1, <3>2, Now, Typed DEF Moves, SharesInv, budgets, ghosts
  <2>5. (stop.at # "idle" => stop.rec # None)' /\ (served \subseteq Starts)'
    BY <1>0 DEF SharesInv, ghosts
  <2>6. FileInv'
    <3>1. CASE file' = file
      BY <1>0, <2>2, <2>3, <3>1, FileWaits
    <3>2. CASE file' = None
      BY <3>2 DEF FileInv
    <3> QED BY <2>2, <3>1, <3>2 DEF ClearOwn
  <2>7. \A t \in Starts : StartInv(t)'
    <3>1. StartInv(s)'
      <4>1. Over(e)' /\ Sound(e)'
        BY <1>0, <2>0, <2>1, <2>3, RecordsLast DEF StartInv
      <4>2. start'[s].given # None => Written(start[s].given)'
        BY <1>0, <2>0, <2>2, <2>3 DEF StartInv, Written, Advance, Command
      <4>3. s \notin servers'
        BY <1>0, <2>0, <2>2 DEF StartInv
      <4>4. start'[s].kept # None => start'[s].kept = e /\ e.server # None
        BY <2>2, Now DEF Shares
      <4> QED BY <2>2, <4>1, <4>2, <4>3, <4>4 DEF StartInv, Keeping, Over, Sound, Written
    <3>2. \A t \in Starts \ {s} : StartInv(t)'
      BY <1>0, <2>2, <2>3, OthersStay
    <3> QED BY <3>1, <3>2
  <2>8. \A t \in Starts : OwnRecord(t)'
    <3>1. OwnRecord(s)'
      BY <2>2 DEF OwnRecord
    <3>2. \A t \in Starts \ {s} : OwnRecord(t)'
      BY <1>0, <2>2, RecordsOfOthersStay DEF ClearOwn
    <3> QED BY <3>1, <3>2
  <2>9. RelayInv'
    BY <1>0, <2>2, Now DEF RelayInv, SharesInv, Moves, Shares, Deleted
  <2>10. Turns'
    <3>1. CASE overlapped
      BY <1>0, <3>1 DEF Turns, ghosts
    <3>2. CASE ~overlapped
      <4>1. stop.at = "idle" /\ \A t \in Starts : TurnInv(t)
        BY <1>0, <3>2, Alone DEF AtWork, Working, SharesInv, Turns
      <4>2. \A t \in Starts \ {s} : start'[t].at \notin AtWork
        BY <1>0, <3>2, Alone DEF AtWork, Working, Moves
      <4>3. file' = None /\ s \notin served
        BY <1>0, <2>1, <2>2, <4>1 DEF TurnInv, ClearOwn
      <4>4. TurnInv(s)'
        BY <1>0, <2>2, <4>1, <4>2, <4>3 DEF TurnInv, AtWork, Working, ghosts
      <4>5. \A t \in Starts \ {s} : TurnInv(t)'
        BY <1>0, <3>2, OthersWait DEF AtWork, Working, ghosts
      <4>6. ~Used'
        <5>1. SUFFICES ASSUME Used' PROVE FALSE
          OBVIOUS
        <5>2. Used
          BY <1>0, <2>2, <5>1 DEF Used, Deleted, ghosts
        <5>3. file # None /\ file.code = relay.code /\ relay.code \in Starts
          BY <3>2, <5>2 DEF SharesInv, Turns, Used
        <5>4. file.code = None
          BY <1>0, <2>0, <4>1, <5>3 DEF TurnInv
        <5> QED BY <5>3, <5>4
      <4> QED BY <1>0, <4>1, <4>4, <4>5, <4>6 DEF Turns
    <3> QED BY <3>1, <3>2
  <2>11. RecordInv'
    <3>1. CASE overtaken \/ cutShort
      BY <1>0, <3>1 DEF RecordInv, ghosts
    <3>2. CASE ~(overtaken \/ cutShort)
      <4>1. SUFFICES ASSUME NEW t \in Starts, start'[t].at \in {"linking", "serving"}, relay' # None, relay'.token = t
                     PROVE  Recorded(t)'
        BY <1>0, <3>2 DEF RecordInv, ghosts
      <4>2. t # s /\ start'[t] = start[t] /\ relay' = relay /\ e.token # t
        BY <1>0, <2>2, <4>1 DEF Moves, Deleted
      <4>3. Recorded(t)
        BY <3>2, <4>1, <4>2 DEF SharesInv, RecordInv
      <4> QED BY <2>2, <4>2, <4>3 DEF Recorded, ClearOwn
    <3> QED BY <3>1, <3>2
  <2> QED BY <2>4, <2>5, <2>6, <2>7, <2>8, <2>9, <2>10, <2>11 DEF SharesInv
<1> QED BY <1>f, <1>s

LEMMA AskKeeps ==
  ASSUME OldIsNoStart, SharesInv, NEW s \in Starts, Ask(s)
  PROVE  SharesInv'
<1> USE DEF OldIsNoStart
<1>0. /\ Moves(s) /\ start[s].at = "ready" /\ UNCHANGED <<relay, stop, budgets, ghosts>>
      /\ \/ /\ start'[s].at = "asked" /\ start'[s].kept = start[s].kept
            /\ start'[s].given = ResumableCode(file) /\ file' = file
            /\ servers' = servers \/ (start[s].kept = None /\ servers' = servers \cup {s})
         \/ Fail(s, file)
  BY AskDoes DEF Ask
<1>f. CASE Fail(s, file)
  <2>1. file # None => file.token # s
    BY <1>0 DEF SharesInv, FileInv, Sound, Written, Late
  <2> QED BY <1>0, <1>f, <2>1, Now, FailKeeps DEF Working
<1>s. CASE ~Fail(s, file)
  <2>0. /\ start[s] \in Command /\ StartInv(s)
    BY Now DEF SharesInv
  <2>2. /\ start'[s].at = "asked" /\ start'[s].kept = start[s].kept
        /\ start'[s].given = ResumableCode(file) /\ file' = file
        /\ servers' = servers \/ (start[s].kept = None /\ servers' = servers \cup {s})
    BY <1>0, <1>s
  <2>3. Advance
    BY <1>0, <2>2 DEF Advance, Moves, Late
  <2>4. TypeOK'
    <3>1. servers' \subseteq Shares
      BY <2>2, Now DEF Shares
    <3> QED BY <1>0, <2>2, <3>1, Now, Typed DEF Moves, SharesInv, budgets, ghosts
  <2>5. (stop.at # "idle" => stop.rec # None)' /\ (served \subseteq Starts)'
    BY <1>0 DEF SharesInv, ghosts
  <2>6. FileInv'
    BY <1>0, <2>2, <2>3, FileWaits
  <2>7. \A t \in Starts : StartInv(t)'
    <3>1. StartInv(s)'
      <4>1. start[s].kept # None => /\ start'[s].kept = start[s].kept /\ start[s].kept.server # None
                                    /\ Over(start[s].kept) /\ Sound(start[s].kept) /\ s \notin servers'
        BY <2>0, <2>2 DEF StartInv
      <4>2. start'[s].kept # None => Over(start[s].kept)' /\ Sound(start[s].kept)'
        <5>1. SUFFICES ASSUME start[s].kept # None PROVE Over(start[s].kept)' /\ Sound(start[s].kept)'
          BY <2>2
        <5>2. PICK k \in Records : k = start[s].kept
          BY <2>0, <5>1 DEF Command
        <5>3. Over(k)' /\ Sound(k)'
          BY <2>3, <4>1, <5>1, <5>2, RecordsLast
        <5> QED BY <2>2, <5>2, <5>3 DEF Over, Sound, Written
      <4>3. start'[s].given # None => Written(start[s].given)'
        <5>1. SUFFICES ASSUME file # None, file.code # None, start'[s].given = file.code
                       PROVE  Written(start[s].given)'
          BY <2>2 DEF ResumableCode
        <5>2. Written(file.code) /\ file.code \in Starts
          BY <5>1, Now DEF SharesInv, FileInv, Sound, Records
        <5> QED BY <2>3, <5>1, <5>2 DEF Written, Advance
      <4> QED BY <2>2, <4>1, <4>2, <4>3 DEF StartInv, Keeping
    <3>2. \A t \in Starts \ {s} : StartInv(t)'
      BY <1>0, <2>2, <2>3, OthersStay
    <3> QED BY <3>1, <3>2
  <2>8. \A t \in Starts : OwnRecord(t)'
    <3>1. OwnRecord(s)'
      BY <2>2 DEF OwnRecord
    <3>2. \A t \in Starts \ {s} : OwnRecord(t)'
      BY <1>0, <2>2, RecordsOfOthersStay
    <3> QED BY <3>1, <3>2
  <2>9. RelayInv'
    BY <1>0, <2>2, Now DEF RelayInv, SharesInv, Moves, Shares
  <2>10. Turns'
    <3>1. CASE overlapped
      BY <1>0, <3>1 DEF Turns, ghosts
    <3>2. CASE ~overlapped
      <4>1. stop.at = "idle" /\ \A t \in Starts : TurnInv(t)
        BY <1>0, <3>2, Alone DEF AtWork, Working, SharesInv, Turns
      <4>2. \A t \in Starts \ {s} : start'[t].at \notin AtWork
        BY <1>0, <3>2, Alone DEF AtWork, Working, Moves
      <4>3. s \notin served
        BY <1>0, <4>1 DEF TurnInv
      <4>4. Used' => Used /\ file # None /\ file.code = relay.code
        BY <1>0, <3>2 DEF Used, ghosts, SharesInv, Turns
      <4>5. file # None => IF start[s].kept # None THEN file = start[s].kept ELSE file.server \notin servers'
        <5>1. file # None => file.server # s
          BY <1>0 DEF SharesInv, FileInv, Sound, Written, Late
        <5> QED BY <1>0, <2>2, <4>1, <5>1 DEF TurnInv
      <4>6. TurnInv(s)'
        BY <1>0, <2>2, <4>1, <4>2, <4>3, <4>4, <4>5 DEF TurnInv, AtWork, Working, ghosts, ResumableCode, Used
      <4>7. \A t \in Starts \ {s} : TurnInv(t)'
        BY <1>0, <3>2, OthersWait DEF AtWork, Working, ghosts
      <4> QED BY <1>0, <2>2, <4>1, <4>4, <4>6, <4>7 DEF Turns
    <3> QED BY <3>1, <3>2
  <2>11. RecordInv'
    BY <1>0, <2>2, RecordWaits DEF ghosts
  <2> QED BY <2>4, <2>5, <2>6, <2>7, <2>8, <2>9, <2>10, <2>11 DEF SharesInv
<1> QED BY <1>f, <1>s

LEMMA RegisterKeeps ==
  ASSUME OldIsNoStart, SharesInv, NEW s \in Starts, Register(s)
  PROVE  SharesInv'
<1> USE DEF OldIsNoStart
<1>0. /\ Moves(s) /\ start[s].at = "asked" /\ UNCHANGED <<stop, budgets, ghosts>>
      /\ \/ \E code \in {s, start[s].given} \ {None} :
              /\ start'[s].at = "answered" /\ start'[s].kept = start[s].kept
              /\ start'[s].given = start[s].given /\ start'[s].code = code
              /\ relay' = [token |-> s, code |-> code]
              /\ code = IF Continues(s) THEN relay.code ELSE s
              /\ file' = file /\ servers' = servers
         \/ Fail(s, file) /\ relay' = relay
  BY RegisterDoes DEF Register
<1>f. CASE Fail(s, file) /\ relay' = relay
  <2>1. file # None => file.token # s
    BY <1>0 DEF SharesInv, FileInv, Sound, Written, Late
  <2> QED BY <1>0, <1>f, <2>1, Now, FailKeeps DEF Working
<1>s. CASE ~(Fail(s, file) /\ relay' = relay)
  <2>0. /\ start[s] \in Command /\ StartInv(s)
    BY Now DEF SharesInv
  <2>1. PICK code \in {s, start[s].given} \ {None} :
              /\ start'[s].at = "answered" /\ start'[s].kept = start[s].kept
              /\ start'[s].given = start[s].given /\ start'[s].code = code
              /\ relay' = [token |-> s, code |-> code]
              /\ code = IF Continues(s) THEN relay.code ELSE s
              /\ file' = file /\ servers' = servers
    BY <1>0, <1>s
  <2>2. code \in Starts
    BY <2>0 DEF Command
  <2>3. Advance
    BY <1>0, <2>1 DEF Advance, Moves, Late
  <2>4. TypeOK'
    <3>1. relay' \in [token : Shares, code : Shares] \cup {None}
      BY <2>1, <2>2 DEF Shares
    <3> QED BY <1>0, <2>1, <3>1, Now, Typed DEF Moves, SharesInv, budgets, ghosts
  <2>5. (stop.at # "idle" => stop.rec # None)' /\ (served \subseteq Starts)'
    BY <1>0 DEF SharesInv, ghosts
  <2>6. FileInv'
    BY <1>0, <2>1, <2>3, FileWaits
  <2>7. \A t \in Starts : StartInv(t)'
    <3>1. StartInv(s)'
      <4>1. start'[s].kept # None => /\ start[s].kept.server # None /\ s \notin servers
                                     /\ Over(start[s].kept)' /\ Sound(start[s].kept)'
        <5>1. SUFFICES ASSUME start[s].kept # None
                       PROVE  /\ start[s].kept.server # None /\ s \notin servers
                              /\ Over(start[s].kept)' /\ Sound(start[s].kept)'
          BY <2>1
        <5>2. PICK k \in Records : k = start[s].kept
          BY <2>0, <5>1 DEF Command
        <5>3. Over(k)' /\ Sound(k)' /\ start[s].kept.server # None /\ s \notin servers
          BY <2>0, <2>3, <5>1, <5>2, RecordsLast DEF StartInv
        <5> QED BY <2>1, <5>2, <5>3 DEF Over, Sound, Written
      <4>2. start'[s].given # None => Written(start[s].given)'
        BY <2>0, <2>1, <2>3 DEF StartInv, Written, Advance, Command
      <4> QED BY <2>1, <4>1, <4>2 DEF StartInv, Keeping
    <3>2. \A t \in Starts \ {s} : StartInv(t)'
      BY <1>0, <2>1, <2>3, OthersStay
    <3> QED BY <3>1, <3>2
  <2>8. \A t \in Starts : OwnRecord(t)'
    <3>1. OwnRecord(s)'
      BY <2>1 DEF OwnRecord
    <3>2. \A t \in Starts \ {s} : OwnRecord(t)'
      BY <1>0, <2>1, RecordsOfOthersStay
    <3> QED BY <3>1, <3>2
  <2>9. RelayInv'
    BY <2>1 DEF RelayInv
  <2>10. Turns'
    <3>1. CASE overlapped
      BY <1>0, <3>1 DEF Turns, ghosts
    <3>2. CASE ~overlapped
      <4>1. stop.at = "idle" /\ \A t \in Starts : TurnInv(t)
        BY <1>0, <3>2, Alone DEF AtWork, Working, SharesInv, Turns
      <4>2. \A t \in Starts \ {s} : start'[t].at \notin AtWork
        BY <1>0, <3>2, Alone DEF AtWork, Working, Moves
      <4>3. s \notin served
        BY <1>0, <4>1 DEF TurnInv
      <4>4. Used' => file' # None /\ file'.code = relay'.code
        <5>1. SUFFICES ASSUME Used' PROVE file' # None /\ file'.code = relay'.code
          OBVIOUS
        <5>2. code \in served \ ended
          BY <1>0, <2>1, <5>1 DEF Used, ghosts
        <5>3. Continues(s) /\ relay.code = code
          BY <2>1, <4>3, <5>2
        <5>4. Used
          BY <5>2, <5>3 DEF Used, Continues
        <5> QED BY <2>1, <3>2, <5>3, <5>4 DEF SharesInv, Turns
      <4>5. TurnInv(s)'
        BY <1>0, <2>1, <4>1, <4>2, <4>3 DEF TurnInv, AtWork, Working, ghosts
      <4>6. \A t \in Starts \ {s} : TurnInv(t)'
        BY <1>0, <3>2, OthersWait DEF AtWork, Working, ghosts
      <4> QED BY <1>0, <2>1, <4>1, <4>4, <4>5, <4>6 DEF Turns
    <3> QED BY <3>1, <3>2
  <2>11. RecordInv'
    <3>1. CASE overtaken \/ cutShort
      BY <1>0, <3>1 DEF RecordInv, ghosts
    <3>2. CASE ~(overtaken \/ cutShort)
      BY <1>0, <2>1 DEF RecordInv
    <3> QED BY <3>1, <3>2
  <2> QED BY <2>4, <2>5, <2>6, <2>7, <2>8, <2>9, <2>10, <2>11 DEF SharesInv
<1> QED BY <1>f, <1>s

LEMMA AnsweredKeeps ==
  ASSUME OldIsNoStart, NoneIsNoRecord, SharesInv, NEW s \in Starts, Answered(s)
  PROVE  SharesInv'
<1> USE DEF OldIsNoStart
<1> DEFINE own == IF s \in servers THEN s
                  ELSE IF start[s].kept # None THEN start[s].kept.server ELSE None
<1>0. /\ Moves(s) /\ start[s].at = "answered"
      /\ UNCHANGED <<relay, stop, budgets, overlapped, cutShort, orphaned, served, ended>>
      /\ \/ /\ start'[s].at = "linking" /\ start'[s].kept = start[s].kept
            /\ start'[s].given = start[s].given /\ start'[s].code = start[s].code
            /\ file' = Record(s, start[s].code, own)
            /\ file' \in Records /\ servers' = servers
            /\ overtaken' = (overtaken \/ Overtakes(s))
         \/ Fail(s, file) /\ overtaken' = overtaken
  BY AnsweredDoes DEF Answered
<1>f. CASE Fail(s, file) /\ overtaken' = overtaken
  <2>1. file # None => file.token # s
    BY <1>0 DEF SharesInv, FileInv, Sound, Written, Late
  <2>2. UNCHANGED ghosts
    BY <1>0, <1>f DEF ghosts
  <2> QED BY <1>0, <1>f, <2>1, <2>2, Now, FailKeeps DEF Working
<1>s. CASE ~(Fail(s, file) /\ overtaken' = overtaken)
  <2>0. start[s] \in Command /\ StartInv(s)
    BY Now DEF SharesInv
  <2>1. /\ start'[s].at = "linking" /\ start'[s].kept = start[s].kept
        /\ start'[s].given = start[s].given /\ start'[s].code = start[s].code
        /\ file' \in Records /\ servers' = servers
        /\ overtaken' = (overtaken \/ Overtakes(s))
    BY <1>0, <1>s
  <2>2. file'.token = s /\ file'.code = start[s].code /\ file'.server = own /\ ~file'.gone
    BY <1>0, <1>s DEF Record
  <2>r. file' # None
    BY <2>1 DEF NoneIsNoRecord
  <2> HIDE DEF own
  <2>3. Advance
    BY <1>0, <2>1 DEF Advance, Moves, Late
  <2>k. ASSUME start[s].kept # None
        PROVE  /\ start[s].kept.server # None /\ s \notin servers
               /\ Over(start[s].kept)' /\ Sound(start[s].kept)'
    <3>1. PICK k \in Records : k = start[s].kept
      BY <2>0, <2>k DEF Command
    <3>2. Over(k)' /\ Sound(k)' /\ start[s].kept.server # None /\ s \notin servers
      BY <2>0, <2>3, <2>k, <3>1, RecordsLast DEF StartInv
    <3> QED BY <2>1, <3>1, <3>2 DEF Over, Sound, Written
  <2>w. start[s].given # None => Written(start[s].given)'
    BY <2>0, <2>1, <2>3 DEF StartInv, Written, Advance, Command
  <2>4. TypeOK'
    BY <1>0, <2>1, Now, Typed DEF Moves, SharesInv, budgets
  <2>5. (stop.at # "idle" => stop.rec # None)' /\ (served \subseteq Starts)'
    BY <1>0 DEF SharesInv
  <2>6. FileInv'
    <3>1. Written(s)'
      BY <2>1 DEF Written, Late
    <3>2. file'.code # None => Written(file.code)'
      BY <1>0, <2>0, <2>1, <2>2, <2>w, <3>1 DEF StartInv, Written
    <3>3. file'.server # None => Written(file.server)'
      BY <2>1, <2>2, <2>k, <3>1 DEF own, Written, Sound
    <3>4. Sound(file)'
      BY <2>2, <3>1, <3>2, <3>3 DEF Sound, Written
    <3> QED BY <2>1, <2>2, <3>4 DEF FileInv
  <2>7. \A t \in Starts : StartInv(t)'
    <3>1. StartInv(s)'
      BY <1>0, <2>0, <2>1, <2>k, <2>w DEF StartInv, Keeping, Over, Sound, Written
    <3>2. \A t \in Starts \ {s} : StartInv(t)'
      BY <1>0, <2>1, <2>3, OthersStay
    <3> QED BY <3>1, <3>2
  <2>8. \A t \in Starts : OwnRecord(t)'
    <3>1. OwnRecord(s)'
      BY <2>1, <2>2, <2>k DEF OwnRecord, own
    <3>2. \A t \in Starts \ {s} : OwnRecord(t)'
      BY <2>2 DEF OwnRecord
    <3> QED BY <3>1, <3>2
  <2>9. RelayInv'
    BY <1>0, <2>1, Now DEF RelayInv, SharesInv, Moves, Shares
  <2>10. Turns'
    <3>1. CASE overlapped
      BY <1>0, <3>1 DEF Turns
    <3>2. CASE ~overlapped
      <4>1. stop.at = "idle" /\ \A t \in Starts : TurnInv(t)
        BY <1>0, <3>2, Alone DEF AtWork, Working, SharesInv, Turns
      <4>2. \A t \in Starts \ {s} : start'[t].at \notin AtWork
        BY <1>0, <3>2, Alone DEF AtWork, Working, Moves
      <4>3. s \notin served
        BY <1>0, <4>1 DEF TurnInv
      <4>4. Used' => file'.code = relay'.code
        BY <1>0, <2>2, <4>1, Now DEF Used, TurnInv, SharesInv, RelayInv, Shares
      <4>5. TurnInv(s)'
        BY <1>0, <2>1, <2>2, <2>r, <4>1, <4>2, <4>3 DEF TurnInv, AtWork, Working
      <4>6. \A t \in Starts \ {s} : TurnInv(t)'
        BY <1>0, <3>2, OthersWait DEF AtWork, Working
      <4> QED BY <1>0, <2>r, <4>1, <4>4, <4>5, <4>6 DEF Turns
    <3> QED BY <3>1, <3>2
  <2>11. RecordInv'
    <3>1. CASE overtaken' \/ cutShort'
      BY <3>1 DEF RecordInv
    <3>2. CASE ~(overtaken' \/ cutShort')
      <4>1. SUFFICES ASSUME NEW t \in Starts, start'[t].at \in {"linking", "serving"}, relay' # None, relay'.token = t
                     PROVE  Recorded(t)'
        BY <3>2 DEF RecordInv
      <4>2. CASE t = s
        BY <2>2, <2>r, <4>2 DEF Recorded
      <4>3. CASE t # s
        <5>1. start[t].at \in {"linking", "serving"} /\ relay' = relay
          BY <1>0, <4>1, <4>3 DEF Moves
        <5>2. Recorded(t)
          BY <1>0, <2>1, <3>2, <4>1, <5>1 DEF SharesInv, RecordInv
        <5>3. Overtakes(s)
          BY <4>1, <4>3, <5>1, <5>2 DEF Overtakes, Recorded
        <5> QED BY <2>1, <3>2, <5>3
      <4> QED BY <4>2, <4>3
    <3> QED BY <3>1, <3>2
  <2> QED BY <2>4, <2>5, <2>6, <2>7, <2>8, <2>9, <2>10, <2>11 DEF SharesInv
<1> QED BY <1>f, <1>s

LEMMA LinkedKeeps ==
  ASSUME OldIsNoStart, SharesInv, NEW s \in Starts, Linked(s)
  PROVE  SharesInv'
<1> USE DEF OldIsNoStart
<1>0. /\ Moves(s) /\ start[s].at = "linking" /\ relay # None /\ relay.token = s
      /\ start'[s].at = "serving" /\ start'[s].kept = start[s].kept
      /\ start'[s].given = None /\ start'[s].code = start[s].code
      /\ served' = served \cup {start[s].code}
      /\ UNCHANGED <<file, relay, stop, servers, budgets, overlapped, overtaken, cutShort, orphaned, ended>>
  BY LinkedDoes DEF Linked
<1>1. start[s] \in Command /\ StartInv(s) /\ start[s].code \in Starts
  BY <1>0, Now DEF SharesInv, StartInv, Command
<1>2. Advance
  BY <1>0 DEF Advance, Moves, Late
<1>4. TypeOK'
  BY <1>0, Now, Typed DEF Moves, SharesInv, budgets
<1>5. (stop.at # "idle" => stop.rec # None)' /\ (served \subseteq Starts)'
  BY <1>0, <1>1 DEF SharesInv
<1>6. FileInv'
  BY <1>0, <1>2, FileWaits
<1>7. \A t \in Starts : StartInv(t)'
  <2>1. StartInv(s)'
    <3>1. ASSUME start[s].kept # None
          PROVE  /\ start[s].kept.server # None /\ s \notin servers
                 /\ Over(start[s].kept)' /\ Sound(start[s].kept)'
      <4>1. PICK k \in Records : k = start[s].kept
        BY <1>1, <3>1 DEF Command
      <4>2. Over(k)' /\ Sound(k)' /\ start[s].kept.server # None /\ s \notin servers
        BY <1>1, <1>2, <3>1, <4>1, RecordsLast DEF StartInv
      <4> QED BY <1>0, <4>1, <4>2 DEF Over, Sound, Written
    <3> QED BY <1>0, <1>1, <3>1 DEF StartInv, Keeping, Over, Sound, Written
  <2>2. \A t \in Starts \ {s} : StartInv(t)'
    BY <1>0, <1>2, OthersStay
  <2> QED BY <2>1, <2>2
<1>8. \A t \in Starts : OwnRecord(t)'
  <2>1. OwnRecord(s)'
    BY <1>0 DEF OwnRecord, SharesInv
  <2>2. \A t \in Starts \ {s} : OwnRecord(t)'
    BY <1>0, RecordsOfOthersStay
  <2> QED BY <2>1, <2>2
<1>9. RelayInv'
  BY <1>0 DEF RelayInv, SharesInv
<1>10. Turns'
  <2>1. CASE overlapped
    BY <1>0, <2>1 DEF Turns
  <2>2. CASE ~overlapped
    <3>1. stop.at = "idle" /\ \A t \in Starts : TurnInv(t)
      BY <1>0, <2>2, Alone DEF AtWork, Working, SharesInv, Turns
    <3>2. \A t \in Starts \ {s} : start'[t].at \notin AtWork /\ start[t].at \notin AtWork
      BY <1>0, <2>2, Alone DEF AtWork, Working, Moves
    <3>3. start[s].code # s => start[start[s].code].at \in Late
      BY <1>0, <1>1 DEF StartInv, Written
    <3>4. TurnInv(s)'
      BY <1>0, <3>1, <3>2 DEF TurnInv, AtWork, Working
    <3>5. \A t \in Starts \ {s} : TurnInv(t)'
      <4>1. ASSUME NEW t \in Starts \ {s}, t \in served' PROVE t \in served \/ start[t].at \notin {"idle"}
        BY <1>0, <3>3, <4>1 DEF Late
      <4> QED BY <1>0, <2>2, <4>1, OthersWait DEF AtWork, Working
    <3>6. Used' => file' # None /\ file'.code = relay'.code
      <4>1. SUFFICES ASSUME Used' PROVE file # None /\ file.code = relay.code
        BY <1>0
      <4>2. relay.code = start[s].code
        BY <1>0 DEF SharesInv, RelayInv
      <4> QED BY <1>0, <3>1, <4>2 DEF TurnInv, SharesInv, OwnRecord
    <3> QED BY <1>0, <3>1, <3>4, <3>5, <3>6 DEF Turns
  <2> QED BY <2>1, <2>2
<1>11. RecordInv'
  BY <1>0, RecordWaits
<1> QED BY <1>4, <1>5, <1>6, <1>7, <1>8, <1>9, <1>10, <1>11 DEF SharesInv

LEMMA LinkFailsKeeps ==
  ASSUME OldIsNoStart, SharesInv, NEW s \in Starts, LinkFails(s)
  PROVE  SharesInv'
<1> USE DEF OldIsNoStart
<1>0. /\ Moves(s) /\ start[s].at = "linking" /\ UNCHANGED <<relay, stop, budgets, ghosts>>
      /\ \/ Resumed(s) /\ Fail(s, MarkOwnGone(file, s))
         \/ /\ ~Resumed(s) /\ start'[s].at = "undoing" /\ start'[s].kept = start[s].kept
            /\ start'[s].given = start[s].given /\ start'[s].code = start[s].code
            /\ file' = file /\ servers' = servers
  BY LinkFailsDoes DEF LinkFails
<1>f. CASE Fail(s, MarkOwnGone(file, s))
  <2> DEFINE f == MarkOwnGone(file, s)
  <2>1. f \in Records \cup {None}
    BY Helpers, Now DEF Shares
  <2>2. /\ f # None => /\ file # None /\ f.token = file.token /\ f.code = file.code /\ f.server = file.server
                       /\ f.token = s => f.gone
                       /\ f.gone = file.gone \/ f.token = s
        /\ f = None => file = None \/ (file.token = s /\ start[s].at = "undoing")
    <3>1. CASE file # None /\ file.token = s
      <4>1. f = [file EXCEPT !.gone = TRUE] /\ file \in Records
        BY <3>1, Now DEF MarkOwnGone
      <4>2. f \in Records /\ f.token = file.token /\ f.code = file.code /\ f.server = file.server /\ f.gone
        BY <4>1 DEF Records
      <4>3. f # None
        BY <1>f, <4>2, NoneIsNoRecord DEF NoneIsNoRecord
      <4> QED BY <3>1, <4>2, <4>3
    <3>2. CASE ~(file # None /\ file.token = s)
      BY <3>2 DEF MarkOwnGone
    <3> QED BY <3>1, <3>2
  <2> HIDE DEF f
  <2> QED BY <1>0, <1>f, <2>1, <2>2, FailKeeps DEF Working, f
<1>s. CASE ~Fail(s, MarkOwnGone(file, s))
  <2>0. start[s] \in Command /\ StartInv(s)
    BY Now DEF SharesInv
  <2>1. /\ ~Resumed(s) /\ start'[s].at = "undoing" /\ start'[s].kept = start[s].kept
        /\ start'[s].given = start[s].given /\ start'[s].code = start[s].code
        /\ file' = file /\ servers' = servers
    BY <1>0, <1>s
  <2>2. start[s].code = s
    BY <1>0, <2>0, <2>1 DEF StartInv, Resumed
  <2>3. Advance
    BY <1>0, <2>1 DEF Advance, Moves, Late
  <2>4. TypeOK'
    BY <1>0, <2>1, Now, Typed DEF Moves, SharesInv, budgets, ghosts
  <2>5. (stop.at # "idle" => stop.rec # None)' /\ (served \subseteq Starts)'
    BY <1>0 DEF SharesInv, ghosts
  <2>6. FileInv'
    BY <1>0, <2>1, <2>3, FileWaits
  <2>7. \A t \in Starts : StartInv(t)'
    <3>1. StartInv(s)'
      <4>1. ASSUME start[s].kept # None
            PROVE  /\ start[s].kept.server # None /\ s \notin servers
                   /\ Over(start[s].kept)' /\ Sound(start[s].kept)'
        <5>1. PICK k \in Records : k = start[s].kept
          BY <2>0, <4>1 DEF Command
        <5>2. Over(k)' /\ Sound(k)' /\ start[s].kept.server # None /\ s \notin servers
          BY <2>0, <2>3, <4>1, <5>1, RecordsLast DEF StartInv
        <5> QED BY <2>1, <5>1, <5>2 DEF Over, Sound, Written
      <4>2. start'[s].given # None => Written(start[s].given)'
        BY <2>0, <2>1, <2>3 DEF StartInv, Written, Advance, Command
      <4> QED BY <1>0, <2>0, <2>1, <2>2, <4>1, <4>2 DEF StartInv, Keeping, Over, Sound, Written
    <3>2. \A t \in Starts \ {s} : StartInv(t)'
      BY <1>0, <2>1, <2>3, OthersStay
    <3> QED BY <3>1, <3>2
  <2>8. \A t \in Starts : OwnRecord(t)'
    <3>1. OwnRecord(s)'
      BY <1>0, <2>1 DEF OwnRecord, SharesInv
    <3>2. \A t \in Starts \ {s} : OwnRecord(t)'
      BY <1>0, <2>1, RecordsOfOthersStay
    <3> QED BY <3>1, <3>2
  <2>9. RelayInv'
    BY <1>0, <2>1, Now DEF RelayInv, SharesInv, Moves, Shares
  <2>10. Turns'
    <3>1. CASE overlapped
      BY <1>0, <3>1 DEF Turns, ghosts
    <3>2. CASE ~overlapped
      <4>1. stop.at = "idle" /\ \A t \in Starts : TurnInv(t)
        BY <1>0, <3>2, Alone DEF AtWork, Working, SharesInv, Turns
      <4>2. \A t \in Starts \ {s} : start'[t].at \notin AtWork
        BY <1>0, <3>2, Alone DEF AtWork, Working, Moves
      <4>3. TurnInv(s)'
        BY <1>0, <2>1, <4>1, <4>2 DEF TurnInv, AtWork, Working, ghosts
      <4>4. \A t \in Starts \ {s} : TurnInv(t)'
        BY <1>0, <3>2, OthersWait DEF AtWork, Working, ghosts
      <4>5. Used' => file' # None /\ file'.code = relay'.code
        BY <1>0, <2>1, <3>2 DEF Used, SharesInv, Turns, ghosts
      <4> QED BY <1>0, <4>1, <4>3, <4>4, <4>5 DEF Turns
    <3> QED BY <3>1, <3>2
  <2>11. RecordInv'
    BY <1>0, <2>1, RecordWaits DEF ghosts
  <2> QED BY <2>4, <2>5, <2>6, <2>7, <2>8, <2>9, <2>10, <2>11 DEF SharesInv
<1> QED BY <1>f, <1>s

LEMMA UndoneKeeps ==
  ASSUME OldIsNoStart, SharesInv, NEW s \in Starts, Undone(s)
  PROVE  SharesInv'
<1>1. ClearOwn(file, s) \in Records \cup {None}
  BY Now DEF ClearOwn
<1>2. /\ ClearOwn(file, s) # None => file # None /\ ClearOwn(file, s) = file /\ file.token # s
      /\ ClearOwn(file, s) = None => file = None \/ file.token = s
  BY DEF ClearOwn
<1> QED BY <1>1, <1>2, FailKeeps DEF Undone, Working

LEMMA CloseKeeps ==
  ASSUME OldIsNoStart, SharesInv, NEW s \in Starts, Close(s)
  PROVE  SharesInv'
<1> USE DEF OldIsNoStart
<1>0. /\ Moves(s) /\ start[s].at = "serving" /\ UNCHANGED <<file, relay, stop, budgets, ghosts>>
      /\ start'[s].at = "closing" /\ start'[s].kept = None
      /\ start'[s].given = start[s].given /\ start'[s].code = start[s].code
      /\ servers' = servers \ Held(s)
  BY CloseDoes DEF Close
<1>1. start[s] \in Command /\ StartInv(s)
  BY Now DEF SharesInv
<1>2. Advance
  BY <1>0 DEF Advance, Moves, Late
<1>3. s \notin servers'
  BY <1>0 DEF Held
<1>4. TypeOK'
  BY <1>0, Now, Typed DEF Moves, SharesInv, budgets, ghosts
<1>5. (stop.at # "idle" => stop.rec # None)' /\ (served \subseteq Starts)'
  BY <1>0 DEF SharesInv, ghosts
<1>6. FileInv'
  BY <1>0, <1>2, FileWaits
<1>7. \A t \in Starts : StartInv(t)'
  <2>1. StartInv(s)'
    <3>1. start'[s].given # None => Written(start[s].given)'
      BY <1>0, <1>1, <1>2 DEF StartInv, Written, Advance, Command
    <3> QED BY <1>0, <1>1, <1>3, <3>1 DEF StartInv, Written
  <2>2. \A t \in Starts \ {s} : StartInv(t)'
    BY <1>0, <1>2, OthersStay
  <2> QED BY <2>1, <2>2
<1>8. \A t \in Starts : OwnRecord(t)'
  <2>1. OwnRecord(s)'
    <3>1. None \notin servers
      BY Now DEF Shares
    <3> QED BY <1>0, <3>1 DEF OwnRecord, SharesInv, Held
  <2>2. \A t \in Starts \ {s} : OwnRecord(t)'
    BY <1>0, RecordsOfOthersStay
  <2> QED BY <2>1, <2>2
<1>9. RelayInv'
  BY <1>0, Now DEF RelayInv, SharesInv, Moves, Shares
<1>10. Turns'
  <2>1. CASE overlapped
    BY <1>0, <2>1 DEF Turns, ghosts
  <2>2. CASE ~overlapped
    <3>1. TurnInv(s)'
      BY <1>0 DEF TurnInv, AtWork, Working
    <3>2. \A t \in Starts \ {s} : TurnInv(t)'
      BY <1>0, <2>2, OthersWait DEF AtWork, ghosts
    <3> QED BY <1>0, <2>2, <3>1, <3>2 DEF Turns, SharesInv, Used, ghosts
  <2> QED BY <2>1, <2>2
<1>11. RecordInv'
  BY <1>0, RecordWaits DEF ghosts
<1> QED BY <1>4, <1>5, <1>6, <1>7, <1>8, <1>9, <1>10, <1>11 DEF SharesInv

LEMMA ClosedKeeps ==
  ASSUME OldIsNoStart, SharesInv, NEW s \in Starts, Closed(s)
  PROVE  SharesInv'
<1> USE DEF OldIsNoStart
<1>0. /\ Moves(s) /\ start[s].at = "closing" /\ start'[s].at = "gone"
      /\ start'[s].kept = None /\ start'[s].given = None
      /\ relay' \in {relay, None} /\ file' = ClearOwn(file, s)
      /\ relay' = relay \/ relay.token = s
      /\ ended' = ended \cup {start[s].code}
      /\ UNCHANGED <<stop, servers, budgets, overlapped, overtaken, cutShort, orphaned, served>>
  <2>1. start' = [start EXCEPT ![s] = Outside("gone")]
    BY DEF Closed
  <2>2. Moves(s) /\ start'[s] = Outside("gone")
    BY <2>1, EndsDo
  <2> QED BY <2>2 DEF Closed, Deleted, Outside
<1>1. file' = file \/ (file' = None /\ file # None /\ file.token = s)
  BY <1>0 DEF ClearOwn
<1>2. Advance
  BY <1>0 DEF Advance, Moves, Late
<1>4. TypeOK'
  <2>1. file' \in Records \cup {None} /\ relay' \in [token : Shares, code : Shares] \cup {None}
    BY <1>0, <1>1, Now
  <2> QED BY <1>0, <2>1, Now, Typed DEF Moves, SharesInv, budgets
<1>5. (stop.at # "idle" => stop.rec # None)' /\ (served \subseteq Starts)'
  BY <1>0 DEF SharesInv
<1>6. FileInv'
  <2>1. CASE file' = file
    BY <1>0, <1>2, <2>1, FileWaits
  <2>2. CASE file' = None
    BY <2>2 DEF FileInv
  <2> QED BY <1>1, <2>1, <2>2
<1>7. \A t \in Starts : StartInv(t)'
  <2>1. StartInv(s)'
    BY <1>0 DEF StartInv
  <2>2. \A t \in Starts \ {s} : StartInv(t)'
    BY <1>0, <1>2, OthersStay
  <2> QED BY <2>1, <2>2
<1>8. \A t \in Starts : OwnRecord(t)'
  <2>1. OwnRecord(s)'
    BY <1>0 DEF OwnRecord
  <2>2. \A t \in Starts \ {s} : OwnRecord(t)'
    BY <1>0, <1>1, RecordsOfOthersStay
  <2> QED BY <2>1, <2>2
<1>9. RelayInv'
  BY <1>0, Now DEF RelayInv, SharesInv, Moves, Shares
<1>10. Turns'
  <2>1. CASE overlapped
    BY <1>0, <2>1 DEF Turns
  <2>2. CASE ~overlapped
    <3>1. /\ stop.at # "idle" => stop.rec # None /\ file \in {None, stop.rec}
          /\ \A t \in Starts : TurnInv(t)
          /\ Used => file # None /\ file.code = relay.code
      BY <2>2 DEF SharesInv, Turns
    <3>2. TurnInv(s)'
      BY <1>0 DEF TurnInv, AtWork, Working
    <3>3. Used' => Used /\ relay' = relay /\ relay.code # start[s].code
      BY <1>0 DEF Used
    <3>4. \A t \in Starts \ {s} : TurnInv(t)'
      <4>1. SUFFICES ASSUME NEW t \in Starts \ {s} PROVE TurnInv(t)'
        OBVIOUS
      <4>2. start'[t] = start[t] /\ TurnInv(t) /\ start'[s].at \notin AtWork
        BY <1>0, <3>1 DEF Moves, AtWork, Working
      <4>3. \A u \in Starts : start'[u].at \in AtWork => start[u].at \in AtWork
        BY <1>0 DEF Moves, AtWork, Working
      <4> QED BY <1>0, <1>1, <3>3, <4>2, <4>3 DEF TurnInv
    <3>5. Used' => file' # None /\ file'.code = relay'.code
      <4>1. SUFFICES ASSUME Used' PROVE file' # None /\ file'.code = relay'.code
        OBVIOUS
      <4>2. file # None /\ file.code = relay.code /\ relay.code # start[s].code /\ relay' = relay
        BY <3>1, <3>3, <4>1
      <4>3. file.token # s
        BY <1>0, <4>2 DEF SharesInv, OwnRecord
      <4> QED BY <1>1, <4>2, <4>3
    <3> QED BY <1>0, <1>1, <3>1, <3>2, <3>4, <3>5 DEF Turns
  <2> QED BY <2>1, <2>2
<1>11. RecordInv'
  <2>1. CASE overtaken \/ cutShort
    BY <1>0, <2>1 DEF RecordInv
  <2>2. CASE ~(overtaken \/ cutShort)
    <3>1. SUFFICES ASSUME NEW t \in Starts, start'[t].at \in {"linking", "serving"}, relay' # None, relay'.token = t
                   PROVE  Recorded(t)'
      BY <1>0, <2>2 DEF RecordInv
    <3>2. t # s /\ start'[t] = start[t] /\ relay' = relay
      BY <1>0, <3>1 DEF Moves
    <3>3. Recorded(t)
      BY <2>2, <3>1, <3>2 DEF SharesInv, RecordInv
    <3> QED BY <1>1, <3>2, <3>3 DEF Recorded
  <2> QED BY <2>1, <2>2
<1> QED BY <1>4, <1>5, <1>6, <1>7, <1>8, <1>9, <1>10, <1>11 DEF SharesInv

LEMMA KillKeeps ==
  ASSUME OldIsNoStart, BoundsAreNumbers, SharesInv, NEW s \in Starts, Kill(s)
  PROVE  SharesInv'
<1> USE DEF OldIsNoStart
<1>0. /\ Moves(s) /\ start[s].at # "idle" /\ start'[s].at = "gone"
      /\ start'[s].kept = None /\ start'[s].given = None
      /\ UNCHANGED <<file, relay, stop, servers, stops, overlapped, overtaken, cutShort, served, ended>>
  <2>1. start' = [start EXCEPT ![s] = Outside("gone")]
    BY DEF Kill
  <2>2. Moves(s) /\ start'[s] = Outside("gone")
    BY <2>1, EndsDo
  <2> QED BY <2>2 DEF Kill, Outside, Alive
<1>1. kills' \in 0..MaxKills
  BY Now DEF Kill, BoundsAreNumbers
<1>2. Advance
  BY <1>0 DEF Advance, Moves, Late
<1>3. orphaned' \subseteq Shares
  <2>1. start[s] \in Command
    BY Now
  <2>2. start[s].kept # None => StartInv(s) /\ start[s].kept.server \in Shares
    BY <2>1 DEF SharesInv, StartInv, Command, Records
  <2> QED BY <2>2, Now DEF Kill, Held, Shares
<1>4. TypeOK'
  BY <1>0, <1>1, <1>3, Now, Typed DEF Moves, SharesInv
<1>5. (stop.at # "idle" => stop.rec # None)' /\ (served \subseteq Starts)'
  BY <1>0 DEF SharesInv
<1>6. FileInv'
  BY <1>0, <1>2, FileWaits
<1>7. \A t \in Starts : StartInv(t)'
  <2>1. StartInv(s)'
    BY <1>0 DEF StartInv
  <2>2. \A t \in Starts \ {s} : StartInv(t)'
    BY <1>0, <1>2, OthersStay
  <2> QED BY <2>1, <2>2
<1>8. \A t \in Starts : OwnRecord(t)'
  <2>1. OwnRecord(s)'
    BY <1>0 DEF OwnRecord
  <2>2. \A t \in Starts \ {s} : OwnRecord(t)'
    BY <1>0, RecordsOfOthersStay
  <2> QED BY <2>1, <2>2
<1>9. RelayInv'
  BY <1>0, Now DEF RelayInv, SharesInv, Moves, Shares
<1>10. Turns'
  <2>1. CASE overlapped
    BY <1>0, <2>1 DEF Turns
  <2>2. CASE ~overlapped
    <3>1. /\ stop.at # "idle" => stop.rec # None /\ file \in {None, stop.rec}
          /\ \A t \in Starts : TurnInv(t)
          /\ Used => file # None /\ file.code = relay.code
      BY <2>2 DEF SharesInv, Turns
    <3>2. TurnInv(s)'
      BY <1>0 DEF TurnInv, AtWork, Working
    <3>3. \A t \in Starts \ {s} : TurnInv(t)'
      <4>1. SUFFICES ASSUME NEW t \in Starts \ {s} PROVE TurnInv(t)'
        OBVIOUS
      <4>2. start'[t] = start[t] /\ TurnInv(t) /\ start'[s].at \notin AtWork
        BY <1>0, <3>1 DEF Moves, AtWork, Working
      <4>3. \A u \in Starts : start'[u].at \in AtWork => start[u].at \in AtWork
        BY <1>0 DEF Moves, AtWork, Working
      <4> QED BY <1>0, <4>2, <4>3 DEF TurnInv, Used
    <3> QED BY <1>0, <3>1, <3>2, <3>3 DEF Turns, Used
  <2> QED BY <2>1, <2>2
<1>11. RecordInv'
  BY <1>0, RecordWaits
<1> QED BY <1>4, <1>5, <1>6, <1>7, <1>8, <1>9, <1>10, <1>11 DEF SharesInv

LEMMA RelayDropsKeeps ==
  ASSUME OldIsNoStart, SharesInv, RelayDrops
  PROVE  SharesInv'
<1>0. relay' = None /\ UNCHANGED <<file, start, stop, servers, budgets, ghosts>>
  BY DEF RelayDrops
<1>1. TypeOK'
  BY <1>0, Now, Typed DEF SharesInv, budgets, ghosts
<1>2. FileInv' /\ (\A t \in Starts : StartInv(t)') /\ (\A t \in Starts : OwnRecord(t)')
  BY <1>0 DEF SharesInv, FileInv, StartInv, OwnRecord, Over, Sound, Written
<1>3. RelayInv' /\ RecordInv'
  BY <1>0 DEF RelayInv, RecordInv
<1>4. Turns'
  BY <1>0 DEF SharesInv, Turns, TurnInv, Used, ghosts
<1>5. (stop.at # "idle" => stop.rec # None)' /\ (served \subseteq Starts)'
  BY <1>0 DEF SharesInv, ghosts
<1> QED BY <1>1, <1>2, <1>3, <1>4, <1>5 DEF SharesInv

LEMMA StopBeginsKeeps ==
  ASSUME OldIsNoStart, BoundsAreNumbers, SharesInv, StopBegins
  PROVE  SharesInv'
<1>0. /\ stop' = [at |-> "asked", rec |-> file] /\ file # None
      /\ overlapped' = (overlapped \/ Busy)
      /\ UNCHANGED <<file, relay, start, servers, kills, overtaken, cutShort, orphaned, served, ended>>
  BY DEF StopBegins
<1>1. TypeOK'
  <2>1. stops' \in 0..MaxStops
    BY Now DEF StopBegins, BoundsAreNumbers
  <2>2. stop' \in [at : {"idle", "asked", "told"}, rec : Records \cup {None}]
    BY <1>0, Now
  <2> QED BY <1>0, <2>1, <2>2, Now, Typed DEF SharesInv
<1>2. FileInv' /\ (\A t \in Starts : StartInv(t)') /\ (\A t \in Starts : OwnRecord(t)')
  BY <1>0 DEF SharesInv, FileInv, StartInv, OwnRecord, Over, Sound, Written
<1>3. RelayInv' /\ RecordInv'
  BY <1>0 DEF SharesInv, RelayInv, RecordInv, Recorded
<1>4. Turns'
  <2>1. CASE overlapped'
    BY <2>1 DEF Turns
  <2>2. CASE ~overlapped'
    <3>1. ~overlapped /\ (\A t \in Starts : start[t].at \notin Working)
      BY <1>0, <2>2 DEF Busy
    <3>2. (\A t \in Starts : TurnInv(t)) /\ (Used => file # None /\ file.code = relay.code)
      BY <3>1 DEF SharesInv, Turns
    <3>3. ASSUME NEW t \in Starts PROVE TurnInv(t)'
      BY <1>0, <3>1, <3>2 DEF TurnInv, Used
    <3> QED BY <1>0, <3>2, <3>3 DEF Turns, Used
  <2> QED BY <2>1, <2>2
<1>5. (stop.at # "idle" => stop.rec # None)' /\ (served \subseteq Starts)'
  BY <1>0 DEF SharesInv
<1> QED BY <1>1, <1>2, <1>3, <1>4, <1>5 DEF SharesInv

LEMMA StopToldKeeps ==
  ASSUME OldIsNoStart, SharesInv, StopTold
  PROVE  SharesInv'
<1>0. /\ stop.at = "asked" /\ stop'.at = "told" /\ stop'.rec = stop.rec
      /\ stop' \in [at : {"idle", "asked", "told"}, rec : Records \cup {None}]
      /\ relay' \in {relay, None}
      /\ UNCHANGED <<file, start, servers, budgets, ghosts>>
  BY Now DEF StopTold, Deleted
<1>1. TypeOK'
  BY <1>0, Now, Typed DEF SharesInv, budgets, ghosts
<1>2. FileInv' /\ (\A t \in Starts : StartInv(t)') /\ (\A t \in Starts : OwnRecord(t)')
  BY <1>0 DEF SharesInv, FileInv, StartInv, OwnRecord, Over, Sound, Written
<1>3. RelayInv' /\ RecordInv'
  BY <1>0 DEF SharesInv, RelayInv, RecordInv, Recorded, ghosts
<1>4. Turns'
  BY <1>0 DEF SharesInv, Turns, TurnInv, Used, ghosts
<1>5. (stop.at # "idle" => stop.rec # None)' /\ (served \subseteq Starts)'
  BY <1>0 DEF SharesInv, ghosts
<1> QED BY <1>1, <1>2, <1>3, <1>4, <1>5 DEF SharesInv

LEMMA StopEndsKeeps ==
  ASSUME OldIsNoStart, NoneIsNoRecord, SharesInv, StopEnds
  PROVE  SharesInv'
<1> USE DEF OldIsNoStart
<1>r. PICK r \in Records : r = stop.rec
  BY StopEndsDoes
<1>b. PICK b \in Shares : b = r.token
  BY DEF Records
<1>0. /\ stop.at = "told" /\ r = stop.rec /\ r.token = b
      /\ \/ start' = start /\ ~Alive(b) /\ servers' \subseteq servers
         \/ /\ b \in Starts /\ Moves(b) /\ Alive(b)
            /\ \/ /\ start[b].at \in {"serving", "closing"}
                  /\ start'[b].at = "closing" /\ start'[b].kept = None
                  /\ start'[b].given = start[b].given /\ start'[b].code = start[b].code
                  /\ servers' = servers \ ({r.server} \cup IF start[b].at = "serving" THEN Held(b) ELSE {})
               \/ /\ start[b].at \notin {"serving", "closing"}
                  /\ start'[b].at = "gone" /\ start'[b].kept = None /\ start'[b].given = None
                  /\ servers' = servers \ {r.server}
  BY <1>r, <1>b, StopEndsDoes DEF Outside
<1>1. /\ file' = None /\ stop' = [at |-> "idle", rec |-> None]
      /\ cutShort' = (cutShort \/ (file # None /\ file.token # b))
      /\ ended' = (IF r.code = None THEN ended ELSE ended \cup {r.code})
      /\ UNCHANGED <<relay, budgets, overlapped, overtaken, orphaned, served>>
  BY <1>r, <1>b DEF StopEnds
<1>2. servers' \subseteq servers
  BY <1>0
<1>3. Advance /\ start' \in [Starts -> Command]
  BY <1>0, Now DEF Advance, Moves, Late, Alive
<1>4. TypeOK'
  BY <1>1, <1>2, <1>3, Now, Typed DEF SharesInv, budgets
<1>5. (stop.at # "idle" => stop.rec # None)' /\ (served \subseteq Starts)' /\ FileInv'
      /\ \A t \in Starts : OwnRecord(t)'
  BY <1>1 DEF SharesInv, FileInv, OwnRecord
<1>7. \A t \in Starts : StartInv(t)'
  <2>1. CASE start' = start
    <3>1. SUFFICES ASSUME NEW t \in Starts PROVE StartInv(t)'
      OBVIOUS
    <3>2. StartInv(t) /\ (t \in servers' => t \in servers)
      BY <1>2 DEF SharesInv
    <3> QED BY <2>1, <3>2 DEF StartInv, Over, Sound, Written
  <2>2. CASE b \in Starts /\ Moves(b) /\ start' # start
    <3>1. StartInv(b)'
      <4>1. StartInv(b) /\ start[b] \in Command
        BY <2>2, Now DEF SharesInv
      <4>2. start'[b].given # None => Written(start[b].given)'
        BY <1>0, <1>3, <2>2, <4>1 DEF StartInv, Written, Advance, Command
      <4>3. start'[b].at = "closing" => b \notin servers' /\ start'[b].code # None
        BY <1>0, <1>2, <2>2, <4>1 DEF StartInv, Held
      <4> QED BY <1>0, <2>2, <4>2, <4>3 DEF StartInv, Written
    <3>2. \A t \in Starts \ {b} : StartInv(t)'
      BY <1>2, <1>3, <2>2, OthersStay
    <3> QED BY <3>1, <3>2
  <2> QED BY <1>0, <2>1, <2>2
<1>9. RelayInv'
  BY <1>0, <1>1, Now DEF RelayInv, SharesInv, Moves, Shares
<1>10. Turns'
  <2>1. CASE overlapped
    BY <1>1, <2>1 DEF Turns
  <2>2. CASE ~overlapped
    <3>1. /\ file \in {None, r} /\ (\A t \in Starts : TurnInv(t))
          /\ Used => file # None /\ file.code = relay.code
      BY <1>0, <2>2 DEF SharesInv, Turns
    <3>2. ~Used'
      <4>1. SUFFICES ASSUME Used' PROVE FALSE
        OBVIOUS
      <4>2. Used /\ relay.code \notin ended' /\ relay.code \in Starts
        BY <1>1, <4>1 DEF Used, SharesInv
      <4>3. r.code = relay.code /\ r.code # None
        BY <3>1, <4>2
      <4> QED BY <1>1, <4>2, <4>3
    <3>3. ASSUME NEW t \in Starts
          PROVE  /\ start'[t].at \notin AtWork
                 /\ t \in served => start'[t].at \in {"serving", "closing", "lingering", "gone"}
      <4>1. start[t].at \notin Working /\ TurnInv(t)
        BY <1>0, <3>1 DEF TurnInv
      <4>2. start[t].at = "serving" => t = b /\ Alive(t)
        BY <1>0, <3>1, <4>1 DEF TurnInv, Alive
      <4> QED BY <1>0, <4>1, <4>2 DEF AtWork, Working, TurnInv, Moves
    <3>4. \A t \in Starts : TurnInv(t)'
      BY <1>1, <3>2, <3>3 DEF TurnInv, AtWork, Working
    <3> QED BY <1>1, <3>2, <3>4 DEF Turns
  <2> QED BY <2>1, <2>2
<1>11. RecordInv'
  <2>1. SUFFICES ASSUME ~(overtaken \/ cutShort'), NEW t \in Starts, start'[t].at \in {"linking", "serving"},
                        relay # None, relay.token = t
                 PROVE  FALSE
    BY <1>1 DEF RecordInv
  <2>2. t # b \/ start' = start
    BY <1>0, <2>1
  <2>3. start[t].at \in {"linking", "serving"} /\ t # b
    BY <1>0, <2>1, <2>2 DEF Moves, Alive
  <2>4. file # None /\ file.token = t
    BY <1>1, <2>1, <2>3 DEF SharesInv, RecordInv, Recorded
  <2> QED BY <1>1, <2>1, <2>3, <2>4
<1> QED BY <1>4, <1>5, <1>7, <1>9, <1>10, <1>11 DEF SharesInv

---------------------------------------------------------------------------
(* The servers *)

\* A server is known by the record, or held by a process that has work to do or a share.
Out == {"idle", "lingering", "gone"}
Known(v) == \/ file # None /\ file.server = v
            \/ \E s \in Starts : start[s].at \notin Out /\ v \in Held(s)

\* A server stays known while s moves, if those it was known by for s or the file are.
LEMMA KnownStays ==
  ASSUME SharesInv, ServersAreKnown, NEW s \in Starts, Moves(s), overlapped => overlapped',
         orphaned \subseteq orphaned', servers' \subseteq servers \cup {s},
         s \in servers' \ servers => start'[s].at \notin Out,
         ~overlapped' /\ file # None /\ file.server \in servers' =>
           \/ file' # None /\ file'.server = file.server
           \/ start'[s].at \notin Out /\ start'[s].kept # None /\ start'[s].kept.server = file.server,
         ~overlapped' /\ start[s].at \notin Out => \A v \in Held(s) \cap servers' :
           \/ v \in orphaned'
           \/ file' # None /\ file'.server = v
           \/ start'[s].at \notin Out /\ (v = s \/ (start'[s].kept # None /\ start'[s].kept.server = v))
  PROVE  ServersAreKnown'
<1>1. SUFFICES ASSUME ~overlapped', NEW v \in servers' \ orphaned'
               PROVE  \/ file' # None /\ file'.server = v
                      \/ \E t \in Starts : start'[t].at \notin Out /\ v \in Held(t)'
  BY DEF ServersAreKnown, Out
<1>2. ASSUME v = s \/ (start'[s].kept # None /\ start'[s].kept.server = v)
      PROVE  v \in Held(s)'
  BY <1>2 DEF Held
<1>3. CASE v \notin servers
  BY <1>1, <1>2, <1>3
<1>4. CASE v \in servers /\ file # None /\ file.server = v
  BY <1>1, <1>2, <1>4
<1>5. CASE \E t \in Starts : start[t].at \notin Out /\ v \in Held(t)
  <2>1. PICK t \in Starts : start[t].at \notin Out /\ v \in Held(t)
    BY <1>5
  <2>2. CASE t = s
    BY <1>1, <1>2, <2>1, <2>2
  <2>3. CASE t # s
    BY <2>1, <2>3 DEF Moves, Held
  <2> QED BY <2>2, <2>3
<1> QED BY <1>1, <1>3, <1>4, <1>5 DEF ServersAreKnown, Out

LEMMA FailKnows ==
  ASSUME OldIsNoStart, SharesInv, ServersAreKnown, NEW s \in Starts, start[s].at \in Working,
         NEW f \in Records \cup {None}, Fail(s, f),
         f # None => file # None /\ f.server = file.server,
         f = None => file = None \/ (file.token = s /\ start[s].at = "undoing"),
         UNCHANGED ghosts
  PROVE  ServersAreKnown'
<1>0. /\ Moves(s) /\ start'[s].at \in Out /\ file' = PutBack(s, f) /\ servers' = servers \ {s}
  BY FailDoes DEF Outside, Out
<1>1. StartInv(s) /\ OwnRecord(s) /\ None \notin servers
  BY Now DEF SharesInv, Shares, OldIsNoStart
<1>2. ~overlapped => TurnInv(s)
  BY DEF SharesInv, Turns
<1>3. file # None /\ file.server \in servers' => file' # None /\ file'.server = file.server
  BY <1>0, <1>1 DEF PutBack, OwnRecord
<1>4. ASSUME ~overlapped, NEW v \in Held(s) \cap servers'
      PROVE  file' # None /\ file'.server = v
  <2>1. start[s].kept # None /\ v = start[s].kept.server
    BY <1>0, <1>4 DEF Held
  <2>2. start[s].at \in {"ready", "asked", "answered", "linking", "undoing"}
    BY <1>1, <2>1 DEF StartInv, Keeping, Working
  <2>3. file # None => file.server = v
    BY <1>1, <1>2, <1>4, <2>1, <2>2 DEF OwnRecord, TurnInv
  <2> QED BY <1>0, <2>1, <2>3 DEF PutBack
<1> QED BY <1>0, <1>3, <1>4, KnownStays DEF ghosts

LEMMA StartKnows ==
  ASSUME OldIsNoStart, SharesInv, ServersAreKnown, NEW s \in Starts,
         \/ Begin(s) \/ Settled(s) \/ Ask(s) \/ Register(s) \/ Answered(s) \/ Linked(s) \/ LinkFails(s)
  PROVE  ServersAreKnown'
<1> USE DEF OldIsNoStart
<1>0. /\ StartInv(s) /\ OwnRecord(s) /\ None \notin servers
      /\ ~overlapped => TurnInv(s)
      /\ file # None => /\ file \in Records /\ Sound(file)
                        /\ file.token = s => start[s].at \in Late
                        /\ file.server = s => start[s].at \in Late
  BY Now DEF SharesInv, Turns, FileInv, Sound, Written, Shares
<1>f. ASSUME start[s].at \in Working \ Late, Fail(s, file), UNCHANGED ghosts
      PROVE  ServersAreKnown'
  BY <1>0, <1>f, Now, FailKnows
<1>1. CASE Begin(s)
  <2>1. /\ Moves(s) /\ start[s].at \in Out /\ file' = file /\ orphaned' = orphaned
        /\ overlapped => overlapped'
        /\ servers' \subseteq servers
    BY <1>1, BeginDoes DEF Begin, Out
  <2> QED BY <2>1, KnownStays
<1>2. CASE Settled(s)
  <2>1. CASE Fail(s, file)
    BY <1>2, <1>f, <2>1 DEF Settled, Working, Late
  <2>2. CASE ~Fail(s, file)
    <3>1. /\ Moves(s) /\ start[s].at = "settling" /\ start'[s].at = "ready" /\ UNCHANGED ghosts
          /\ file' = ClearOwn(file, start[s].earlier.token)
          /\ \/ servers' = servers \ {start[s].earlier.server}
             \/ /\ start'[s].kept = start[s].earlier /\ start[s].earlier # None /\ servers' = servers
      BY <1>0, <1>2, <2>2, SettledDoes DEF Settled, StartInv
    <3>2. \A v \in Held(s) \cap servers' : FALSE
      BY <1>0, <3>1 DEF Held, StartInv, Keeping
    <3>3. ~overlapped => file \in {None, start[s].earlier}
      BY <1>0, <3>1 DEF TurnInv
    <3> QED BY <3>1, <3>2, <3>3, KnownStays DEF ghosts, Out, ClearOwn
  <2> QED BY <2>1, <2>2
<1>3. CASE Ask(s)
  <2>1. CASE Fail(s, file)
    BY <1>3, <1>f, <2>1 DEF Ask, Working, Late
  <2>2. CASE ~Fail(s, file)
    <3>1. /\ Moves(s) /\ start'[s].at = "asked" /\ start'[s].kept = start[s].kept /\ UNCHANGED ghosts
          /\ file' = file /\ servers' \subseteq servers \cup {s}
      BY <1>3, <2>2, AskDoes DEF Ask
    <3> QED BY <3>1, KnownStays DEF ghosts, Out, Held
  <2> QED BY <2>1, <2>2
<1>4. CASE Register(s)
  <2>1. CASE Fail(s, file)
    BY <1>4, <1>f, <2>1 DEF Register, Working, Late
  <2>2. CASE ~Fail(s, file)
    <3>1. /\ Moves(s) /\ start'[s].at = "answered" /\ start'[s].kept = start[s].kept /\ UNCHANGED ghosts
          /\ file' = file /\ servers' = servers
      BY <1>4, <2>2, RegisterDoes DEF Register
    <3> QED BY <3>1, KnownStays DEF ghosts, Out, Held
  <2> QED BY <2>1, <2>2
<1>5. CASE Answered(s)
  <2>0. UNCHANGED <<overlapped, cutShort, orphaned, served, ended>>
    BY <1>5 DEF Answered
  <2>1. CASE Fail(s, file) /\ overtaken' = overtaken
    BY <1>5, <1>f, <2>0, <2>1, AnsweredDoes DEF Working, Late, ghosts
  <2>2. CASE ~(Fail(s, file) /\ overtaken' = overtaken)
    <3>1. /\ Moves(s) /\ start[s].at = "answered" /\ start'[s].at = "linking"
          /\ start'[s].kept = start[s].kept /\ servers' = servers
      BY <1>5, <2>2, AnsweredDoes
    <3>2. ~overlapped /\ file # None /\ file.server \in servers
            => start[s].kept # None /\ start[s].kept.server = file.server
      BY <1>0, <3>1 DEF TurnInv
    <3> QED BY <2>0, <3>1, <3>2, KnownStays DEF Out, Held
  <2> QED BY <2>1, <2>2
<1>6. CASE Linked(s)
  <2>1. /\ Moves(s) /\ start'[s].at = "serving" /\ start'[s].kept = start[s].kept
        /\ UNCHANGED <<file, servers, overlapped, orphaned>>
    BY <1>6, LinkedDoes DEF Linked
  <2> QED BY <2>1, KnownStays DEF Out, Held
<1>7. CASE LinkFails(s)
  <2>1. CASE Fail(s, MarkOwnGone(file, s))
    <3> DEFINE f == MarkOwnGone(file, s)
    <3>1. f \in Records \cup {None}
      BY Helpers, Now DEF Shares
    <3>2. (f # None => file # None /\ f.server = file.server) /\ (f = None => file = None)
      <4>1. CASE file # None /\ file.token = s
        <5>1. f = [file EXCEPT !.gone = TRUE] /\ file \in Records
          BY <4>1, Now DEF MarkOwnGone
        <5>2. f \in Records /\ f.server = file.server
          BY <5>1 DEF Records
        <5> QED BY <4>1, <5>2, NoneIsNoRecord DEF NoneIsNoRecord
      <4>2. CASE ~(file # None /\ file.token = s)
        BY <4>2 DEF MarkOwnGone
      <4> QED BY <4>1, <4>2
    <3>3. start[s].at \in Working /\ UNCHANGED ghosts
      BY <1>7 DEF LinkFails, Working
    <3> HIDE DEF f
    <3> QED BY <2>1, <3>1, <3>2, <3>3, FailKnows DEF f
  <2>2. CASE ~Fail(s, MarkOwnGone(file, s))
    <3>1. /\ Moves(s) /\ start'[s].at = "undoing" /\ start'[s].kept = start[s].kept /\ UNCHANGED ghosts
          /\ file' = file /\ servers' = servers
      BY <1>7, <2>2, LinkFailsDoes DEF LinkFails
    <3> QED BY <3>1, KnownStays DEF ghosts, Out, Held
  <2> QED BY <2>1, <2>2
<1> QED BY <1>1, <1>2, <1>3, <1>4, <1>5, <1>6, <1>7

LEMMA EndKnows ==
  ASSUME OldIsNoStart, SharesInv, ServersAreKnown, NEW s \in Starts,
         \/ Undone(s) \/ Close(s) \/ Closed(s) \/ Kill(s)
  PROVE  ServersAreKnown'
<1> USE DEF OldIsNoStart
<1>0. /\ StartInv(s) /\ OwnRecord(s) /\ None \notin servers
      /\ ~overlapped => TurnInv(s)
  BY Now DEF SharesInv, Turns, Shares
<1>1. CASE Undone(s)
  <2>1. /\ ClearOwn(file, s) \in Records \cup {None} /\ Fail(s, ClearOwn(file, s))
        /\ start[s].at = "undoing" /\ UNCHANGED ghosts
    BY <1>1, Now DEF Undone, ClearOwn
  <2>2. /\ ClearOwn(file, s) # None => file # None /\ ClearOwn(file, s) = file
        /\ ClearOwn(file, s) = None => file = None \/ file.token = s
    BY DEF ClearOwn
  <2> QED BY <2>1, <2>2, FailKnows DEF Working
<1>2. CASE Close(s)
  <2>1. Moves(s) /\ servers' = servers \ Held(s) /\ file' = file /\ UNCHANGED ghosts
    BY <1>2, CloseDoes DEF Close
  <2> QED BY <2>1, KnownStays DEF ghosts
<1>3. ASSUME start' = [start EXCEPT ![s] = Outside("gone")] PROVE Moves(s)
  BY <1>3, EndsDo
<1>4. CASE Closed(s)
  <2>1. /\ Moves(s) /\ start[s].at = "closing" /\ file' = ClearOwn(file, s)
        /\ UNCHANGED <<servers, overlapped, orphaned>>
    BY <1>3, <1>4 DEF Closed
  <2>2. /\ file # None /\ file.token = s => file.server \notin servers
        /\ \A v \in Held(s) \cap servers : FALSE
    BY <1>0, <2>1 DEF OwnRecord, StartInv, Keeping, Held
  <2> QED BY <2>1, <2>2, KnownStays DEF ClearOwn
<1>5. CASE Kill(s)
  <2>1. /\ Moves(s) /\ UNCHANGED <<file, servers, overlapped>> /\ orphaned \subseteq orphaned'
        /\ start[s].at \in {"ready", "asked", "answered"} => Held(s) \subseteq orphaned'
    BY <1>3, <1>5 DEF Kill
  <2>2. ASSUME ~overlapped, start[s].at \notin Out, start[s].at \notin {"ready", "asked", "answered"},
               NEW v \in Held(s) \cap servers
        PROVE  file # None /\ file.server = v
    <3>1. start[s].at \in {"linking", "undoing", "serving"}
      <4>1. start[s].at \in Phases
        BY Now DEF Command
      <4> QED BY <1>0, <2>2, <4>1 DEF StartInv, Held, Keeping, Phases, Working, Out
    <3> QED BY <1>0, <2>2, <3>1 DEF OwnRecord, TurnInv, StartInv, Held
  <2> QED BY <2>1, <2>2, KnownStays
<1> QED BY <1>1, <1>2, <1>4, <1>5

LEMMA StopKnows ==
  ASSUME OldIsNoStart, NoneIsNoRecord, SharesInv, ServersAreKnown, StopEnds
  PROVE  ServersAreKnown'
<1> USE DEF OldIsNoStart
<1>r. PICK r \in Records : r = stop.rec
  BY StopEndsDoes
<1>b. PICK b \in Shares : b = r.token
  BY DEF Records
<1>0. /\ stop.at = "told" /\ r = stop.rec /\ r.token = b
      /\ \/ start' = start /\ ~Alive(b) /\ servers' = servers \ {r.server}
         \/ /\ b \in Starts /\ Moves(b) /\ Alive(b)
            /\ servers' = servers \ ({r.server} \cup IF start[b].at = "serving" THEN Held(b) ELSE {})
            /\ \/ start[b].at \in {"serving", "closing"}
               \/ start[b].at \notin {"serving", "closing"} /\ servers' = servers \ {r.server}
  BY <1>r, <1>b, StopEndsDoes
<1>1. UNCHANGED <<overlapped, orphaned>>
  BY DEF StopEnds
<1>2. SUFFICES ASSUME ~overlapped, NEW v \in servers' \ orphaned
               PROVE  \E t \in Starts : start'[t].at \notin Out /\ v \in Held(t)'
  BY <1>1 DEF ServersAreKnown, Out
<1>3. file \in {None, r} /\ (\A t \in Starts : TurnInv(t) /\ StartInv(t))
  BY <1>0, <1>2 DEF SharesInv, Turns
<1>4. v \in servers /\ v # r.server
  BY <1>0, <1>2
<1>5. PICK t \in Starts : start[t].at \notin Out /\ v \in Held(t)
  BY <1>1, <1>2, <1>3, <1>4 DEF ServersAreKnown, Out
<1>6. t # b \/ start' = start
  <2>1. SUFFICES ASSUME t = b, start' # start PROVE FALSE
    OBVIOUS
  <2>2. start[t].at \in {"serving", "closing"}
    BY <1>0, <1>3, <1>5, Now DEF TurnInv, Command, Phases, Out, Working
  <2>3. CASE start[t].at = "serving"
    BY <1>0, <1>2, <1>5, <2>1, <2>3
  <2>4. CASE start[t].at = "closing"
    BY <1>3, <1>4, <1>5, <2>4 DEF StartInv, Keeping, Held
  <2> QED BY <2>2, <2>3, <2>4
<1>7. start'[t] = start[t]
  BY <1>0, <1>6 DEF Moves
<1> QED BY <1>5, <1>7 DEF Held

---------------------------------------------------------------------------
LEMMA SharesInitSound ==
  ASSUME OldIsNoStart, NoneIsNoRecord, BoundsAreNumbers, Init
  PROVE  SharesInv /\ ServersAreKnown
<1> USE DEF OldIsNoStart
<1>1. /\ \A s \in Starts : start[s] = Outside("idle")
      /\ start = [s \in Starts |-> Outside("idle")] /\ Outside("idle") \in Command
  BY Helpers DEF Init, Phases
<1>2. file \in Records \cup {None} /\ servers \subseteq Shares
  <2>1. CASE file = None /\ servers = {}
    BY <2>1
  <2>2. ASSUME NEW runs \in BOOLEAN, file = Record(Old, None, IF runs THEN Old ELSE None),
               servers = IF runs THEN {Old} ELSE {}
        PROVE  file \in Records \cup {None} /\ servers \subseteq Shares
    BY <2>2, Helpers DEF Shares
  <2> QED BY <2>1, <2>2 DEF Init
<1>3. file # None => /\ file.token = Old /\ file.code = None /\ ~file.gone
                     /\ file.server \in {Old, None}
  BY DEF Init, Record
<1>s. servers \subseteq {Old} /\ (servers # {} => file # None /\ file.server = Old)
  <2>1. ASSUME NEW runs \in BOOLEAN, file = Record(Old, None, IF runs THEN Old ELSE None),
               servers = IF runs THEN {Old} ELSE {}
        PROVE  servers \subseteq {Old} /\ (servers # {} => file # None /\ file.server = Old)
    <3>1. file \in Records
      BY <2>1, Helpers DEF Shares
    <3> QED BY <2>1, <3>1, NoneIsNoRecord DEF NoneIsNoRecord, Record
  <2> QED BY <2>1 DEF Init
<1>4. TypeOK
  <2>1. relay \in [token : Shares, code : Shares] \cup {None}
    BY DEF Init, Shares
  <2>2. kills \in 0..MaxKills /\ stops \in 0..MaxStops
    BY DEF Init, BoundsAreNumbers
  <2> QED BY <1>1, <1>2, <2>1, <2>2 DEF Init, TypeOK, Command
<1>5. FileInv
  BY <1>3 DEF FileInv, Sound, Written, Over
<1>6. \A s \in Starts : StartInv(s) /\ OwnRecord(s)
  BY <1>1, <1>3, <1>s DEF StartInv, OwnRecord, Outside
<1>7. RelayInv /\ RecordInv
  <2>1. relay # None => relay.token = Old
    BY DEF Init
  <2> QED BY <1>1, <2>1 DEF RelayInv, RecordInv, Outside
<1>8. Turns
  <2>1. ~Used
    BY DEF Used, Init
  <2> QED BY <1>1, <2>1 DEF Turns, TurnInv, Outside, Init, AtWork, Working
<1>9. ServersAreKnown
  BY <1>s DEF ServersAreKnown
<1> QED BY <1>4, <1>5, <1>6, <1>7, <1>8, <1>9 DEF SharesInv, Init

LEMMA SharesStepKeeps ==
  ASSUME OldIsNoStart, NoneIsNoRecord, BoundsAreNumbers, SharesInv, [Next]_vars
  PROVE  SharesInv'
<1>1. ASSUME NEW s \in Starts,
             \/ Begin(s) \/ Settled(s) \/ Ask(s) \/ Register(s) \/ Answered(s)
             \/ Linked(s) \/ LinkFails(s) \/ Undone(s) \/ Close(s) \/ Closed(s) \/ Kill(s)
      PROVE  SharesInv'
  BY <1>1, BeginKeeps, SettledKeeps, AskKeeps, RegisterKeeps, AnsweredKeeps, LinkedKeeps, LinkFailsKeeps,
     UndoneKeeps, CloseKeeps, ClosedKeeps, KillKeeps
<1>2. CASE RelayDrops \/ StopBegins \/ StopTold \/ StopEnds
  BY <1>2, RelayDropsKeeps, StopBeginsKeeps, StopToldKeeps, StopEndsKeeps
<1>3. CASE UNCHANGED vars
  <2> USE <1>3 DEF vars, budgets, ghosts
  <2>1. TypeOK'
    BY Now, Typed DEF SharesInv
  <2>2. FileInv' /\ (\A t \in Starts : StartInv(t)') /\ (\A t \in Starts : OwnRecord(t)')
    BY DEF SharesInv, FileInv, StartInv, OwnRecord, Over, Sound, Written
  <2>3. RelayInv' /\ RecordInv'
    BY DEF SharesInv, RelayInv, RecordInv, Recorded
  <2>4. Turns'
    BY DEF SharesInv, Turns, TurnInv, Used
  <2>5. (stop.at # "idle" => stop.rec # None)' /\ (served \subseteq Starts)'
    BY DEF SharesInv
  <2> QED BY <2>1, <2>2, <2>3, <2>4, <2>5 DEF SharesInv
<1> QED BY <1>1, <1>2, <1>3 DEF Next

LEMMA StepKnows ==
  ASSUME OldIsNoStart, NoneIsNoRecord, SharesInv, ServersAreKnown, [Next]_vars
  PROVE  ServersAreKnown'
<1>1. ASSUME UNCHANGED <<file, start, servers, orphaned>>, overlapped => overlapped'
      PROVE  ServersAreKnown'
  BY <1>1 DEF ServersAreKnown, Held
<1>2. CASE RelayDrops \/ StopBegins \/ StopTold \/ UNCHANGED vars
  <2>1. UNCHANGED <<file, start, servers, orphaned>>
    BY <1>2 DEF RelayDrops, StopBegins, StopTold, vars, ghosts
  <2>2. overlapped => overlapped'
    BY <1>2 DEF RelayDrops, StopBegins, StopTold, vars, ghosts
  <2> QED BY <1>1, <2>1, <2>2
<1> QED BY <1>2, StartKnows, EndKnows, StopKnows DEF Next

LEMMA SoundRecords == ASSUME SharesInv, ServersAreKnown PROVE RecordsAreSound
BY DEF SharesInv, RecordInv, RecordsAreSound, RecordOutlivesEarlierStarts, ServedShareHasItsRecord, ServedBy

(* For any number of starts, stops and kills: what the record, the relay and *)
(* the processes can be; a share that is served has its record, unless a     *)
(* start or a stop overtook it; and, as long as commands take turns, no      *)
(* spawned server is forgotten (index.ts:110-121; state.ts:116-127, 139-141).*)
THEOREM RecordsStaySound == Spec => []RecordsAreSound
<1>1. Init => SharesInv /\ ServersAreKnown
  BY SharesInitSound, OldIsNoStart, NoneIsNoRecord, BoundsAreNumbers
<1>2. SharesInv /\ ServersAreKnown /\ [Next]_vars => (SharesInv /\ ServersAreKnown)'
  BY SharesStepKeeps, StepKnows, OldIsNoStart, NoneIsNoRecord, BoundsAreNumbers
<1>3. SharesInv /\ ServersAreKnown => RecordsAreSound
  BY SoundRecords
<1> QED BY <1>1, <1>2, <1>3, PTL DEF Spec

\* A start is refused only by a bridge that is coming up, up or closing.
LEMMA OnlyBridgesRefuse ==
  ASSUME OldIsNoStart, SharesInv, [Next]_vars, NEW s \in Starts, start[s].at = "idle", start'[s].at = "gone"
  PROVE  \E t \in Starts : start[t].at \in {"linking", "undoing", "serving", "closing"}
<1> USE DEF OldIsNoStart
<1>1. CASE Begin(s)
  <2>1. file # None /\ BridgeRuns(file) /\ file \in Records
    BY <1>1, BeginDoes, Now
  <2>2. /\ file.token \in Starts /\ start[file.token].at \in Late
        /\ start[file.token].at \notin {"gone", "lingering"}
    BY <2>1 DEF BridgeRuns, Alive, SharesInv, FileInv, Over, Sound, Written, Records, Shares
  <2> QED BY <2>2 DEF Late
<1>2. ASSUME NEW t \in Starts \ {s}, Moves(t) PROVE FALSE
  BY <1>2 DEF Moves
<1>3. ASSUME NEW t \in Starts,
             \/ Begin(t) \/ Settled(t) \/ Ask(t) \/ Register(t) \/ Answered(t)
             \/ Linked(t) \/ LinkFails(t) \/ Undone(t) \/ Close(t) \/ Closed(t) \/ Kill(t)
      PROVE  t = s /\ Begin(s)
  <2>1. Moves(t)
    <3>1. ASSUME Undone(t) PROVE Moves(t)
      BY <3>1, FailDoes DEF Undone
    <3>2. ASSUME Closed(t) \/ Kill(t) PROVE Moves(t)
      BY <3>2, EndsDo DEF Closed, Kill
    <3>3. ASSUME LinkFails(t) PROVE Moves(t)
      BY <3>3, LinkFailsDoes
    <3> QED BY <1>3, <3>1, <3>2, <3>3, BeginDoes, SettledDoes, AskDoes, RegisterDoes, AnsweredDoes, LinkedDoes, CloseDoes
  <2>2. t = s
    BY <1>2, <2>1
  <2> QED BY <1>3, <2>2 DEF Settled, Ask, Register, Answered, Linked, LinkFails, Undone, Close, Closed, Kill, Alive
<1>4. CASE RelayDrops \/ StopBegins \/ StopTold \/ UNCHANGED vars
  BY <1>4 DEF RelayDrops, StopBegins, StopTold, vars
<1>5. CASE StopEnds
  <2>1. PICK b \in Shares : b = stop.rec.token
    BY <1>5, StopEndsDoes DEF Records
  <2>2. b \in Starts /\ Moves(b) /\ Alive(b)
    BY <1>5, <2>1, StopEndsDoes
  <2>3. b = s
    BY <1>2, <2>2
  <2> QED BY <2>2, <2>3 DEF Alive
<1> QED BY <1>1, <1>3, <1>4, <1>5 DEF Next

(* No process that failed earlier stands in the way of a start               *)
(* (state.ts:46-57).                                                         *)
THEOREM FailedStartsDoNotRefuse == Spec => RefusedOnlyByALiveBridge
<1> DEFINE A == \A s \in Starts :
       (start[s].at = "idle" /\ start'[s].at = "gone")
         => \E t \in Starts : start[t].at \in {"linking", "undoing", "serving", "closing"}
<1>1. Init => SharesInv
  BY SharesInitSound, OldIsNoStart, NoneIsNoRecord, BoundsAreNumbers
<1>2. SharesInv /\ [Next]_vars => SharesInv'
  BY SharesStepKeeps, OldIsNoStart, NoneIsNoRecord, BoundsAreNumbers
<1>3. SharesInv /\ [Next]_vars => [A]_vars
  BY OnlyBridgesRefuse, OldIsNoStart
<1> QED BY <1>1, <1>2, <1>3, PTL DEF Spec, RefusedOnlyByALiveBridge

LEMMA UsedCodesStay ==
  ASSUME OldIsNoStart, SharesInv, [Next]_vars, NEW s \in Starts, ~overlapped',
         relay # None, relay.code \in served \ ended, start[s].at \in Working, start'[s].at # start[s].at
  PROVE  relay' # None /\ relay'.code = relay.code
<1> USE DEF OldIsNoStart
<1>0. ~overlapped
  BY DEF Next, vars, ghosts, Begin, Settled, Ask, Register, Answered, Linked, LinkFails, Undone, Close, Closed, Kill,
     RelayDrops, StopBegins, StopTold, StopEnds
<1>1. Used /\ (\A t \in Starts : TurnInv(t)) /\ file # None /\ file.code = relay.code /\ relay.code \in Starts
      /\ stop.at = "idle"
  BY <1>0, Alone DEF Used, SharesInv, Turns, AtWork
<1>2. StartInv(s) /\ OwnRecord(s) /\ start[s] \in Command
  BY Now DEF SharesInv
<1>3. ASSUME NEW t \in Starts \ {s}, Moves(t) PROVE FALSE
  BY <1>3 DEF Moves
<1>4. CASE relay' = relay
  BY <1>1, <1>4 DEF Used
<1>5. ASSUME NEW t \in Starts, Settled(t) \/ Register(t) \/ Undone(t) \/ Closed(t)
      PROVE  relay' # None /\ relay'.code = relay.code
  <2>1. t = s
    <3>1. ASSUME Undone(t) PROVE Moves(t)
      BY <3>1, FailDoes DEF Undone
    <3>2. ASSUME Closed(t) PROVE Moves(t)
      BY <3>2, EndsDo DEF Closed
    <3> QED BY <1>3, <1>5, <3>1, <3>2, SettledDoes, RegisterDoes
  <2>2. CASE Settled(s)
    <3>1. start[s].at = "settling" /\ start[s].earlier.code = None /\ file = start[s].earlier
      BY <1>1, <1>2, <2>2 DEF Settled, StartInv, TurnInv
    <3> QED BY <1>1, <3>1
  <2>3. CASE Register(s)
    <3>1. start[s].at = "asked" /\ start[s].given = relay.code
      BY <1>1, <2>3 DEF Register, TurnInv
    <3>2. CASE relay' = relay
      BY <1>4, <3>2
    <3>3. CASE relay' # relay
      <4>1. PICK code \in {s, start[s].given} \ {None} :
              relay' = [token |-> s, code |-> code] /\ code = IF Continues(s) THEN relay.code ELSE s
        BY <2>3, <3>3, RegisterDoes
      <4>2. Continues(s)
        BY <1>1, <3>1 DEF Continues, Used
      <4>3. relay' \in [token : Shares, code : Shares]
        BY <1>1, <4>1, <4>2 DEF Shares
      <4> QED BY <4>1, <4>2, <4>3, NoneIsNoRecord DEF NoneIsNoRecord
    <3> QED BY <3>2, <3>3
  <2>4. CASE Undone(s)
    <3>1. start[s].at = "undoing" /\ start[s].code = s /\ file.token = s /\ s \notin served
      BY <1>1, <1>2, <2>4 DEF Undone, StartInv, TurnInv
    <3>2. file.code = s
      BY <1>1, <1>2, <3>1 DEF OwnRecord
    <3> QED BY <1>1, <3>1, <3>2 DEF Used
  <2>5. CASE Closed(s)
    BY <2>5 DEF Closed, Working
  <2> QED BY <1>5, <2>1, <2>2, <2>3, <2>4, <2>5
<1>6. CASE RelayDrops \/ StopTold
  BY <1>1, <1>6 DEF RelayDrops, StopTold
<1> QED BY <1>4, <1>5, <1>6 DEF Next, vars, Begin, Ask, Answered, Linked, LinkFails, Close, Kill, StopBegins, StopEnds

(* As long as commands take turns, a code that viewers have used stays the   *)
(* share's across every start, whatever fails or is killed (state.ts:28-38). *)
THEOREM UsedCodesAreTakenBack == Spec => UsedCodeIsTakenBack
<1> DEFINE A == \A s \in Starts :
       (/\ ~overlapped' /\ relay # None /\ relay.code \in served \ ended
        /\ start[s].at \in Working /\ start'[s].at # start[s].at)
         => relay' # None /\ relay'.code = relay.code
<1>1. Init => SharesInv
  BY SharesInitSound, OldIsNoStart, NoneIsNoRecord, BoundsAreNumbers
<1>2. SharesInv /\ [Next]_vars => SharesInv'
  BY SharesStepKeeps, OldIsNoStart, NoneIsNoRecord, BoundsAreNumbers
<1>3. SharesInv /\ [Next]_vars => [A]_vars
  BY UsedCodesStay, OldIsNoStart
<1> QED BY <1>1, <1>2, <1>3, PTL DEF Spec, UsedCodeIsTakenBack

---------------------------------------------------------------------------
(* Any number of starts come to one secret, unless its file was damaged.    *)

\* A start that lost the race to link, or has a secret, finds one on disk, and none is
\* about to replace it.
NobodyReplaces ==
  /\ ownerKey \in Secrets \cup {Absent}
  /\ \A s \in Creators : /\ at[s] # "replacing"
                         /\ at[s] \in {"raced", "has"} => ownerKey \in Secrets

SecretInv == SecretTypeOK /\ NobodyReplaces /\ SecretIsShared

LEMMA SecretInitEstablishes ==
  ASSUME NamesDiffer, SecretInit, ownerKey # Damaged
  PROVE  SecretInv
BY DEF NamesDiffer, SecretInit, SecretInv, SecretTypeOK, NobodyReplaces, SecretIsShared, Secrets

LEMMA SecretStepKeeps ==
  ASSUME NamesDiffer, SecretInv, [SecretNext]_secretVars
  PROVE  SecretInv' /\ (ownerKey \in Secrets => ownerKey' = ownerKey)
<1> USE DEF NamesDiffer, SecretInv, SecretTypeOK, NobodyReplaces, SecretIsShared, Secrets, Has, Goes
<1>1. ASSUME NEW s \in Creators, Read(s)
      PROVE  SecretInv' /\ (ownerKey \in Secrets => ownerKey' = ownerKey)
  <2>1. CASE ownerKey \in Secrets
    BY <1>1, <2>1 DEF Read
  <2>2. CASE ownerKey \notin Secrets
    BY <1>1, <2>2 DEF Read
  <2> QED BY <2>1, <2>2
<1>2. ASSUME NEW s \in Creators, Link(s)
      PROVE  SecretInv' /\ (ownerKey \in Secrets => ownerKey' = ownerKey)
  <2>1. CASE ownerKey = Absent
    BY <1>2, <2>1 DEF Link
  <2>2. CASE ownerKey # Absent
    BY <1>2, <2>2 DEF Link
  <2> QED BY <2>1, <2>2
<1>3. ASSUME NEW s \in Creators, ReadRaced(s)
      PROVE  SecretInv' /\ (ownerKey \in Secrets => ownerKey' = ownerKey)
  BY <1>3 DEF ReadRaced
<1>4. ASSUME NEW s \in Creators, Replace(s)
      PROVE  FALSE
  BY <1>4 DEF Replace
<1>5. ASSUME NEW s \in Creators, Die(s)
      PROVE  SecretInv' /\ (ownerKey \in Secrets => ownerKey' = ownerKey)
  BY <1>5 DEF Die
<1>6. CASE UNCHANGED secretVars
  BY <1>6 DEF secretVars
<1> QED BY <1>1, <1>2, <1>3, <1>4, <1>5, <1>6 DEF SecretNext

(* Starts that race to make the secret all derive their keys from the one    *)
(* on disk, as long as no file of another size was there                     *)
(* (state.ts:200-202).                                                       *)
THEOREM RacingStartsAgree ==
  ASSUME NamesDiffer
  PROVE  Undamaged => []SecretIsShared
<1>1. SecretInit /\ ownerKey # Damaged => SecretInv
  BY SecretInitEstablishes
<1>2. SecretInv /\ [SecretNext]_secretVars => SecretInv'
  BY SecretStepKeeps
<1>3. SecretInv => SecretIsShared
  BY DEF SecretInv
<1> QED BY <1>1, <1>2, <1>3, PTL DEF Undamaged, SecretSpec

(* Nor is a secret that landed ever replaced by another.                     *)
THEOREM LandedSecretsStay ==
  ASSUME NamesDiffer
  PROVE  Undamaged => SecretStays
<1>1. SecretInit /\ ownerKey # Damaged => SecretInv
  BY SecretInitEstablishes
<1>2. SecretInv /\ [SecretNext]_secretVars => SecretInv'
  BY SecretStepKeeps
<1>3. SecretInv /\ [SecretNext]_secretVars => [(ownerKey \in Secrets) => ownerKey' = ownerKey]_secretVars
  BY SecretStepKeeps
<1> QED BY <1>1, <1>2, <1>3, PTL DEF Undamaged, SecretSpec, SecretStays

---------------------------------------------------------------------------
(* A stop ends no process of anybody else's, however pids are recycled, but  *)
(* one that took the pid in the window in which the identity check is blind. *)

\* The process q is s's own, or a later one: it began, or ended, since t less `early`.
OwnOrLater(q, s, t, early) ==
  q.kind # "unused" /\ ((q.kind \in Running /\ q.of = s) \/ q.born + early >= t)

BridgesAreOwn ==
  \A s \in SharesHere : bridges[s].at # "idle" =>
    /\ bridges[s].pid \in Pids
    /\ procs[bridges[s].pid].kind = "bridge" /\ procs[bridges[s].pid].of = s
    /\ bridges[s].since <= clock
    /\ bridges[s].server # Nobody => OwnOrLater(procs[bridges[s].server], s, bridges[s].since, 0)

RecordsAreOwn ==
  \A s \in SharesHere : records[s] # Nobody =>
    /\ records[s].at <= clock
    /\ OwnOrLater(procs[records[s].pid], s, records[s].at, 0)
    /\ records[s].server # Nobody => OwnOrLater(procs[records[s].server], s, records[s].at, Asking)

ProcessInv == ProcessTypeOK /\ BridgesAreOwn /\ RecordsAreOwn

\* What a step may do to a pid: leave it, end its process, or hand it out.
PidsMove ==
  /\ clock' \in Nat /\ clock' >= clock
  /\ procs' \in [Pids -> Processes]
  /\ \A p \in Pids :
       \/ procs'[p].kind = procs[p].kind /\ procs'[p].born = procs[p].born /\ procs'[p].of = procs[p].of
       \/ procs'[p].kind = "gone" /\ procs'[p].born = clock
       \/ CanTake(p) /\ procs'[p].kind \in Running /\ procs'[p].born = clock

LEMMA OwnershipStays ==
  ASSUME ProcessTypeOK, PidsMove, NEW p \in Pids, NEW s \in SharesHere,
         NEW t \in Nat, NEW early \in Nat, t <= clock, OwnOrLater(procs[p], s, t, early)
  PROVE  OwnOrLater(procs'[p], s, t, early)
<1>0. clock \in Nat /\ clock + early >= t
  BY DEF ProcessTypeOK
<1>1. CASE procs'[p].kind = procs[p].kind /\ procs'[p].born = procs[p].born /\ procs'[p].of = procs[p].of
  BY <1>1 DEF OwnOrLater
<1>2. CASE procs'[p].kind \in Running \cup {"gone"} /\ procs'[p].born = clock
  BY <1>0, <1>2 DEF OwnOrLater, Running
<1> QED BY <1>1, <1>2 DEF PidsMove

\* A record that is left alone stays the share's own.
LEMMA RecordStays ==
  ASSUME TimesAreNumbers, ProcessInv, PidsMove,
         NEW s \in SharesHere, records[s] # Nobody
  PROVE  /\ records[s].at <= clock'
         /\ OwnOrLater(procs'[records[s].pid], s, records[s].at, 0)
         /\ records[s].server # Nobody => OwnOrLater(procs'[records[s].server], s, records[s].at, Asking)
<1>1. /\ records[s].pid \in Pids /\ records[s].at \in Nat
      /\ records[s].server \in Pids \cup {Nobody}
  BY DEF ProcessInv, ProcessTypeOK, PidRecords
<1>2. /\ records[s].at <= clock /\ OwnOrLater(procs[records[s].pid], s, records[s].at, 0)
      /\ records[s].server # Nobody => OwnOrLater(procs[records[s].server], s, records[s].at, Asking)
  BY DEF ProcessInv, RecordsAreOwn
<1>3. clock \in Nat /\ clock' \in Nat /\ clock' >= clock /\ Asking \in Nat
  BY DEF ProcessInv, ProcessTypeOK, PidsMove, TimesAreNumbers
<1>4. records[s].at <= clock /\ records[s].at <= clock' /\ 0 \in Nat
  BY <1>1, <1>2, <1>3
<1> QED BY <1>1, <1>2, <1>3, <1>4, OwnershipStays DEF ProcessInv

LEMMA RecordsStay ==
  ASSUME TimesAreNumbers, ProcessInv, PidsMove,
         \A s \in SharesHere : records'[s] = records[s] \/ records'[s] = Nobody
  PROVE  RecordsAreOwn'
BY RecordStays DEF RecordsAreOwn

\* A bridge that is left alone, but for what it does next, stays the share's own.
Same(s) ==
  /\ bridges'[s].pid = bridges[s].pid /\ bridges'[s].since = bridges[s].since
  /\ bridges'[s].server = bridges[s].server /\ bridges[s].at # "idle"

LEMMA BridgeStays ==
  ASSUME TimesAreNumbers, ProcessInv, PidsMove,
         NEW s \in SharesHere, bridges[s].at # "idle"
  PROVE  /\ bridges[s].pid \in Pids
         /\ bridges[s].since <= clock'
         /\ bridges[s].server # Nobody => OwnOrLater(procs'[bridges[s].server], s, bridges[s].since, 0)
<1>1. /\ bridges[s].since \in Nat /\ bridges[s].server \in Pids \cup {Nobody}
  BY DEF ProcessInv, ProcessTypeOK, Bridges
<1>2. /\ bridges[s].pid \in Pids /\ bridges[s].since <= clock
      /\ bridges[s].server # Nobody => OwnOrLater(procs[bridges[s].server], s, bridges[s].since, 0)
  BY DEF ProcessInv, BridgesAreOwn
<1>3. clock \in Nat /\ clock' \in Nat /\ clock' >= clock /\ Asking \in Nat
  BY DEF ProcessInv, ProcessTypeOK, PidsMove, TimesAreNumbers
<1>4. bridges[s].since <= clock /\ bridges[s].since <= clock' /\ 0 \in Nat
  BY <1>1, <1>2, <1>3
<1> QED BY <1>1, <1>2, <1>3, <1>4, OwnershipStays DEF ProcessInv

LEMMA BridgesStay ==
  ASSUME TimesAreNumbers, ProcessInv, PidsMove,
         \A s \in SharesHere : \/ bridges'[s].at = "idle"
                               \/ Same(s) /\ procs'[bridges[s].pid].kind = "bridge" /\ procs'[bridges[s].pid].of = s
  PROVE  BridgesAreOwn'
<1> SUFFICES ASSUME NEW s \in SharesHere, bridges'[s].at # "idle"
             PROVE  /\ bridges'[s].pid \in Pids
                    /\ procs'[bridges'[s].pid].kind = "bridge" /\ procs'[bridges'[s].pid].of = s
                    /\ bridges'[s].since <= clock'
                    /\ bridges'[s].server # Nobody =>
                         OwnOrLater(procs'[bridges'[s].server], s, bridges'[s].since, 0)
  BY DEF BridgesAreOwn
<1>1. Same(s) /\ procs'[bridges[s].pid].kind = "bridge" /\ procs'[bridges[s].pid].of = s
  OBVIOUS
<1> QED BY <1>1, BridgeStays DEF Same

LEMMA ProcessInitEstablishes ==
  ASSUME TimesAreNumbers, ProcessInit
  PROVE  ProcessInv
BY DEF TimesAreNumbers, ProcessInit, ProcessInv, ProcessTypeOK, BridgesAreOwn, RecordsAreOwn, Processes, Process, Bridges, Idle, Running

\* The end of some processes, whatever the other bridges do next.
LEMMA EndedKeeps ==
  ASSUME TimesAreNumbers, ProcessInv, NEW K \in SUBSET Pids, procs' = Survivors(K), UNCHANGED clock,
         \A s \in SharesHere : bridges'[s].at = "idle" \/ (Same(s) /\ bridges[s].pid \notin K)
  PROVE  PidsMove /\ BridgesAreOwn'
<1> USE DEF ProcessInv, ProcessTypeOK
<1>1. PidsMove
  <2>1. procs' \in [Pids -> Processes]
    BY DEF Survivors, Process, Processes
  <2>2. \A p \in Pids :
          \/ procs'[p].kind = procs[p].kind /\ procs'[p].born = procs[p].born /\ procs'[p].of = procs[p].of
          \/ procs'[p].kind = "gone" /\ procs'[p].born = clock
    BY DEF Survivors, Process, Processes
  <2> QED BY <2>1, <2>2 DEF PidsMove
<1>2. ASSUME NEW s \in SharesHere, bridges'[s].at # "idle"
      PROVE  Same(s) /\ procs'[bridges[s].pid].kind = "bridge" /\ procs'[bridges[s].pid].of = s
  <2>1. bridges[s].pid \notin K /\ Same(s)
    BY <1>2
  <2>2. bridges[s].pid \in Pids /\ procs[bridges[s].pid].kind = "bridge" /\ procs[bridges[s].pid].of = s
    BY <2>1 DEF BridgesAreOwn, Same
  <2> QED BY <2>1, <2>2 DEF Survivors, Processes
<1> QED BY <1>1, <1>2, BridgesStay

LEMMA BridgesOutlive ==
  ASSUME ProcessTypeOK, TimesAreNumbers, NEW K \in SUBSET Pids
  PROVE  /\ BridgesWithout(K) \in [SharesHere -> Bridges]
         /\ \A s \in SharesHere :
              \/ BridgesWithout(K)[s].at = "idle"
              \/ /\ bridges[s].pid \notin K /\ bridges[s].at # "idle"
                 /\ BridgesWithout(K)[s].pid = bridges[s].pid /\ BridgesWithout(K)[s].since = bridges[s].since
                 /\ BridgesWithout(K)[s].server = bridges[s].server
BY DEF ProcessTypeOK, BridgesWithout, Bridges, Idle

\* A new process under a pid that may be handed out, which is no bridge's by then.
LEMMA TakenKeeps ==
  ASSUME TimesAreNumbers, ProcessInv, UNCHANGED clock,
         procs' \in [Pids -> Processes],
         \A p \in Pids : \/ procs'[p] = procs[p]
                         \/ CanTake(p) /\ procs'[p].kind \in Running /\ procs'[p].born = clock
  PROVE  /\ PidsMove
         /\ \A s \in SharesHere : bridges[s].at # "idle" => procs'[bridges[s].pid] = procs[bridges[s].pid]
<1>1. PidsMove
  BY DEF PidsMove, ProcessInv, ProcessTypeOK
<1>2. ASSUME NEW s \in SharesHere, bridges[s].at # "idle"
      PROVE  procs'[bridges[s].pid] = procs[bridges[s].pid]
  <2>1. bridges[s].pid \in Pids /\ procs[bridges[s].pid].kind = "bridge"
    BY <1>2 DEF ProcessInv, BridgesAreOwn
  <2> QED BY <2>1 DEF CanTake
<1> QED BY <1>1, <1>2

\* A process of the machine's, or a bridge that goes on with its start.
LEMMA OthersTaken ==
  ASSUME TimesAreNumbers, ProcessInv, UNCHANGED <<clock, records, bridges>>,
         procs' \in [Pids -> Processes],
         \A p \in Pids : \/ procs'[p] = procs[p]
                         \/ CanTake(p) /\ procs'[p].kind \in Running /\ procs'[p].born = clock
  PROVE  ProcessInv'
<1>1. /\ PidsMove
      /\ \A s \in SharesHere : bridges[s].at # "idle" => procs'[bridges[s].pid] = procs[bridges[s].pid]
  BY TakenKeeps
<1>2. BridgesAreOwn'
  BY <1>1, BridgesStay DEF Same, ProcessInv, BridgesAreOwn
<1>3. RecordsAreOwn'
  BY <1>1, RecordsStay
<1> QED BY <1>1, <1>2, <1>3 DEF ProcessInv, ProcessTypeOK, PidsMove

LEMMA LaunchKeeps ==
  ASSUME TimesAreNumbers, ProcessInv, NEW s \in SharesHere, NEW p \in Pids, Launch(s, p)
  PROVE  ProcessInv'
<1> USE DEF ProcessInv, ProcessTypeOK, Launch
<1>1. procs' \in [Pids -> Processes] /\ procs'[p].kind = "bridge" /\ procs'[p].of = s /\ procs'[p].born = clock
  BY DEF Process, Processes, Running
<1>2. /\ PidsMove
      /\ \A t \in SharesHere : bridges[t].at # "idle" => procs'[bridges[t].pid] = procs[bridges[t].pid]
  <2>1. \A q \in Pids : \/ procs'[q] = procs[q]
                        \/ CanTake(q) /\ procs'[q].kind \in Running /\ procs'[q].born = clock
    BY <1>1 DEF Running
  <2> QED BY <1>1, <2>1, TakenKeeps
<1>3. bridges' \in [SharesHere -> Bridges]
  BY DEF Bridges, Idle, TimesAreNumbers
<1>4. RecordsAreOwn'
  BY <1>2, RecordsStay
<1>5. ASSUME NEW t \in SharesHere, bridges'[t].at # "idle"
      PROVE  /\ bridges'[t].pid \in Pids
             /\ procs'[bridges'[t].pid].kind = "bridge" /\ procs'[bridges'[t].pid].of = t
             /\ bridges'[t].since <= clock'
             /\ bridges'[t].server # Nobody =>
                  OwnOrLater(procs'[bridges'[t].server], t, bridges'[t].since, 0)
  <2>1. CASE t = s
    <3>1. bridges'[t].pid = p /\ bridges'[t].since = clock /\ bridges'[t].server = Nobody
      BY <2>1 DEF Idle
    <3>2. clock' = clock /\ clock \in Nat
      OBVIOUS
    <3> HIDE DEF Launch, ProcessInv, ProcessTypeOK
    <3> QED BY <1>1, <2>1, <3>1, <3>2
  <2>2. CASE t # s
    <3>1. bridges'[t] = bridges[t]
      BY <2>2
    <3>2. procs'[bridges[t].pid].kind = "bridge" /\ procs'[bridges[t].pid].of = t
      BY <1>2, <1>5, <3>1 DEF BridgesAreOwn
    <3> QED BY <1>2, <1>5, <3>1, <3>2, BridgeStays
  <2> QED BY <2>1, <2>2
<1>6. BridgesAreOwn'
  BY <1>5 DEF BridgesAreOwn
<1> QED BY <1>2, <1>3, <1>4, <1>6 DEF PidsMove

\* A server for s, under the pid its record will name.
LEMMA SpawnKeeps ==
  ASSUME TimesAreNumbers, ProcessInv, NEW s \in SharesHere, NEW w \in Pids, NEW q \in Pids,
         bridges[s].at = "detecting", UNCHANGED <<clock, records>>,
         procs' \in [Pids -> Processes],
         \A p \in Pids : \/ procs'[p] = procs[p]
                         \/ CanTake(p) /\ procs'[p].kind \in Running /\ procs'[p].born = clock,
         procs'[w].kind = "serve", procs'[w].of = s,
         bridges' = [bridges EXCEPT ![s].at = "asking", ![s].server = w, ![s].uses = q]
  PROVE  ProcessInv'
<1> USE DEF ProcessInv, ProcessTypeOK
<1>1. /\ PidsMove
      /\ \A t \in SharesHere : bridges[t].at # "idle" => procs'[bridges[t].pid] = procs[bridges[t].pid]
  BY TakenKeeps
<1>2. bridges' \in [SharesHere -> Bridges]
  <2>1. bridges[s] \in Bridges
    OBVIOUS
  <2>2. [bridges[s] EXCEPT !.at = "asking", !.server = w, !.uses = q] \in Bridges
    BY <2>1 DEF Bridges
  <2> QED BY <2>2
<1>3. RecordsAreOwn'
  BY <1>1, RecordsStay
<1>4. OwnOrLater(procs'[w], s, bridges[s].since, 0)
  BY DEF OwnOrLater, Running
<1>5. ASSUME NEW t \in SharesHere, bridges'[t].at # "idle"
      PROVE  /\ bridges'[t].pid \in Pids
             /\ procs'[bridges'[t].pid].kind = "bridge" /\ procs'[bridges'[t].pid].of = t
             /\ bridges'[t].since <= clock'
             /\ bridges'[t].server # Nobody =>
                  OwnOrLater(procs'[bridges'[t].server], t, bridges'[t].since, 0)
  <2>1. bridges[t].at # "idle" /\ bridges'[t].pid = bridges[t].pid /\ bridges'[t].since = bridges[t].since
    BY <1>5
  <2>2. /\ bridges[t].pid \in Pids
        /\ procs'[bridges[t].pid].kind = "bridge" /\ procs'[bridges[t].pid].of = t
        /\ bridges[t].since <= clock'
        /\ bridges[t].server # Nobody => OwnOrLater(procs'[bridges[t].server], t, bridges[t].since, 0)
    BY <1>1, <2>1, BridgeStays DEF BridgesAreOwn
  <2>3. bridges'[t].server = bridges[t].server \/ (t = s /\ bridges'[t].server = w)
    BY <1>5
  <2> QED BY <1>4, <2>1, <2>2, <2>3
<1>6. BridgesAreOwn'
  BY <1>5 DEF BridgesAreOwn
<1> QED BY <1>1, <1>2, <1>3, <1>6 DEF PidsMove

\* A bridge that goes on with its start where no process begins or ends.
LEMMA MoveKeeps ==
  ASSUME TimesAreNumbers, ProcessInv, UNCHANGED <<clock, procs>>,
         bridges' \in [SharesHere -> Bridges],
         \A s \in SharesHere : Same(s) \/ bridges'[s] = bridges[s]
  PROVE  PidsMove /\ BridgesAreOwn'
<1> USE DEF ProcessInv, ProcessTypeOK
<1>1. PidsMove
  BY DEF PidsMove
<1>2. \A s \in SharesHere : \/ bridges'[s].at = "idle"
                            \/ Same(s) /\ procs'[bridges[s].pid].kind = "bridge" /\ procs'[bridges[s].pid].of = s
  BY DEF Same, BridgesAreOwn
<1> QED BY <1>1, <1>2, BridgesStay

LEMMA SaveKeeps ==
  ASSUME TimesAreNumbers, ProcessInv, NEW s \in SharesHere, Save(s)
  PROVE  ProcessInv'
<1> USE DEF ProcessInv, ProcessTypeOK, Save
<1>1. bridges' \in [SharesHere -> Bridges] /\ \A t \in SharesHere : Same(t) \/ bridges'[t] = bridges[t]
  BY DEF Bridges, Same
<1>2. PidsMove /\ BridgesAreOwn'
  BY <1>1, MoveKeeps
<1>3. /\ bridges[s].pid \in Pids /\ procs[bridges[s].pid].kind = "bridge" /\ procs[bridges[s].pid].of = s
      /\ bridges[s].server # Nobody => OwnOrLater(procs[bridges[s].server], s, bridges[s].since, 0)
  BY DEF BridgesAreOwn
<1>4. OwnOrLater(procs[bridges[s].pid], s, clock, 0)
  BY <1>3 DEF OwnOrLater, Running
<1>5. bridges[s].server # Nobody => OwnOrLater(procs[bridges[s].server], s, clock, Asking)
  <2> SUFFICES ASSUME bridges[s].server # Nobody
               PROVE  OwnOrLater(procs[bridges[s].server], s, clock, Asking)
    OBVIOUS
  <2>1. bridges[s].server \in Pids /\ bridges[s].since \in Nat
    BY DEF Bridges
  <2>2. procs[bridges[s].server].born \in Nat
    BY <2>1 DEF Processes
  <2>3. clock <= bridges[s].since + Asking /\ clock \in Nat /\ Asking \in Nat
    BY DEF TimesAreNumbers
  <2>4. OwnOrLater(procs[bridges[s].server], s, bridges[s].since, 0)
    BY <1>3
  <2> HIDE DEF Save, ProcessInv, ProcessTypeOK
  <2> QED BY <2>1, <2>2, <2>3, <2>4 DEF OwnOrLater
<1>6. records' \in [SharesHere -> PidRecords \cup {Nobody}]
  BY <1>3 DEF PidRecords, Bridges
<1>7. RecordsAreOwn'
  <2> SUFFICES ASSUME NEW t \in SharesHere, records'[t] # Nobody
               PROVE  /\ records'[t].at <= clock'
                      /\ OwnOrLater(procs'[records'[t].pid], t, records'[t].at, 0)
                      /\ records'[t].server # Nobody => OwnOrLater(procs'[records'[t].server], t, records'[t].at, Asking)
    BY DEF RecordsAreOwn
  <2>1. CASE t = s
    BY <1>4, <1>5, <2>1
  <2>2. CASE t # s
    BY <1>2, <2>2, RecordStays
  <2> QED BY <2>1, <2>2
<1> QED BY <1>1, <1>2, <1>6, <1>7

LEMMA EndKeeps ==
  ASSUME TimesAreNumbers, ProcessInv, NEW K \in SUBSET Pids, Ended(K), UNCHANGED clock,
         records' \in [SharesHere -> PidRecords \cup {Nobody}],
         \A s \in SharesHere : records'[s] = records[s] \/ records'[s] = Nobody
  PROVE  ProcessInv'
<1>1. bridges' \in [SharesHere -> Bridges]
  BY BridgesOutlive DEF ProcessInv, Ended
<1>2. \A s \in SharesHere : bridges'[s].at = "idle" \/ (Same(s) /\ bridges[s].pid \notin K)
  BY BridgesOutlive DEF ProcessInv, Ended, Same
<1>3. PidsMove /\ BridgesAreOwn'
  BY <1>2, EndedKeeps DEF Ended
<1>4. RecordsAreOwn'
  BY <1>3, RecordsStay
<1> QED BY <1>1, <1>3, <1>4 DEF ProcessInv, ProcessTypeOK, PidsMove

\* A start that is refused, or ends a dead bridge's server and goes on.
LEMMA SettleKeeps ==
  ASSUME TimesAreNumbers, ProcessInv, NEW s \in SharesHere, Settle(s)
  PROVE  ProcessInv'
<1> USE DEF ProcessInv, ProcessTypeOK
<1>0. /\ records' \in [SharesHere -> PidRecords \cup {Nobody}]
      /\ \A t \in SharesHere : records'[t] = records[t] \/ records'[t] = Nobody
      /\ bridges[s].at = "settling" /\ UNCHANGED <<clock, records>>
  BY DEF Settle
<1>1. CASE Ended({bridges[s].pid})
  <2>1. {bridges[s].pid} \in SUBSET Pids
    BY <1>0 DEF BridgesAreOwn
  <2> QED BY <1>0, <1>1, <2>1, EndKeeps
<1>2. ASSUME NEW ps \in Answers, procs' = Survivors(Leftover(s, ps)),
             bridges' = [BridgesWithout(Leftover(s, ps)) EXCEPT ![s].at = "detecting"]
      PROVE  ProcessInv'
  <2> DEFINE K == Leftover(s, ps)
  <2>1. K \in SUBSET Pids
    BY DEF Leftover, SignalledServer, Passes
  <2> HIDE DEF K
  <2>2. procs' = Survivors(K) /\ bridges' = [BridgesWithout(K) EXCEPT ![s].at = "detecting"]
    BY <1>2 DEF K
  <2>3. bridges[s].pid \notin K
    BY <1>0 DEF K, Leftover, SignalledServer, Passes, BridgesAreOwn
  <2>4. bridges' \in [SharesHere -> Bridges]
    <3>1. BridgesWithout(K) \in [SharesHere -> Bridges]
      BY <2>1, BridgesOutlive
    <3>2. [BridgesWithout(K)[s] EXCEPT !.at = "detecting"] \in Bridges
      BY <3>1 DEF Bridges
    <3> QED BY <2>2, <3>1, <3>2
  <2>5. \A t \in SharesHere : bridges'[t].at = "idle" \/ (Same(t) /\ bridges[t].pid \notin K)
    <3> SUFFICES ASSUME NEW t \in SharesHere, bridges'[t].at # "idle"
                 PROVE  Same(t) /\ bridges[t].pid \notin K
      OBVIOUS
    <3>1. CASE t # s
      BY <2>1, <2>2, <3>1, BridgesOutlive DEF Same
    <3>2. CASE t = s
      <4>1. BridgesWithout(K)[s] \in Bridges
        BY <2>1, BridgesOutlive
      <4>2. /\ bridges'[s].pid = BridgesWithout(K)[s].pid /\ bridges'[s].since = BridgesWithout(K)[s].since
            /\ bridges'[s].server = BridgesWithout(K)[s].server
        BY <2>2, <4>1 DEF Bridges, BridgesWithout
      <4>3. BridgesWithout(K)[s].at # "idle"
        BY <1>0, <2>3 DEF BridgesWithout
      <4> QED BY <1>0, <2>1, <2>3, <3>2, <4>2, <4>3, BridgesOutlive DEF Same
    <3> QED BY <3>1, <3>2
  <2>6. PidsMove /\ BridgesAreOwn'
    BY <1>0, <2>1, <2>2, <2>5, EndedKeeps
  <2>7. RecordsAreOwn'
    BY <1>0, <2>6, RecordsStay
  <2> QED BY <1>0, <2>4, <2>6, <2>7 DEF PidsMove
<1> QED BY <1>1, <1>2 DEF Settle

LEMMA ProcessStepKeeps ==
  ASSUME TimesAreNumbers, ProcessInv, [ProcessNext]_processVars
  PROVE  ProcessInv'
<1> USE DEF ProcessInv, ProcessTypeOK
<1>0. ASSUME UNCHANGED records
      PROVE  /\ records' \in [SharesHere -> PidRecords \cup {Nobody}]
             /\ \A s \in SharesHere : records'[s] = records[s] \/ records'[s] = Nobody
  BY <1>0
<1>1. CASE Tick
  <2>1. PidsMove
    BY <1>1 DEF Tick, PidsMove
  <2>2. BridgesAreOwn'
    BY <1>1, <2>1, BridgesStay DEF Tick, Same, BridgesAreOwn
  <2>3. RecordsAreOwn'
    BY <1>1, <2>1, RecordsStay DEF Tick
  <2> QED BY <1>1, <2>1, <2>2, <2>3 DEF Tick, PidsMove
<1>2. ASSUME NEW p \in Pids, OwnerRuns(p)
      PROVE  ProcessInv'
  BY <1>2, OthersTaken DEF OwnerRuns, Process, Processes, Running
<1>3. ASSUME NEW p \in Pids, Dies(p)
      PROVE  ProcessInv'
  BY <1>0, <1>3, EndKeeps DEF Dies
<1>4. ASSUME NEW s \in SharesHere, NEW p \in Pids, Launch(s, p)
      PROVE  ProcessInv'
  BY <1>4, LaunchKeeps
<1>5. ASSUME NEW s \in SharesHere, Settle(s)
      PROVE  ProcessInv'
  BY <1>5, SettleKeeps
<1>6. ASSUME NEW s \in SharesHere, NEW q \in Pids, Attach(s, q)
      PROVE  ProcessInv'
  <2>1. bridges' \in [SharesHere -> Bridges] /\ \A t \in SharesHere : Same(t) \/ bridges'[t] = bridges[t]
    BY <1>6 DEF Attach, Bridges, Same
  <2>2. PidsMove /\ BridgesAreOwn'
    BY <1>6, <2>1, MoveKeeps DEF Attach
  <2>3. RecordsAreOwn'
    BY <1>6, <2>2, RecordsStay DEF Attach
  <2> QED BY <1>6, <2>1, <2>2, <2>3 DEF Attach
<1>7. ASSUME NEW s \in SharesHere, NEW q \in Pids, Spawn(s, q)
      PROVE  ProcessInv'
  <2>1. bridges[s].pid \in Pids
    BY <1>7 DEF Spawn, BridgesAreOwn
  <2>2. /\ procs' \in [Pids -> Processes] /\ procs'[q].kind = "serve" /\ procs'[q].of = s
        /\ \A p \in Pids : \/ procs'[p] = procs[p]
                           \/ CanTake(p) /\ procs'[p].kind \in Running /\ procs'[p].born = clock
    BY <1>7, <2>1 DEF Spawn, Process, Processes, Running
  <2> QED BY <1>7, <2>2, SpawnKeeps DEF Spawn
<1>8. ASSUME NEW s \in SharesHere, NEW w \in Pids, NEW q \in Pids, SpawnWrapped(s, w, q)
      PROVE  ProcessInv'
  <2>1. bridges[s].pid \in Pids
    BY <1>8 DEF SpawnWrapped, BridgesAreOwn
  <2>2. /\ procs' \in [Pids -> Processes] /\ procs'[w].kind = "serve" /\ procs'[w].of = s
        /\ \A p \in Pids : \/ procs'[p] = procs[p]
                           \/ CanTake(p) /\ procs'[p].kind \in Running /\ procs'[p].born = clock
    BY <1>8, <2>1 DEF SpawnWrapped, Process, Processes, Running
  <2> QED BY <1>8, <2>2, SpawnKeeps DEF SpawnWrapped
<1>9. ASSUME NEW s \in SharesHere, Save(s)
      PROVE  ProcessInv'
  BY <1>9, SaveKeeps
<1>10. ASSUME NEW s \in SharesHere, Finish(s)
       PROVE  ProcessInv'
  <2>1. {bridges[s].pid} \cup Children({bridges[s].pid}) \in SUBSET Pids
    BY <1>10 DEF Finish, BridgesAreOwn, Children
  <2>2. /\ records' \in [SharesHere -> PidRecords \cup {Nobody}]
        /\ \A t \in SharesHere : records'[t] = records[t] \/ records'[t] = Nobody
    BY <1>10 DEF Finish
  <2> QED BY <1>10, <2>1, <2>2, EndKeeps DEF Finish
<1>11. ASSUME NEW s \in SharesHere, Stop(s)
       PROVE  ProcessInv'
  <2> DEFINE r == records[s]
             All(ps, ends) == SignalledBridge(r, ps) \cup Children(SignalledBridge(r, ps))
                                \cup SignalledServer(r, ps) \cup ends
  <2>4. PICK ps \in Answers : \E ends \in SUBSET Children(SignalledServer(r, ps)) : Ended(All(ps, ends))
    BY <1>11 DEF Stop
  <2>0. PICK ends \in SUBSET Children(SignalledServer(r, ps)) : Ended(All(ps, ends))
    BY <2>4
  <2>1. /\ SignalledBridge(r, ps) \subseteq Pids /\ SignalledServer(r, ps) \subseteq Pids
        /\ \A K : Children(K) \subseteq Pids
    BY DEF Children, SignalledBridge, SignalledServer, Passes
  <2>3. All(ps, ends) \in SUBSET Pids
    BY <2>0, <2>1
  <2>2. /\ records' \in [SharesHere -> PidRecords \cup {Nobody}]
        /\ \A t \in SharesHere : records'[t] = records[t] \/ records'[t] = Nobody
    BY <1>11 DEF Stop
  <2> QED BY <1>11, <2>0, <2>2, <2>3, EndKeeps DEF Stop
<1>12. CASE UNCHANGED processVars
  <2>1. PidsMove
    BY <1>12 DEF processVars, PidsMove
  <2>2. BridgesAreOwn'
    BY <1>12, <2>1, BridgesStay DEF processVars, Same, BridgesAreOwn
  <2>3. RecordsAreOwn'
    BY <1>12, <2>1, RecordsStay DEF processVars
  <2> QED BY <1>12, <2>2, <2>3 DEF processVars
<1> QED BY <1>1, <1>2, <1>3, <1>4, <1>5, <1>6, <1>7, <1>8, <1>9, <1>10, <1>11, <1>12 DEF ProcessNext

LEMMA OwnAreSpared ==
  ASSUME TimesAreNumbers, ProcessInv
  PROVE  StopsSpareStrangers
<1> SUFFICES ASSUME NEW s \in SharesHere, NEW ps \in Answers, records[s] # Nobody
             PROVE  /\ \A p \in SignalledBridge(records[s], ps) :
                         procs[p].of = s \/ InBlindWindow(p, 0, records[s].at, ps)
                    /\ \A p \in SignalledServer(records[s], ps) :
                         procs[p].of = s \/ InBlindWindow(p, Asking, records[s].at, ps)
  BY DEF StopsSpareStrangers
<1>1. records[s].at \in Nat /\ Slack \in Nat /\ \A p \in Pids : procs[p].born \in Nat
  BY DEF ProcessInv, ProcessTypeOK, PidRecords, Processes, TimesAreNumbers
<1>2. ASSUME NEW p \in Pids, NEW early, ~TooYoung(p, records[s].at, ps),
             OwnOrLater(procs[p], s, records[s].at, early)
      PROVE  procs[p].of = s \/ InBlindWindow(p, early, records[s].at, ps)
  BY <1>1, <1>2 DEF OwnOrLater, TooYoung, InBlindWindow
<1>3. ASSUME NEW p \in SignalledBridge(records[s], ps)
      PROVE  procs[p].of = s \/ InBlindWindow(p, 0, records[s].at, ps)
  <2>1. p \in Pids /\ ~TooYoung(p, records[s].at, ps) /\ p = records[s].pid
    BY <1>3 DEF SignalledBridge, Passes
  <2> QED BY <1>2, <2>1 DEF ProcessInv, RecordsAreOwn
<1>4. ASSUME NEW p \in SignalledServer(records[s], ps)
      PROVE  procs[p].of = s \/ InBlindWindow(p, Asking, records[s].at, ps)
  <2>1. p \in Pids /\ ~TooYoung(p, records[s].at, ps) /\ p = records[s].server
    BY <1>4 DEF SignalledServer, Passes
  <2>2. records[s].server # Nobody
    BY <2>1 DEF TimesAreNumbers
  <2> QED BY <1>2, <2>1, <2>2 DEF ProcessInv, RecordsAreOwn
<1> QED BY <1>3, <1>4

(* However soon pids are handed out again and whatever ps can tell, what a     *)
(* stop, or the settling of a dead share, would signal is that share's own     *)
(* process, unless it took the pid over in the window where the identity check *)
(* is blind: a bridge's pid after the record was written, a server's since     *)
(* the start of its share, and within the slack of the record or at any time   *)
(* where ps tells no start (index.ts:872-885, 1068-1092).                      *)
THEOREM RecycledPidsAreSpared ==
  ASSUME TimesAreNumbers
  PROVE  ProcessSpec => []StopsSpareStrangers
<1>1. ProcessInit => ProcessInv
  BY ProcessInitEstablishes
<1>2. ProcessInv /\ [ProcessNext]_processVars => ProcessInv'
  BY ProcessStepKeeps
<1>3. ProcessInv => StopsSpareStrangers
  BY OwnAreSpared
<1> QED BY <1>1, <1>2, <1>3, PTL DEF ProcessSpec

---------------------------------------------------------------------------
(* The plugin's starts: one that is cancelled leaves nothing behind, and     *)
(* bridge.log keeps the code of the share that came up last.                 *)


Past == {"saved", "up", "closing", "dead"}
OnTheWayOut == {"closing", "dead"}

\* No code is known before the bridge that made it has saved it.
CodesAreSaved ==
  /\ \A s \in Launches : codeOf[s] \in Launches => bridge[codeOf[s]] \in Past
  /\ \A x \in Sessions : files[x] # Nil => bridge[files[x].code] \in Past
  /\ lastUp \in Launches => bridge[lastUp] \in Past

\* A start that was not made has no bridge, one whose share is ended has none left.
PromisesKeepUp ==
  \A s \in Launches :
    /\ plug[s] = "idle" => bridge[s] = "none"
    /\ plug[s] = "ending" => bridge[s] \in OnTheWayOut

\* bridge.log has no older share's code, and in the one OpenCode that there is, no other
\* than a stop read that is about to remove it.
Removes == stopping # Nil /\ stopping.at = "removing"
LogFollows ==
  /\ log \in {lastUp, Nil}
  /\ Removes => log = stopping.read \/ ~OneOpenCode
LogIsSound == LogNamesTheLastShare /\ LogFollows

StartsInv == StartsAreSound /\ CodesAreSaved /\ PromisesKeepUp /\ LogFollows

USE DEF logGhosts

---------------------------------------------------------------------------
(* The operators the actions are built from *)

\* A file that is cleared, or written, is what it can be.
LEMMA FilesAreSet ==
  ASSUME StartsTypeOK, NEW s \in Launches, NEW f \in {Nil} \cup [pid : Launches, code : Launches]
  PROVE /\ Set(s, f) \in [Sessions -> {Nil} \cup [pid : Launches, code : Launches]]
        /\ SessionOf[s] \in Sessions
        /\ Set(s, f)[SessionOf[s]] = f
        /\ \A x \in Sessions \ {SessionOf[s]} : Set(s, f)[x] = files[x]
BY StartsAreTyped DEF StartsTypeOK, Set

\* Clearing only takes files away.
LEMMA ClearingTakesAway ==
  ASSUME StartsTypeOK, NEW s \in Launches
  PROVE /\ Cleared(s) \in [Sessions -> {Nil} \cup [pid : Launches, code : Launches]]
        /\ \A x \in Sessions : Cleared(s)[x] # Nil => Cleared(s)[x] = files[x]
<1>1. CASE IsOwn(s)
  BY <1>1, FilesAreSet DEF Cleared
<1>2. CASE ~IsOwn(s)
  BY <1>2 DEF Cleared, StartsTypeOK
<1> QED BY <1>1, <1>2

\* So does `bridge stop`, whatever signal it sends.
LEMMA StoppingTakesAway ==
  ASSUME StartsTypeOK, NEW x \in Sessions, Stopped(x)
  PROVE /\ files' \in [Sessions -> {Nil} \cup [pid : Launches, code : Launches]]
        /\ files'[x] = Nil
        /\ \A y \in Sessions : files'[y] # Nil => files'[y] = files[y]
        /\ signal' \in [Launches -> BOOLEAN]
<1>1. files' = [files EXCEPT ![x] = Nil]
  BY DEF Stopped
<1>2. signal' \in [Launches -> BOOLEAN]
  BY Zenon DEF Stopped, StartsTypeOK
<1> QED BY <1>1, <1>2 DEF StartsTypeOK
---------------------------------------------------------------------------
(* What a step may do, whatever it is *)

\* No bridge that has gone past its start is brought back to it, and one that is
\* over stays so.
GoesOn ==
  \A s \in Launches :
    /\ bridge[s] \in Past => bridge'[s] \in Past
    /\ bridge[s] \in OnTheWayOut => bridge'[s] \in OnTheWayOut

\* A file comes only from a bridge that was coming up.
FilesFollow ==
  \A x \in Sessions : files'[x] # Nil =>
    files'[x] = files[x] \/ (bridge[files'[x].pid] = "coming" /\ bridge'[files'[x].code] \in Past)

\* A code is taken only from a bridge that has saved it.
CodesFollow ==
  /\ \A s \in Launches : codeOf'[s] = codeOf[s] \/ bridge'[codeOf'[s]] \in Past
  /\ lastUp' = lastUp \/ \E s \in Launches : lastUp' = codeOf[s]

\* A promise is kept only where the bridge is over, and owns no file.
PromisesFollow ==
  \A s \in Launches :
    /\ plug'[s] = "idle" => plug[s] = "idle" /\ bridge'[s] = bridge[s]
    /\ plug'[s] = "ending" => plug[s] = "ending" \/ bridge[s] \in OnTheWayOut
    /\ plug'[s] = "cancelled" => plug[s] = "cancelled" \/ (bridge[s] \in OnTheWayOut /\ ~IsOwn(s)')

Follows == GoesOn /\ FilesFollow /\ CodesFollow /\ PromisesFollow

\* Such a step keeps what holds of cancelled starts and of codes.
LEMMA FollowingKeeps ==
  ASSUME StartsInv, StartsTypeOK', Follows, LogIsSound'
  PROVE StartsInv'
<1> USE DEF Follows
<1>1. CancelledStartLeavesNothing'
  <2> SUFFICES ASSUME NEW s \in Launches, plug'[s] = "cancelled"
               PROVE bridge'[s] \in OnTheWayOut /\ ~IsOwn(s)'
    BY DEF CancelledStartLeavesNothing, OnTheWayOut
  <2>1. CASE bridge[s] \in OnTheWayOut /\ ~IsOwn(s)'
    BY <2>1 DEF GoesOn
  <2>2. CASE plug[s] = "cancelled"
    <3>1. bridge[s] \in OnTheWayOut /\ ~IsOwn(s)
      BY <2>2 DEF StartsInv, StartsAreSound, CancelledStartLeavesNothing, OnTheWayOut
    <3>2. SessionOf[s] \in Sessions
      BY StartsAreTyped
    <3>3. ~IsOwn(s)'
      BY <3>1, <3>2 DEF FilesFollow, IsOwn, File, OnTheWayOut
    <3> QED BY <3>1, <3>3 DEF GoesOn
  <2> QED BY <2>1, <2>2 DEF PromisesFollow
<1>2. CodesAreSaved'
  <2>1. \A s \in Launches : codeOf'[s] \in Launches => bridge'[codeOf'[s]] \in Past
    BY DEF CodesFollow, GoesOn, StartsInv, CodesAreSaved
  <2>2. \A x \in Sessions : files'[x] # Nil => bridge'[files'[x].code] \in Past
    <3> SUFFICES ASSUME NEW x \in Sessions, files'[x] # Nil, files'[x] = files[x]
                 PROVE bridge'[files'[x].code] \in Past
      BY DEF FilesFollow
    <3>1. files[x] \in [pid : Launches, code : Launches] /\ bridge[files[x].code] \in Past
      BY DEF StartsInv, StartsAreSound, StartsTypeOK, CodesAreSaved
    <3> QED BY <3>1 DEF GoesOn
  <2>3. lastUp' \in Launches => bridge'[lastUp'] \in Past
    BY DEF CodesFollow, GoesOn, StartsInv, CodesAreSaved
  <2> QED BY <2>1, <2>2, <2>3 DEF CodesAreSaved
<1>3. PromisesKeepUp'
  BY DEF PromisesFollow, GoesOn, StartsInv, PromisesKeepUp
<1> QED BY <1>1, <1>2, <1>3 DEF StartsInv, StartsAreSound, LogIsSound

\* A step that takes files away, or leaves them, and leaves the log alone.
LEMMA FewerFilesKeepTheLog ==
  ASSUME LogIsSound, UNCHANGED <<log, logGhosts>>, stopping' = stopping \/ ~Removes',
         \A x \in Sessions : files'[x] # Nil => files'[x] = files[x]
  PROVE LogIsSound' /\ FilesFollow
<1>1. FilesFollow /\ LogFollows'
  BY DEF FilesFollow, LogIsSound, LogFollows, Removes
<1>2. LogNamesTheLastShare'
  BY DEF LogIsSound, LogNamesTheLastShare, IsRecorded
<1> QED BY <1>1, <1>2 DEF LogIsSound
---------------------------------------------------------------------------
(* The bridge's steps *)

\* Where a bridge stands, and where it may go.
LEMMA BridgeMoves ==
  ASSUME StartsTypeOK, NEW s \in Launches, NEW phase \in BridgePhases, BridgeIs(s, phase),
         bridge[s] \in Past => phase \in Past,
         bridge[s] \in OnTheWayOut => phase \in OnTheWayOut
  PROVE GoesOn /\ bridge' \in [Launches -> BridgePhases] /\ bridge'[s] = phase
        /\ \A r \in Launches \ {s} : bridge'[r] = bridge[r]
BY DEF StartsTypeOK, BridgeIs, GoesOn, Past, OnTheWayOut

\* A bridge's step leaves the promises alone.
LEMMA QuietPlugFollows ==
  ASSUME StartsInv, NEW s \in Launches, UNCHANGED plug, bridge[s] # "none",
         \A r \in Launches \ {s} : bridge'[r] = bridge[r]
  PROVE PromisesFollow
BY DEF StartsInv, PromisesKeepUp, PromisesFollow

LEMMA RegistersKeeps ==
  ASSUME StartsInv, NEW s \in Launches, Registers(s)
  PROVE StartsInv'
<1>0. StartsTypeOK /\ LogIsSound /\ bridge[s] = "coming" /\ UNCHANGED <<plug, log, hosts, stopping, turns, logGhosts>>
  BY DEF StartsInv, StartsAreSound, LogIsSound, Registers
<1>1. CASE File(s) # Nil /\ BridgeLives(File(s).pid)
  <2>1. GoesDown(s) /\ out' = [out EXCEPT ![s] = "failure"] /\ UNCHANGED <<codeOf, files>>
    BY <1>1 DEF Registers
  <2>2. GoesOn /\ bridge' \in [Launches -> BridgePhases] /\ \A r \in Launches \ {s} : bridge'[r] = bridge[r]
    BY <1>0, <2>1, BridgeMoves DEF GoesDown, BridgePhases, Past, OnTheWayOut
  <2>3. signal' \in [Launches -> BOOLEAN]
    BY <1>0, <2>1 DEF GoesDown, StartsTypeOK
  <2>4. StartsTypeOK'
    BY <1>0, <2>1, <2>2, <2>3 DEF StartsTypeOK
  <2>5. LogIsSound' /\ FilesFollow
    BY <1>0, <2>1, FewerFilesKeepTheLog
  <2>6. PromisesFollow
    BY <1>0, <2>2, QuietPlugFollows
  <2>7. CodesFollow
    BY <1>0, <2>1 DEF CodesFollow
  <2> QED BY <2>2, <2>4, <2>5, <2>6, <2>7, FollowingKeeps DEF Follows
<1>2. CASE ~(File(s) # Nil /\ BridgeLives(File(s).pid))
  <2> PICK c \in {IF File(s) = Nil THEN s ELSE File(s).code} :
        /\ BridgeIs(s, "saved") /\ codeOf' = [codeOf EXCEPT ![s] = c]
        /\ files' = Set(s, [pid |-> s, code |-> c]) /\ UNCHANGED <<out, signal>>
    BY <1>2 DEF Registers
  <2>0. SessionOf[s] \in Sessions /\ File(s) \in {Nil} \cup [pid : Launches, code : Launches]
    BY <1>0, StartsAreTyped DEF File, StartsTypeOK
  <2>1. c \in Launches /\ c = IF File(s) = Nil THEN s ELSE File(s).code
    BY <2>0
  <2>2. /\ GoesOn /\ bridge' \in [Launches -> BridgePhases] /\ bridge'[s] = "saved"
        /\ \A r \in Launches \ {s} : bridge'[r] = bridge[r]
    BY <1>0, BridgeMoves DEF BridgePhases, Past, OnTheWayOut
  <2>3. /\ files' \in [Sessions -> {Nil} \cup [pid : Launches, code : Launches]]
        /\ files'[SessionOf[s]] = [pid |-> s, code |-> c]
        /\ \A x \in Sessions \ {SessionOf[s]} : files'[x] = files[x]
    <3>1. [pid |-> s, code |-> c] \in {Nil} \cup [pid : Launches, code : Launches]
      BY <2>1
    <3> QED BY <1>0, <3>1, FilesAreSet
  <2>4. StartsTypeOK'
    BY <1>0, <2>1, <2>2, <2>3 DEF StartsTypeOK
  <2>5. bridge'[c] \in Past
    <3>1. CASE File(s) = Nil
      BY <3>1, <2>1, <2>2 DEF Past
    <3>2. CASE File(s) # Nil
      BY <3>2, <2>0, <2>1, <2>2 DEF GoesOn, StartsInv, CodesAreSaved, File
    <3> QED BY <3>1, <3>2
  <2>6. FilesFollow
    BY <1>0, <2>0, <2>3, <2>5 DEF FilesFollow
  <2>7. PromisesFollow
    BY <1>0, <2>2, QuietPlugFollows
  <2>8. CodesFollow
    BY <1>0, <2>5 DEF CodesFollow, StartsTypeOK
  <2>9. LogIsSound'
    <3>1. SUFFICES ASSUME NEW x \in Sessions, files'[x] # Nil, files'[x].code = lastUp
                   PROVE IsRecorded(lastUp)
      BY <1>0 DEF LogIsSound, LogFollows, Removes, LogNamesTheLastShare, IsRecorded
    <3>2. CASE files'[x] = files[x]
      BY <3>1, <3>2 DEF IsRecorded
    <3>3. CASE x = SessionOf[s] /\ File(s) # Nil
      BY <3>1, <3>3, <2>1, <2>3 DEF IsRecorded, File
    <3>4. CASE x = SessionOf[s] /\ File(s) = Nil
      <4>1. lastUp = s
        BY <3>1, <3>4, <2>1, <2>3
      <4>2. bridge[s] \in Past
        BY <4>1 DEF StartsInv, CodesAreSaved
      <4> QED BY <4>2, <1>0 DEF Past
    <3> QED BY <3>2, <3>3, <3>4, <2>3
  <2> QED BY <2>2, <2>4, <2>6, <2>7, <2>8, <2>9, FollowingKeeps DEF Follows
<1> QED BY <1>1, <1>2

\* A bridge's step that takes a code from nobody, and no file from another.
LEMMA BridgeStepKeeps ==
  ASSUME StartsInv, NEW s \in Launches, NEW phase \in BridgePhases, BridgeIs(s, phase),
         bridge[s] # "none",
         bridge[s] \in Past => phase \in Past,
         bridge[s] \in OnTheWayOut => phase \in OnTheWayOut,
         UNCHANGED <<plug, codeOf, log, hosts, stopping, logGhosts>>,
         out' \in [Launches -> {"nothing", "code", "failure"}],
         signal' \in [Launches -> BOOLEAN],
         files' = files \/ files' = Cleared(s)
  PROVE StartsInv'
<1>0. StartsTypeOK /\ LogIsSound
  BY DEF StartsInv, StartsAreSound, LogIsSound
<1>1. GoesOn /\ bridge' \in [Launches -> BridgePhases] /\ \A r \in Launches \ {s} : bridge'[r] = bridge[r]
  BY <1>0, BridgeMoves
<1>2. /\ files' \in [Sessions -> {Nil} \cup [pid : Launches, code : Launches]]
      /\ \A x \in Sessions : files'[x] # Nil => files'[x] = files[x]
  BY <1>0, ClearingTakesAway DEF StartsTypeOK
<1>3. StartsTypeOK'
  BY <1>0, <1>1, <1>2 DEF StartsTypeOK
<1>4. LogIsSound' /\ FilesFollow
  BY <1>0, <1>2, FewerFilesKeepTheLog
<1>5. PromisesFollow
  BY <1>1, QuietPlugFollows
<1>6. CodesFollow
  BY DEF CodesFollow
<1> QED BY <1>1, <1>3, <1>4, <1>5, <1>6, FollowingKeeps DEF Follows

LEMMA BridgesKeep ==
  ASSUME StartsInv, NEW s \in Launches, BridgeSteps(s) \/ Ends(s) \/ Killed(s)
  PROVE StartsInv'
<1>0. StartsTypeOK
  BY DEF StartsInv, StartsAreSound, LogIsSound
<1>d. \A r \in Launches : [signal EXCEPT ![r] = FALSE] \in [Launches -> BOOLEAN]
  BY <1>0 DEF StartsTypeOK
<1>o. \A o \in {"code", "failure"} : [out EXCEPT ![s] = o] \in [Launches -> {"nothing", "code", "failure"}]
  BY <1>0 DEF StartsTypeOK
<1>t. out \in [Launches -> {"nothing", "code", "failure"}] /\ signal \in [Launches -> BOOLEAN]
  BY <1>0 DEF StartsTypeOK
<1>1. CASE Registers(s)
  BY <1>1, RegistersKeeps
<1>2. CASE Fails(s)
  BY <1>2, <1>d, <1>o, BridgeStepKeeps DEF Fails, GoesDown, BridgePhases, Past, OnTheWayOut
<1>3. CASE ComesUp(s)
  BY <1>3, <1>t, <1>o, BridgeStepKeeps DEF ComesUp, BridgePhases, Past, OnTheWayOut
<1>4. CASE Signalled(s)
  BY <1>4, <1>t, <1>d, BridgeStepKeeps DEF Signalled, BridgeLives, BridgePhases, Past, OnTheWayOut
<1>5. CASE Watchdog(s) \/ Ends(s)
  BY <1>5, <1>t, BridgeStepKeeps DEF Watchdog, Ends, BridgePhases, Past, OnTheWayOut
<1>6. CASE Closes(s)
  BY <1>6, <1>t, <1>d, BridgeStepKeeps DEF Closes, GoesDown, BridgePhases, Past, OnTheWayOut
<1>7. CASE Killed(s)
  BY <1>7, <1>t, <1>d, BridgeStepKeeps DEF Killed, GoesDown, BridgeLives, BridgePhases, Past, OnTheWayOut
<1> QED BY <1>1, <1>2, <1>3, <1>4, <1>5, <1>6, <1>7 DEF BridgeSteps

---------------------------------------------------------------------------
(* The plugin's steps *)

\* A step that leaves every bridge, code and file alone.
LEMMA PlugStepKeeps ==
  ASSUME StartsInv, UNCHANGED <<bridge, codeOf, files>>, StartsTypeOK',
         lastUp' = lastUp \/ \E s \in Launches : lastUp' = codeOf[s],
         \A s \in Launches : plug'[s] = "idle" => plug[s] = "idle",
         \A s \in Launches : plug'[s] = "ending" => plug[s] = "ending" \/ bridge[s] \in OnTheWayOut,
         \A s \in Launches : plug'[s] = "cancelled" => plug[s] = "cancelled" \/ (bridge[s] \in OnTheWayOut /\ ~IsOwn(s)),
         LogIsSound'
  PROVE StartsInv'
<1>1. GoesOn /\ FilesFollow /\ CodesFollow
  BY DEF GoesOn, FilesFollow, CodesFollow
<1>2. \A s \in Launches : IsOwn(s)' <=> IsOwn(s)
  BY DEF IsOwn, File
<1>3. PromisesFollow
  BY <1>2 DEF PromisesFollow
<1> QED BY <1>1, <1>3, FollowingKeeps DEF Follows

LEMMA StartKeeps ==
  ASSUME StartsInv, NEW s \in Launches, Start(s)
  PROVE StartsInv'
<1>0. StartsTypeOK /\ LogIsSound /\ bridge[s] = "none" /\ UNCHANGED <<codeOf, out, signal, files, log, hosts, stopping, turns, logGhosts>>
  BY DEF StartsInv, StartsAreSound, LogIsSound, PromisesKeepUp, Start
<1>1. /\ GoesOn /\ bridge' \in [Launches -> BridgePhases]
      /\ \A r \in Launches \ {s} : bridge'[r] = bridge[r]
  BY <1>0, BridgeMoves DEF Start, BridgePhases, Past, OnTheWayOut
<1>2. /\ plug' \in [Launches -> Promises] /\ plug'[s] = "waiting"
      /\ \A r \in Launches \ {s} : plug'[r] = plug[r]
  BY <1>0 DEF Start, Becomes, StartsTypeOK, Promises
<1>3. StartsTypeOK'
  BY <1>0, <1>1, <1>2 DEF StartsTypeOK
<1>4. LogIsSound' /\ FilesFollow
  BY <1>0, FewerFilesKeepTheLog
<1>5. CodesFollow
  BY <1>0 DEF CodesFollow
<1>6. PromisesFollow
  BY <1>1, <1>2 DEF PromisesFollow
<1> QED BY <1>1, <1>3, <1>4, <1>5, <1>6, FollowingKeeps DEF Follows

LEMMA PromisesAreSet ==
  ASSUME StartsTypeOK, NEW s \in Launches, NEW promise \in Promises, Becomes(s, promise)
  PROVE /\ plug' \in [Launches -> Promises] /\ plug'[s] = promise
        /\ \A r \in Launches \ {s} : plug'[r] = plug[r]
BY DEF StartsTypeOK, Becomes

LEMMA CheckKeeps ==
  ASSUME StartsInv, NEW s \in Launches, Check(s)
  PROVE StartsInv'
<1>0. StartsTypeOK /\ LogIsSound /\ UNCHANGED <<bridge, codeOf, out, signal, files, hosts, stopping, turns>>
  BY DEF StartsInv, StartsAreSound, LogIsSound, Check, bridgeVars
<1>1. CASE Becomes(s, "ready") /\ log' = codeOf[s] /\ lastUp' = codeOf[s] /\ lostLog' = Nil
  <2>1. /\ plug' \in [Launches -> Promises] /\ plug'[s] = "ready"
        /\ \A r \in Launches \ {s} : plug'[r] = plug[r]
    BY <1>0, <1>1, PromisesAreSet DEF Promises
  <2>2. StartsTypeOK'
    BY <1>0, <1>1, <2>1 DEF StartsTypeOK
  <2>3. LogIsSound'
    <3>1. Removes => ~OneOpenCode
      BY <1>0, StartsAreTyped DEF Check, Clears, Removes, OneOpenCode, StartsTypeOK, Stops
    <3> QED BY <1>0, <1>1, <3>1 DEF LogIsSound, LogFollows, Removes, LogNamesTheLastShare, OneOpenCode
  <2> QED BY <1>0, <1>1, <2>1, <2>2, <2>3, PlugStepKeeps
<1>2. CASE Becomes(s, "failed") /\ UNCHANGED <<log, logGhosts>>
  <2>1. /\ plug' \in [Launches -> Promises] /\ plug'[s] = "failed"
        /\ \A r \in Launches \ {s} : plug'[r] = plug[r]
    BY <1>0, <1>2, PromisesAreSet DEF Promises
  <2>2. StartsTypeOK'
    BY <1>0, <1>2, <2>1 DEF StartsTypeOK
  <2>3. LogIsSound'
    BY <1>0, <1>2, FewerFilesKeepTheLog
  <2> QED BY <1>0, <1>2, <2>1, <2>2, <2>3, PlugStepKeeps
<1> QED BY <1>1, <1>2 DEF Check

\* The start is given up, its bridge signalled, and its share looked for.
LEMMA CancellingKeeps ==
  ASSUME StartsInv, NEW s \in Launches, Timeout(s) \/ Cancel(s) \/ Exited(s)
  PROVE StartsInv'
<1>0. /\ StartsTypeOK /\ LogIsSound
      /\ UNCHANGED <<bridge, codeOf, out, files, log, hosts, stopping, turns, logGhosts>>
  BY DEF StartsInv, StartsAreSound, LogIsSound, Timeout, Cancel, Exited, bridgeVars
<1>1. PICK promise \in Promises :
        /\ Becomes(s, promise)
        /\ promise # "idle"
        /\ promise = "ending" => bridge[s] \in OnTheWayOut
        /\ promise = "cancelled" => bridge[s] \in OnTheWayOut /\ ~IsOwn(s)
  <2>1. CASE Timeout(s)
    BY <2>1 DEF Timeout, Promises
  <2>2. CASE Cancel(s)
    BY <2>2 DEF Cancel, Promises
  <2>3. CASE Exited(s) /\ IsOwn(s)
    BY <2>3 DEF Exited, HasExited, OnTheWayOut, Promises
  <2>4. CASE Exited(s) /\ ~IsOwn(s)
    BY <2>4 DEF Exited, HasExited, OnTheWayOut, Promises
  <2> QED BY <2>1, <2>2, <2>3, <2>4
<1>2. /\ plug' \in [Launches -> Promises] /\ plug'[s] = promise
      /\ \A r \in Launches \ {s} : plug'[r] = plug[r]
  BY <1>0, <1>1, PromisesAreSet
<1>3. signal' \in [Launches -> BOOLEAN]
  <2>1. CASE Cancel(s)
    <3>1. BridgeLives(s) \in BOOLEAN
      BY DEF BridgeLives
    <3> QED BY <2>1, <3>1, <1>0 DEF Cancel, StartsTypeOK
  <2>2. CASE Timeout(s) \/ Exited(s)
    BY <2>2, <1>0 DEF Timeout, Exited, bridgeVars, StartsTypeOK
  <2> QED BY <2>1, <2>2
<1>4. StartsTypeOK'
  BY <1>0, <1>2, <1>3 DEF StartsTypeOK
<1>5. LogIsSound'
  BY <1>0, FewerFilesKeepTheLog
<1> QED BY <1>0, <1>1, <1>2, <1>4, <1>5, PlugStepKeeps

LEMMA EndCancelledKeeps ==
  ASSUME StartsInv, NEW s \in Launches, EndCancelled(s)
  PROVE StartsInv'
<1>0. /\ StartsTypeOK /\ LogIsSound /\ plug[s] = "ending" /\ bridge[s] \in OnTheWayOut
      /\ UNCHANGED <<bridge, codeOf, out, log, hosts, stopping, turns, logGhosts>>
  BY DEF StartsInv, StartsAreSound, LogIsSound, PromisesKeepUp, EndCancelled
<1>1. CASE Stopped(SessionOf[s]) /\ Becomes(s, "cancelled")
  <2>1. /\ plug' \in [Launches -> Promises] /\ plug'[s] = "cancelled"
        /\ \A r \in Launches \ {s} : plug'[r] = plug[r]
    BY <1>0, <1>1, PromisesAreSet DEF Promises
  <2>2. SessionOf[s] \in Sessions
    BY StartsAreTyped
  <2>3. /\ files' \in [Sessions -> {Nil} \cup [pid : Launches, code : Launches]]
        /\ files'[SessionOf[s]] = Nil
        /\ \A y \in Sessions : files'[y] # Nil => files'[y] = files[y]
        /\ signal' \in [Launches -> BOOLEAN]
    BY <1>0, <1>1, <2>2, StoppingTakesAway
  <2>4. StartsTypeOK'
    BY <1>0, <2>1, <2>3 DEF StartsTypeOK
  <2>5. LogIsSound' /\ FilesFollow
    BY <1>0, <2>3, FewerFilesKeepTheLog
  <2>6. GoesOn /\ CodesFollow
    BY <1>0 DEF GoesOn, CodesFollow
  <2>7. PromisesFollow
    BY <1>0, <2>1, <2>3 DEF PromisesFollow, IsOwn, File
  <2> QED BY <2>4, <2>5, <2>6, <2>7, FollowingKeeps DEF Follows
<1>2. CASE Becomes(s, "failed") /\ UNCHANGED <<files, signal>>
  <2>1. /\ plug' \in [Launches -> Promises] /\ plug'[s] = "failed"
        /\ \A r \in Launches \ {s} : plug'[r] = plug[r]
    BY <1>0, <1>2, PromisesAreSet DEF Promises
  <2>2. StartsTypeOK'
    BY <1>0, <1>2, <2>1 DEF StartsTypeOK
  <2>3. LogIsSound'
    BY <1>0, <1>2, FewerFilesKeepTheLog
  <2> QED BY <1>0, <1>2, <2>1, <2>2, <2>3, PlugStepKeeps
<1> QED BY <1>1, <1>2 DEF EndCancelled

\* OpenCode exits, or the user stops a share.
LEMMA UserKeeps ==
  ASSUME StartsInv,
         \/ \E h \in Hosts : HostExits(h)
         \/ \E x \in Sessions, h \in Hosts : StopShare(x, h)
         \/ BridgeStop \/ ReadLog \/ ClearSpentLog
  PROVE StartsInv'
<1>0. StartsTypeOK /\ LogIsSound
  BY DEF StartsInv, StartsAreSound, LogIsSound
<1>1. ASSUME NEW h \in Hosts, HostExits(h) PROVE StartsInv'
  <2>1. UNCHANGED <<bridge, codeOf, out, signal, files, log, turns, logGhosts>> /\ stopping' \in {stopping, Nil}
    BY <1>1 DEF HostExits, bridgeVars
  <2>2. /\ plug' \in [Launches -> Promises]
        /\ \A s \in Launches : plug'[s] \in {plug[s], "gone"}
    BY <1>0, <1>1 DEF HostExits, StartsTypeOK, Promises
  <2>3. StartsTypeOK'
    BY <1>0, <1>1, <2>1, <2>2 DEF StartsTypeOK, HostExits
  <2>4. LogIsSound'
    BY <1>0, <2>1, FewerFilesKeepTheLog DEF Removes
  <2> QED BY <2>1, <2>2, <2>3, <2>4, PlugStepKeeps
<1>2. ASSUME NEW x \in Sessions, NEW h \in Hosts, StopShare(x, h) PROVE StartsInv'
  <2>1. UNCHANGED <<plug, bridge, codeOf, out, signal, files, log, hosts, logGhosts>>
    BY <1>2 DEF StopShare, bridgeVars
  <2>2. stopping' \in Stops /\ ~Removes'
    BY <1>2 DEF StopShare, Stops, Removes
  <2>3. StartsTypeOK'
    BY <1>0, <2>1, <2>2 DEF StartsTypeOK
  <2>4. LogIsSound'
    BY <1>0, <2>1, <2>2, FewerFilesKeepTheLog
  <2> QED BY <2>1, <2>3, <2>4, PlugStepKeeps
<1>3. CASE BridgeStop
  <2>1. /\ UNCHANGED <<plug, bridge, codeOf, out, log, hosts, turns, logGhosts>>
        /\ stopping \in Stops /\ Stopped(stopping.session)
        /\ stopping' \in {[stopping EXCEPT !.at = "clearing"], Nil}
    BY <1>0, <1>3 DEF BridgeStop, StartsTypeOK
  <2> PICK x \in Sessions : x = stopping.session
    BY <2>1 DEF Stops
  <2>2. /\ files' \in [Sessions -> {Nil} \cup [pid : Launches, code : Launches]]
        /\ \A y \in Sessions : files'[y] # Nil => files'[y] = files[y]
        /\ signal' \in [Launches -> BOOLEAN]
    <3>1. Stopped(x)
      BY <2>1
    <3> QED BY <1>0, <3>1, StoppingTakesAway
  <2>3. stopping' \in {Nil} \cup Stops /\ ~Removes'
    BY <2>1 DEF Stops, Removes
  <2>4. StartsTypeOK'
    BY <1>0, <2>1, <2>2, <2>3 DEF StartsTypeOK
  <2>5. LogIsSound' /\ FilesFollow
    BY <1>0, <2>1, <2>2, <2>3, FewerFilesKeepTheLog
  <2>6. GoesOn /\ CodesFollow
    BY <2>1 DEF GoesOn, CodesFollow
  <2>7. PromisesFollow
    BY <2>1 DEF PromisesFollow
  <2> QED BY <2>4, <2>5, <2>6, <2>7, FollowingKeeps DEF Follows
<1>4. CASE ReadLog
  <2>1. /\ UNCHANGED <<plug, bridge, codeOf, out, signal, files, log, hosts, turns, logGhosts>>
        /\ stopping \in Stops /\ stopping' = [stopping EXCEPT !.at = "removing", !.read = log]
    BY <1>0, <1>4 DEF ReadLog, bridgeVars, StartsTypeOK
  <2>2. stopping' \in Stops /\ stopping'.read = log
    BY <1>0, <2>1 DEF Stops, StartsTypeOK
  <2>3. StartsTypeOK'
    BY <1>0, <2>1, <2>2 DEF StartsTypeOK
  <2>4. LogIsSound'
    BY <1>0, <2>1, <2>2 DEF LogIsSound, LogFollows, LogNamesTheLastShare, IsRecorded
  <2> QED BY <2>1, <2>3, <2>4, PlugStepKeeps
<1>5. CASE ClearSpentLog
  <2>1. /\ UNCHANGED <<plug, bridge, codeOf, out, signal, files, hosts, turns, lastUp>>
        /\ Removes /\ log' = Spent(stopping.read) /\ stopping' = Nil
        /\ lostLog' = IF log' # log /\ log # stopping.read THEN log ELSE lostLog
    BY <1>5 DEF ClearSpentLog, bridgeVars, Removes
  <2>2. StartsTypeOK'
    BY <1>0, <2>1 DEF StartsTypeOK, Spent
  <2>3. LogNamesTheLastShare'
    <3>1. IsRecorded(lastUp)' <=> IsRecorded(lastUp)
      BY <2>1 DEF IsRecorded
    <3>2. SUFFICES ASSUME IsRecorded(lastUp) PROVE log' = lastUp \/ (~OneOpenCode /\ lostLog' = lastUp)
      BY <2>1, <3>1 DEF LogNamesTheLastShare
    <3>3. CASE log = lastUp
      BY <1>0, <2>1, <3>2, <3>3 DEF LogIsSound, LogFollows, Spent
    <3>4. CASE log # lastUp
      <4>1. log = Nil /\ ~OneOpenCode /\ lostLog = lastUp
        BY <1>0, <3>2, <3>4 DEF LogIsSound, LogFollows, LogNamesTheLastShare
      <4> QED BY <2>1, <4>1 DEF Spent
    <3> QED BY <3>3, <3>4
  <2>4. LogFollows'
    BY <1>0, <2>1 DEF LogIsSound, LogFollows, Spent, Removes
  <2> QED BY <2>1, <2>2, <2>3, <2>4, PlugStepKeeps DEF LogIsSound
<1> QED BY <1>1, <1>2, <1>3, <1>4, <1>5

---------------------------------------------------------------------------
(* The theorem *)

LEMMA StartsInvHolds == StartsSpec => []StartsInv
<1>1. StartsInit => StartsInv
  <2> SUFFICES ASSUME StartsInit PROVE StartsInv
    OBVIOUS
  <2>1. StartsTypeOK
    BY DEF StartsInit, StartsTypeOK, Promises, BridgePhases
  <2>2. Nil \notin Launches /\ \A c : ~IsRecorded(c)
    BY NilIsNoStart DEF StartsInit, IsRecorded
  <2>3. CancelledStartLeavesNothing /\ LogNamesTheLastShare
    BY <2>2 DEF StartsInit, CancelledStartLeavesNothing, LogNamesTheLastShare
  <2>4. CodesAreSaved /\ PromisesKeepUp /\ LogFollows
    BY <2>2 DEF StartsInit, CodesAreSaved, PromisesKeepUp, LogFollows, Removes
  <2> QED BY <2>1, <2>3, <2>4 DEF StartsInv, StartsAreSound
<1>2. StartsInv /\ [StartsNext]_startsVars => StartsInv'
  <2> SUFFICES ASSUME StartsInv, [StartsNext]_startsVars PROVE StartsInv'
    OBVIOUS
  <2>1. CASE UNCHANGED startsVars
    <3>1. UNCHANGED <<plug, bridge, codeOf, out, signal, files, log, hosts, stopping, turns, logGhosts>>
      BY <2>1 DEF startsVars, bridgeVars
    <3> QED BY <3>1 DEF StartsInv, StartsAreSound, StartsTypeOK, CancelledStartLeavesNothing, IsOwn, File,
                      LogNamesTheLastShare, IsRecorded, CodesAreSaved, PromisesKeepUp, LogFollows, Removes
  <2>2. CASE StartsNext
    <3>1. ASSUME NEW s \in Launches, BridgeSteps(s) \/ Ends(s) \/ Killed(s) PROVE StartsInv'
      BY <3>1, BridgesKeep
    <3>2. ASSUME NEW s \in Launches,
                 Start(s) \/ Check(s) \/ Timeout(s) \/ Cancel(s) \/ Exited(s) \/ EndCancelled(s)
          PROVE StartsInv'
      BY <3>2, StartKeeps, CheckKeeps, CancellingKeeps, EndCancelledKeeps
    <3> QED BY <2>2, <3>1, <3>2, UserKeeps DEF StartsNext
  <2> QED BY <2>1, <2>2
<1> QED BY <1>1, <1>2, PTL DEF StartsSpec

\* A start the plugin reports as cancelled has left no bridge that comes up later and
\* no state file of its own, and bridge.log has the code of the share that came up last
\* for as long as that share is recorded, unless a stop in another OpenCode read the log
\* before and removed it after (bridge-runner.js: cancelStart, startBridge, clearSpentLog).
THEOREM StartsStaySound == StartsSpec => []StartsAreSound
BY StartsInvHolds, PTL DEF StartsInv
=============================================================================
