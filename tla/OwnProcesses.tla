---------------------------- MODULE OwnProcesses ----------------------------
(***************************************************************************)
(* Whose process a recorded pid is (bridge/src/index.ts: shareBridgeRunning, *)
(* terminateBridgeProcess, terminateSpawnedServer, belongsToRunningShare,   *)
(* spawnedByRecordedShare).  A state file outlives the processes it names,  *)
(* and the system hands their pids out again; ps may show no process, or    *)
(* not when it started, and then a check goes without (index.ts:881, 1074). *)
(* A start may run on an `opencode serve` that is there already, but never  *)
(* on another share's.                                                      *)
(***************************************************************************)
EXTENDS Naturals, TLC

CONSTANTS
  Pids,
  SharesHere,   \* the sessions shared from this machine
  Nobody,
  Slack,    \* PID_START_SLACK_MS
  Depth,    \* SHARE_ANCESTRY_DEPTH
  Asking,   \* the longest a start takes to be registered
  Rest,     \* a pid is not handed out again sooner after its process's end
  PsShows, PsDates,   \* the sets of pids of which ps may show the process, and its start
  MaxTime   \* bound on the clock

\* What the theorem assumes of the constants.
TimesAreNumbers == {Slack, Asking, Rest} \subseteq Nat /\ Nobody \notin Pids \cup SharesHere

VARIABLES
  clock,
  procs,    \* what runs under a pid; born is the time of its end once it is gone
  records,  \* the shares' state files
  bridges     \* the shares' bridges

processVars == <<clock, procs, records, bridges>>

Process(kind, parent, of, listens) ==
  [kind |-> kind, parent |-> parent, born |-> clock, of |-> of, listens |-> listens]
Idle == [at |-> "idle", since |-> 0, pid |-> Nobody, server |-> Nobody, uses |-> Nobody]

Running == {"bridge", "serve", "other"}
Processes == [kind : Running \cup {"unused", "gone"}, parent : Pids \cup {Nobody}, born : Nat, of : SharesHere \cup {Nobody}, listens : BOOLEAN]
PidRecords == [pid : Pids, server : Pids \cup {Nobody}, at : Nat]
Bridges == [at : {"idle", "settling", "detecting", "asking", "serving"}, since : Nat,
            pid : Pids \cup {Nobody}, server : Pids \cup {Nobody}, uses : Pids \cup {Nobody}]

ProcessTypeOK ==
  /\ clock \in Nat
  /\ procs \in [Pids -> Processes]
  /\ records \in [SharesHere -> PidRecords \cup {Nobody}]
  /\ bridges \in [SharesHere -> Bridges]

ProcessInit ==
  /\ clock = 0
  /\ procs = [p \in Pids |-> Process("unused", Nobody, Nobody, FALSE)]
  /\ records = [s \in SharesHere |-> Nobody]
  /\ bridges = [s \in SharesHere |-> Idle]

---------------------------------------------------------------------------
(* Pids and processes *)

CanTake(p) == \/ procs[p].kind = "unused"
              \/ procs[p].kind = "gone" /\ clock >= procs[p].born + Rest

\* The processes of K end; their children are init's.
Survivors(K) ==
  [p \in Pids |-> IF p \in K THEN Process("gone", Nobody, Nobody, FALSE)
                  ELSE IF procs[p].parent \in K THEN [procs[p] EXCEPT !.parent = Nobody]
                  ELSE procs[p]]

BridgesWithout(K) ==
  [s \in SharesHere |-> IF bridges[s].pid \in K THEN Idle
                        ELSE IF bridges[s].uses \in K THEN [bridges[s] EXCEPT !.uses = Nobody]
                        ELSE bridges[s]]

Ended(K) == procs' = Survivors(K) /\ bridges' = BridgesWithout(K)

Children(K) == {q \in Pids : procs[q].parent \in K}

\* What ps says in one step: the pids whose process it shows, and whose start it tells.
Answers == [shown : PsShows, dated : PsDates]

TooYoung(p, at, ps) == p \in ps.dated /\ procs[p].born > at + Slack

\* refuseToSignal, refuseAsSpawnedServer
Passes(p, kind, at, ps) ==
  p \in Pids \cap ps.shown /\ procs[p].kind = kind /\ ~TooYoung(p, at, ps)

SignalledBridge(r, ps) == {p \in {r.pid} : Passes(p, "bridge", r.at, ps)}
SignalledServer(r, ps) == {p \in {r.server} : Passes(p, "serve", r.at, ps)}

Leftover(s, ps) == IF records[s] = Nobody THEN {} ELSE SignalledServer(records[s], ps)

\* A pid that is the asking process's own is a bridge's only if the record is younger;
\* one that ps does not show is taken for a bridge's if it runs.
BridgeStillRuns(r, self, ps) ==
  IF r.pid = self THEN r.at >= procs[self].born
  ELSE \/ SignalledBridge(r, ps) # {}
       \/ r.pid \notin ps.shown /\ procs[r.pid].kind \in Running

\* The n-th process above p, or Nobody once ps shows no more.
Generations == 1..Depth
Up(p, shown) ==
  LET up[n \in 0..Depth] == IF n = 0 THEN p
                            ELSE IF up[n - 1] \notin shown THEN Nobody ELSE procs[up[n - 1]].parent
  IN  up

BelongsToRunningShare(p, ps) ==
  \E n \in Generations : LET q == Up(p, ps.shown)[n] IN q \in ps.shown /\ procs[q].kind = "bridge"

SpawnedByRecordedShare(p, ps) ==
  \E n \in 0..Depth, t \in SharesHere : Up(p, ps.shown)[n] \in Leftover(t, ps)

---------------------------------------------------------------------------
(* The machine *)

Tick == clock < MaxTime /\ clock' = clock + 1 /\ UNCHANGED <<procs, records, bridges>>

\* A process of the owner's: a server of his own, or anything else.
OwnerRuns(p) ==
  /\ CanTake(p)
  /\ \E kind \in {"serve", "other"} : procs' = [procs EXCEPT ![p] = Process(kind, Nobody, Nobody, kind = "serve")]
  /\ UNCHANGED <<clock, records, bridges>>

\* SIGKILL, a crash, an exit of the owner's process.
Dies(p) ==
  /\ procs[p].kind \in Running
  /\ Ended({p})
  /\ UNCHANGED <<clock, records>>

---------------------------------------------------------------------------
(* A share's bridge *)

Launch(s, p) ==
  /\ bridges[s].at = "idle"
  /\ CanTake(p)
  /\ procs' = [procs EXCEPT ![p] = Process("bridge", Nobody, s, FALSE)]
  /\ bridges' = [bridges EXCEPT ![s] = [Idle EXCEPT !.at = "settling", !.pid = p, !.since = clock]]
  /\ UNCHANGED <<clock, records>>

\* settleEarlierShare: refused by a running bridge; a dead one's server is ended first.
Settle(s) ==
  /\ bridges[s].at = "settling"
  /\ \E ps \in Answers :
       IF records[s] # Nobody /\ BridgeStillRuns(records[s], bridges[s].pid, ps)
       THEN Ended({bridges[s].pid})
       ELSE /\ procs' = Survivors(Leftover(s, ps))
            /\ bridges' = [BridgesWithout(Leftover(s, ps)) EXCEPT ![s].at = "detecting"]
  /\ UNCHANGED <<clock, records>>

\* ensureOpenCodeServer: a server that listens and is no share's, or one of its own.
Attach(s, q) ==
  /\ bridges[s].at = "detecting"
  /\ procs[q].listens
  /\ \E ps \in Answers : ~BelongsToRunningShare(q, ps) /\ ~SpawnedByRecordedShare(q, ps)
  /\ bridges' = [bridges EXCEPT ![s].at = "asking", ![s].uses = q]
  /\ UNCHANGED <<clock, procs, records>>

Spawn(s, q) ==
  /\ bridges[s].at = "detecting"
  /\ CanTake(q)
  /\ procs' = [procs EXCEPT ![q] = Process("serve", bridges[s].pid, s, TRUE)]
  /\ bridges' = [bridges EXCEPT ![s].at = "asking", ![s].server = q, ![s].uses = q]
  /\ UNCHANGED <<clock, records>>

\* An `opencode` on PATH that is a wrapper: the real binary listens.
SpawnWrapped(s, w, q) ==
  /\ bridges[s].at = "detecting"
  /\ w # q /\ CanTake(w) /\ CanTake(q)
  /\ procs' = [procs EXCEPT ![w] = Process("serve", bridges[s].pid, s, FALSE), ![q] = Process("other", w, s, TRUE)]
  /\ bridges' = [bridges EXCEPT ![s].at = "asking", ![s].server = w, ![s].uses = q]
  /\ UNCHANGED <<clock, records>>

\* The relay accepted the share; its state is written with the time of writing.
Save(s) ==
  /\ bridges[s].at = "asking"
  /\ clock <= bridges[s].since + Asking
  /\ records' = [records EXCEPT ![s] = [pid |-> bridges[s].pid, server |-> bridges[s].server, at |-> clock]]
  /\ bridges' = [bridges EXCEPT ![s].at = "serving"]
  /\ UNCHANGED <<clock, procs>>

\* An end that runs JavaScript ends the server it spawned, and clears its own record.
Finish(s) ==
  /\ bridges[s].at # "idle"
  /\ Ended({bridges[s].pid} \cup Children({bridges[s].pid}))
  /\ records' = IF bridges[s].at = "serving" THEN [records EXCEPT ![s] = Nobody] ELSE records
  /\ UNCHANGED clock

\* `bridge stop`: a bridge ends its server, a wrapper may end what it runs.
Stop(s) ==
  /\ records[s] # Nobody
  /\ \E ps \in Answers :
       LET pids == SignalledBridge(records[s], ps)  servers == SignalledServer(records[s], ps)
       IN  \E ends \in SUBSET Children(servers) : Ended(pids \cup Children(pids) \cup servers \cup ends)
  /\ records' = [records EXCEPT ![s] = Nobody]
  /\ UNCHANGED clock

ProcessNext ==
  \/ Tick
  \/ \E p \in Pids : OwnerRuns(p) \/ Dies(p)
  \/ \E s \in SharesHere :
       \/ \E p \in Pids : Launch(s, p) \/ Attach(s, p) \/ Spawn(s, p)
       \/ \E p, q \in Pids : SpawnWrapped(s, p, q)
       \/ Settle(s) \/ Save(s) \/ Finish(s) \/ Stop(s)

ProcessSpec == ProcessInit /\ [][ProcessNext]_processVars

Symmetry == Permutations(Pids) \cup Permutations(SharesHere)

---------------------------------------------------------------------------
(* Properties *)

\* The process took the pid no sooner than `early` before `at`, and where ps tells its
\* start it took it within the slack: all that the identity check cannot tell apart.
InBlindWindow(p, early, at, ps) ==
  procs[p].born + early >= at /\ (p \in ps.dated => procs[p].born <= at + Slack)

\* Whatever ps says, and however often its pids were handed out since, what a stop or a
\* settle would signal now is the share's own, or took over a bridge's pid after the
\* record was written, or a server's since the share's start, and either within the slack
\* of the record or where ps tells no start (index.ts:872-885, 1068-1092).
StopsSpareStrangers ==
  \A s \in SharesHere, ps \in Answers : records[s] # Nobody =>
    LET at == records[s].at
    IN  /\ \A p \in SignalledBridge(records[s], ps) : procs[p].of = s \/ InBlindWindow(p, 0, at, ps)
        /\ \A p \in SignalledServer(records[s], ps) : procs[p].of = s \/ InBlindWindow(p, Asking, at, ps)

\* What ends with a share's bridge, or with a stop of the share.
EndsWith(t) ==
  UNION {Leftover(t, ps) : ps \in Answers}
    \cup (IF bridges[t].at = "idle" THEN {} ELSE Children({bridges[t].pid}))

\* No share runs on a server that the end of another share takes away (index.ts:1033-1036),
\* if ps shows and dates every process and Rest > Slack + Asking.
NobodyIsCutOff ==
  \A s, t \in SharesHere : (s # t /\ bridges[s].uses # Nobody) =>
    \A n \in 0..Depth : Up(bridges[s].uses, Pids)[n] \notin EndsWith(t)
=============================================================================
