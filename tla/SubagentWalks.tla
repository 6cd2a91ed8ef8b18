--------------------------- MODULE SubagentWalks ---------------------------
(***************************************************************************)
(* Which sessions besides its own a viewer of a share may see: subagents,  *)
(* children of the shared session in the owner's opencode                  *)
(* (relay/src/proxy/adapter.ts, 1414-1706 and 2516-2579).  The relay knows *)
(* them from the events of the share's bridge, or walks from a session to  *)
(* its parent, one request to the bridge at a time, while registrations of *)
(* the share's id come and go, each with a bridge of its own.              *)
(***************************************************************************)
EXTENDS Naturals, Sequences, FiniteSets, SequencesExt, Subsequences

CONSTANTS
  Ids,         \* sessions other than the shared one
  Root,        \* the shared session
  None,
  ParentOf,    \* what the bridge of each registration says of each session's parent
  Lists,       \* viewers that poll a filtered list
  Walks,       \* walks of lists that may be in flight
  Reads,       \* requests for a single session
  CacheMax,    \* ANCESTRY_CACHE_MAX
  MaxDepth,    \* MAX_ANCESTRY_DEPTH
  MaxWalks,    \* LIST_WALKS_IN_FLIGHT_MAX
  MaxFails,    \* bound: requests that fail
  MaxLapses,   \* bound: times that LIST_NOT_IN_SHARE_TTL_MS passes
  Unbounded    \* no bound

Regs == DOMAIN ParentOf
Tasks == Walks \cup Reads

ASSUME ParentsAreSessions == ParentOf \in Seq([Ids -> Ids \cup {Root, None}])
ASSUME WalkLimitsArePositive == {CacheMax, MaxDepth, MaxWalks} \subseteq Nat \ {0}
ASSUME BoundsAreNatural == MaxFails \in Nat /\ MaxLapses \in Nat \cup {Unbounded}
ASSUME SessionsAreFinite == IsFiniteSet(Ids) /\ IsFiniteSet(Tasks)
ASSUME NamesDiffer == {Root, None} \cap Ids = {} /\ None \notin Lists /\ Walks \cap Reads = {}

VARIABLES
  reg,        \* the registration that holds the share's id, 0 for none
  lastReg,    \* registrations so far
  alive,      \* sessions opencode has
  known,      \* ancestryOk: of each registration, the oldest first
  ruledOut,   \* notInShare, less what is older than its TTL; the oldest first
  inFlight,   \* listWalksInFlight
  task,       \* walks
  list,       \* list requests
  failures, lapses,
  appeared    \* ghost: sessions a list of this registration has shown

cacheVars == <<known, ruledOut>>
regVars == <<reg, lastReg, alive>>
boundVars == <<failures, lapses>>
walksVars == <<regVars, cacheVars, inFlight, task, list, boundVars, appeared>>

\* For a list (owner), or for a single session's route (None); it waits for the
\* answer of a registration's bridge (asked) about the last of its chain.
Idle == [owner |-> None, reg |-> 0, chain |-> <<>>, asked |-> 0]
NoList == [phase |-> "idle", reg |-> 0, inShare |-> {}]

Busy(w) == task[w].chain # <<>>

WalksTypeOK ==
  /\ reg \in 0..Len(ParentOf) /\ lastReg \in 0..Len(ParentOf)
  /\ alive \subseteq Ids
  /\ known \in [Regs -> Seq(Ids)] /\ ruledOut \in [Regs -> Seq(Ids)]
  /\ \A n \in Regs : /\ Len(known[n]) <= CacheMax /\ IsInjective(known[n])
                    /\ Len(ruledOut[n]) <= CacheMax /\ IsInjective(ruledOut[n])
  /\ inFlight \in Nat
  /\ task \in [Tasks -> [owner : Lists \cup {None}, reg : 0..Len(ParentOf), chain : Seq(Ids),
                         asked : 0..Len(ParentOf)]]
  /\ list \in [Lists -> [phase : {"idle", "fetching", "walking"},
                         reg : 0..Len(ParentOf), inShare : SUBSET (Ids \cup {Root})]]
  /\ failures \in Nat /\ lapses \in Nat
  /\ appeared \subseteq Ids

WalksInit ==
  /\ reg = 0 /\ lastReg = 0 /\ alive = {}
  /\ known = [n \in Regs |-> <<>>] /\ ruledOut = [n \in Regs |-> <<>>]
  /\ inFlight = 0
  /\ task = [w \in Tasks |-> Idle] /\ list = [l \in Lists |-> NoList]
  /\ failures = 0 /\ lapses = 0
  /\ appeared = {}

---------------------------------------------------------------------------
(* The caches of a registration *)

\* Mutant: one set for every registration of the share's id.
KnownOfAll(n) == UNION {ToSet(known[k]) : k \in Regs}

\* subagentsOf(session).has
KnownOf(n) == ToSet(known[n])

\* rememberAncestry, for each of a chain in turn, and rememberNotInShare: an id goes
\* to the newest end, the oldest make room.
Remembered(seq, chain) ==
  LastOf(Filtered(seq, Ids \ ToSet(chain)) \o chain, CacheMax)

\* What each hop of a walk leads to.
Learn(n, chain) == known' = [known EXCEPT ![n] = Remembered(@, chain)]

\* eventBelongsToSession: a session.created or session.updated of the share's own
\* bridge teaches a child of the share or of a known subagent.
Announce(id) ==
  /\ reg # 0 /\ id \in alive
  /\ ParentOf[reg][id] \in {Root} \cup KnownOf(reg)
  /\ Learn(reg, <<id>>)
  /\ UNCHANGED <<regVars, ruledOut, inFlight, task, list, boundVars, appeared>>

\* The first ids to be ruled out are as old as the TTL.
Lapse ==
  /\ MaxLapses # Unbounded => lapses < MaxLapses
  /\ reg # 0 /\ ruledOut[reg] # <<>>
  /\ \E young \in 0..Len(ruledOut[reg]) - 1 :
       ruledOut' = [ruledOut EXCEPT ![reg] = LastOf(@, young)]
  /\ lapses' = IF MaxLapses = Unbounded THEN lapses ELSE lapses + 1
  /\ UNCHANGED <<regVars, known, inFlight, task, list, failures, appeared>>

---------------------------------------------------------------------------
(* Registrations, and the owner's sessions *)

Register ==
  /\ lastReg < Len(ParentOf)
  /\ lastReg' = lastReg + 1
  /\ reg' = lastReg + 1
  /\ appeared' = {}
  /\ UNCHANGED <<alive, cacheVars, inFlight, task, list, boundVars>>

EndShare ==
  /\ reg # 0
  /\ reg' = 0
  /\ appeared' = {}
  /\ UNCHANGED <<lastReg, alive, cacheVars, inFlight, task, list, boundVars>>

\* opencode, as the last bridge has it, makes a session.
Spawn(id) ==
  /\ id \notin alive
  /\ ParentOf[Len(ParentOf)][id] \in {Root, None} \cup alive
  /\ alive' = alive \cup {id}
  /\ UNCHANGED <<reg, lastReg, cacheVars, inFlight, task, list, boundVars, appeared>>

---------------------------------------------------------------------------
(* Walks *)

\* A walk's first request, or its next; without a bridge it fails at once.
Asks(owner, n, chain) ==
  [owner |-> owner, reg |-> n, chain |-> chain, asked |-> reg]

\* readableSessionId, for a session of opencode's that is not known.
Read(w, id) ==
  /\ ~Busy(w)
  /\ reg # 0 /\ id \in alive \ KnownOf(reg)
  /\ task' = [task EXCEPT ![w] = Asks(None, reg, <<id>>)]
  /\ UNCHANGED <<regVars, cacheVars, inFlight, list, boundVars, appeared>>

\* release(), whatever became of the walk.
ReleasesSlot(w, verdict) == task[w].owner # None

\* Mutant: a walk that proved nothing counts as one that found no kinship.
UnlessProven(verdict) == verdict # "true"

\* A list remembers what is not in the share, for a while.
RulesOut(verdict) == verdict = "false"

\* The end of a walk: a proven chain is remembered, a list keeps its verdict and
\* gives its slot back.
Decide(w, verdict) ==
  LET t == task[w]  l == t.owner  id == Head(t.chain) IN
  /\ IF verdict = "true" THEN Learn(t.reg, t.chain) ELSE UNCHANGED known
  /\ IF l # None
     THEN /\ list' = IF verdict = "true" THEN [list EXCEPT ![l].inShare = @ \cup {id}] ELSE list
          /\ ruledOut' = IF RulesOut(verdict)
                         THEN [ruledOut EXCEPT ![t.reg] = Remembered(@, <<id>>)] ELSE ruledOut
     ELSE UNCHANGED <<list, ruledOut>>
  /\ inFlight' = IF ReleasesSlot(w, verdict) THEN inFlight - 1 ELSE inFlight
  /\ task' = [task EXCEPT ![w] = Idle]

\* The answer about the last of the chain: no such session, a root, the share or a
\* subagent of it, or a parent to ask about next.
Answer(w) ==
  LET t == task[w]
      parent == ParentOf[t.asked][Last(t.chain)] IN
  /\ Busy(w) /\ t.asked # 0
  /\ \/ (Last(t.chain) \notin alive \/ parent = None) /\ Decide(w, "false")
     \/ /\ Last(t.chain) \in alive
        /\ parent \in {Root} \cup KnownOf(t.reg)
        /\ Decide(w, "true")
     \/ /\ Last(t.chain) \in alive /\ parent \notin {Root, None} \cup KnownOf(t.reg)
        /\ IF parent \in ToSet(t.chain) \/ Len(t.chain) = MaxDepth
           THEN Decide(w, "false")
           ELSE /\ task' = [task EXCEPT ![w] = Asks(t.owner, t.reg, Append(t.chain, parent))]
                /\ UNCHANGED <<known, list, ruledOut, inFlight>>
  /\ UNCHANGED <<regVars, boundVars, appeared>>

\* The link or the registration is gone, or the answer is none.
Fail(w) ==
  /\ Busy(w)
  /\ task[w].asked = reg /\ reg # 0 => failures < MaxFails
  /\ failures' = IF task[w].asked = reg /\ reg # 0 THEN failures + 1 ELSE failures
  /\ Decide(w, "undefined")
  /\ UNCHANGED <<regVars, lapses, appeared>>

---------------------------------------------------------------------------
(* Filtered lists: /permission, /question, /session/status *)

\* requireViewer, and the request for the list.
Poll(l) ==
  /\ list[l].phase = "idle"
  /\ reg # 0
  /\ list' = [list EXCEPT ![l] = [phase |-> "fetching", reg |-> reg, inShare |-> {}]]
  /\ UNCHANGED <<regVars, cacheVars, inFlight, task, boundVars, appeared>>

\* The listed sessions that need no walk.
Seen(n) == {Root} \cup (alive \cap KnownOf(n))

\* takeListWalkSlot, for as long as it has one to give.
FreeSlots == MaxWalks - inFlight

\* sessionsInShare: of the listed sessions that are neither known nor ruled out as
\* many are walked as there are slots, in the order the bridge lists them.
StartWalks(l) ==
  LET n == list[l].reg
      unknown == alive \ (KnownOf(n) \cup ToSet(ruledOut[n]))
      free == {w \in Walks : ~Busy(w)} IN
  /\ list[l].phase = "fetching"
  /\ \E go \in SUBSET unknown :
       /\ Cardinality(go) = Min({Cardinality(unknown), FreeSlots})
       /\ \E at \in [go -> free] :
            /\ IsInjective(at)
            /\ task' = [w \in Tasks |->
                 IF \E i \in go : at[i] = w
                 THEN Asks(l, n, <<CHOOSE i \in go : at[i] = w>>) ELSE task[w]]
       /\ inFlight' = inFlight + Cardinality(go)
  /\ list' = [list EXCEPT ![l] = [phase |-> "walking", reg |-> n, inShare |-> Seen(n)]]
  /\ UNCHANGED <<regVars, cacheVars, boundVars, appeared>>

\* All its walks are over: the viewer gets what is in the share.
Show(l) ==
  /\ list[l].phase = "walking"
  /\ \A w \in Tasks : Busy(w) => task[w].owner # l
  /\ list' = [list EXCEPT ![l] = NoList]
  /\ appeared' = IF list[l].reg = reg THEN appeared \cup (list[l].inShare \ {Root}) ELSE appeared
  /\ UNCHANGED <<regVars, cacheVars, inFlight, task, boundVars>>

\* The request for the list fails.
ListFails(l) ==
  /\ list[l].phase = "fetching"
  /\ list[l].reg # reg
  /\ list' = [list EXCEPT ![l] = NoList]
  /\ UNCHANGED <<regVars, cacheVars, inFlight, task, boundVars, appeared>>

---------------------------------------------------------------------------
WalksNext ==
  \/ Register \/ EndShare \/ Lapse
  \/ \E id \in Ids : Spawn(id) \/ Announce(id)
  \/ \E w \in Tasks : Answer(w) \/ Fail(w)
  \/ \E w \in Reads, id \in Ids : Read(w, id)
  \/ \E l \in Lists : Poll(l) \/ StartWalks(l) \/ Show(l) \/ ListFails(l)

\* Every request of a walk is answered or fails, and viewers poll on.
Fairness ==
  /\ \A w \in Tasks : WF_walksVars(Answer(w) \/ Fail(w))
  /\ \A l \in Lists : WF_walksVars(Poll(l)) /\ WF_walksVars(StartWalks(l)) /\ WF_walksVars(Show(l)) /\ WF_walksVars(ListFails(l))

WalksSpec == WalksInit /\ [][WalksNext]_walksVars /\ Fairness

---------------------------------------------------------------------------
(* Properties *)

\* The subagents of the share by the word of each registration's bridge: the least
\* set with every session whose parent is the share or in it.
Closed(n, S) == \A id \in Ids : ParentOf[n][id] \in {Root} \cup S => id \in S

Subagents ==
  [n \in Regs |-> {id \in Ids : \A S \in SUBSET Ids : Closed(n, S) => id \in S}]

(* What one bridge reports never widens what the viewers of another share    *)
(* see, not a later share of the same id either: the sessions a registration *)
(* remembers or shows in a list are subagents by the word of its own bridge, *)
(* whoever answered the walks that were under way as it took the id.         *)
OnlyItsOwnSubagents ==
  reg # 0 =>
    /\ KnownOf(reg) \subseteq Subagents[reg]
    /\ \A l \in Lists : list[l].reg = reg => list[l].inShare \subseteq {Root} \cup Subagents[reg]

(* A share's slots for walks are those of the walks its lists have in flight: *)
(* none is lost to a failure, and no list takes more than there are.          *)
WalkSlotsAreExact ==
  /\ inFlight = Cardinality({w \in Tasks : Busy(w) /\ task[w].owner # None})
  /\ inFlight <= MaxWalks

(* Both, with every variable of its type.                                     *)
WalksAreSound == WalksTypeOK /\ OnlyItsOwnSubagents /\ WalkSlotsAreExact

\* The sessions listed besides id do not all fit the two memories, so that lists
\* may go on walking those that were let go of.
Crowded(n, id) ==
  LET others == alive \ {id} IN
  \/ Cardinality(others \cap Subagents[n]) > CacheMax
  \/ Cardinality(others \ Subagents[n]) > CacheMax

(* A subagent with a pending prompt appears in a viewer's list sooner or      *)
(* later, however few walks a list may start, as long as the sessions ahead   *)
(* of it fit what the share remembers (ANCESTRY_CACHE_MAX of each kind), and  *)
(* viewers poll on before that memory lapses (MaxLapses).                     *)
PendingPromptAppears ==
  \A n \in Regs, id \in Ids :
    reg = n /\ id \in alive \cap Subagents[n] ~> reg # n \/ id \in appeared \/ Crowded(n, id)

(* "Nothing is lost for good", whatever the list holds: a statement of the    *)
(* source's comments that the code does not keep.  With more foreign sessions *)
(* ahead than are remembered, every poll walks some of them anew.             *)
NothingIsLostForGood ==
  \A n \in Regs, id \in Ids :
    reg = n /\ id \in alive \cap Subagents[n] ~> reg # n \/ id \in appeared
=============================================================================
