--------------------------- MODULE ShareRegistry ---------------------------
(***************************************************************************)
(* The relay's registration store (src/relay/src/store.ts) together with   *)
(* the HTTP handlers that drive it (src/relay/src/api/skill.ts), the       *)
(* bridge sockets that touch it (src/relay/src/ws/bridge.ts) and the       *)
(* orphan reaper and restart of src/relay/src/server.ts.                   *)
(*                                                                         *)
(* It answers who may register a session id, how long an ended share's id  *)
(* stays reserved for the install that shared it, and which share a full   *)
(* relay may end to make room.                                             *)
(*                                                                         *)
(* Node runs every handler to completion, so a handler is one action.  Two *)
(* loops record one claim per iteration, the reaper's and restore()'s: an  *)
(* iteration is one step, and Idle keeps every other action out until the  *)
(* loop is done.                                                           *)
(***************************************************************************)
EXTENDS Naturals, FiniteSets

CONSTANTS
  Ids,            \* session ids (the id in the share link)
  Owners,         \* installs, as the owner_key each one proves
  NoOwner,        \* a registration made without an owner_key
  Addrs,          \* addresses registrations come from
  Registrants,    \* <<key, addr>>: who registers, and from which address
  NoAddr,         \* the empty created_by_ip of a plaintext state file
  Blocks,         \* address blocks (claimBucketKey)
  Block,          \* the block of each address, of NoAddr included
  None,           \* an absent record or an unset field
  MaxSessions,    \* maxSessions()
  MaxTracking,    \* config.maxTrackingEntries
  PerWindow,      \* config.registrationsPerWindow
  MaxActive,      \* config.maxActiveSessionsPerIp
  RegWindow,      \* config.registrationWindowMs
  UnboundReap,    \* config.unboundReapMs
  DepartedAfter,  \* departedBridgeMs()
  IdleReap,       \* config.orphanReapMs
  ClaimTtl,       \* config.ownerClaimTtlMs
  Encrypted,      \* whether the state file is encrypted (it keeps codes and addresses)
  MaxNow          \* bound on the clock, for model checking only

RestoredBucket(id) == <<"restored", id>>
Buckets == Blocks \cup {RestoredBucket(id) : id \in Ids}

Session == [owner           : Owners \cup {NoOwner},
            addr            : Addrs \cup {NoAddr},
            code            : BOOLEAN,   \* the code's hash is known (code_hash # '')
            created_at      : Nat,
            last_seen       : Nat,
            unbound_since   : Nat \cup {None},
            bridge_alive_at : Nat \cup {None},
            registered_at   : Nat]       \* history only: when createSession built the record

Claim    == [owner : Owners, at : Nat, bucket : Buckets]
Counter  == [count : Nat, windowStart : Nat]
Restorable == [id : Ids, owner : Owners, at : Nat, bucket : Buckets]

Refusals == {"session_exists", "session_reserved", "rate_limited", "relay_full"}
Answers  == Refusals \cup {"created", "resumed", "deleted", "none"}

ASSUME ConstantsAreApart ==
  /\ NoOwner \notin Owners
  /\ NoAddr \notin Addrs
  /\ None \notin Session
  /\ None \notin Claim
  /\ None \notin Counter
  /\ None \notin Nat

ASSUME RegistrantsAreKnown == Registrants \subseteq (Owners \cup {NoOwner}) \X Addrs

ASSUME BlockIsTotal == Block \in [Addrs \cup {NoAddr} -> Blocks]

ASSUME LimitsAreNaturals ==
  /\ {MaxSessions, MaxTracking, PerWindow, MaxActive} \subseteq Nat \ {0}
  /\ {RegWindow, UnboundReap, DepartedAfter, IdleReap, ClaimTtl, MaxNow} \subseteq Nat
  /\ Encrypted \in BOOLEAN
  /\ IsFiniteSet(Ids)
  /\ IsFiniteSet(Addrs)

VARIABLES
  now,            \* the relay's clock
  sessions,       \* Store.sessions: the registration of each id, or None
  claims,         \* Store.claims: the reservation of each id, or None
  registrations,  \* Store.registrations: the hourly counter of each address, or None
  connected,      \* ids whose bridge socket is OPEN (BridgeClient.isConnected)
  closing,        \* ids with an old socket still in its closing handshake
  restoredAt,     \* Store.restoredAt
  reaping,        \* the reaper's loop is part-way
  toRestore,      \* claims restore() still has to insert
  answer          \* what the last request was answered

vars == <<now, sessions, claims, registrations, connected, closing,
          restoredAt, reaping, toRestore, answer>>

TypeOK ==
  /\ now \in Nat
  /\ sessions \in [Ids -> Session \cup {None}]
  /\ claims \in [Ids -> Claim \cup {None}]
  /\ registrations \in [Addrs -> Counter \cup {None}]
  /\ connected \subseteq Ids
  /\ closing \subseteq Ids
  /\ restoredAt \in Nat
  /\ reaping \in BOOLEAN
  /\ toRestore \subseteq Restorable
  /\ answer \in Answers

Init ==
  /\ now = 0
  /\ sessions = [id \in Ids |-> None]
  /\ claims = [id \in Ids |-> None]
  /\ registrations = [a \in Addrs |-> None]
  /\ connected = {}
  /\ closing = {}
  /\ restoredAt = 0
  /\ reaping = FALSE
  /\ toRestore = {}
  /\ answer = "none"

Idle == ~reaping /\ toRestore = {}

---------------------------------------------------------------------------
(* Reading the store *)

Present(f) == {x \in DOMAIN f : f[x] # None}
Live       == Present(sessions)
Bound(id)  == sessions[id] # None /\ sessions[id].unbound_since = None
Lapsed(c)  == now - c.at > ClaimTtl

\* Mutant: a registration that presents no key is not compared.
KeylessPasses(stored, key) == key = NoOwner \/ stored = key

\* ownerKeyMatches: a missing key, stored or presented, proves nothing.
OwnerKeyMatches(stored, key) == key # NoOwner /\ stored = key

\* Store.liveClaim drops the lapsed claim it finds on the id.
WithoutLapsed(cl, id) ==
  IF cl[id] # None /\ Lapsed(cl[id]) THEN [cl EXCEPT ![id] = None] ELSE cl

\* Mutant: only a key that differs is turned away, not a missing one.
ReservedAgainstOtherKeys(cl, id, key) ==
  cl[id] # None /\ ~Lapsed(cl[id]) /\ key # NoOwner /\ cl[id].owner # key

ReservedAgainst(cl, id, key) ==
  /\ cl[id] # None
  /\ ~Lapsed(cl[id])
  /\ ~OwnerKeyMatches(cl[id].owner, key)

---------------------------------------------------------------------------
(* Reservations: recordClaim, makeClaimRoom, pruneClaims *)

InBlock(cl, b) == {id \in Present(cl) : cl[id].bucket = b}

BlockSize(cl, b) == Cardinality(InBlock(cl, b))

\* The crowded block makeClaimRoom picks: the largest with two claims or more,
\* the inserting one on a tie.
CrowdedBlocks(cl, inserting) ==
  LET crowded == {b \in {cl[id].bucket : id \in Present(cl)} : BlockSize(cl, b) >= 2}
      largest == {b \in crowded : \A c \in crowded : BlockSize(cl, c) <= BlockSize(cl, b)}
  IN IF inserting \in largest THEN {inserting} ELSE largest

OldestOf(cl, ids) == {id \in ids : \A other \in ids : cl[id].at <= cl[other].at}

\* Mutant: the oldest claim of the map makes room, whoever holds it.
OldestAnywhere(cl, inserting) == OldestOf(cl, Present(cl))

\* The claims makeClaimRoom may displace for an insert from this block; none
\* when room cannot be had fairly.
Displaceable(cl, inserting) ==
  UNION {OldestOf(cl, InBlock(cl, b)) :
           b \in {c \in CrowdedBlocks(cl, inserting) :
                    BlockSize(cl, c) <= BlockSize(cl, inserting)}}

\* Every claims map that inserting one claim can leave: the full map with
\* nothing displaced when there is no room.
Inserted(cl, id, claim) ==
  IF cl[id] # None \/ Cardinality(Present(cl)) < MaxTracking
  THEN {[cl EXCEPT ![id] = claim]}
  ELSE IF Displaceable(cl, claim.bucket) = {}
       THEN {cl}
       ELSE {[cl EXCEPT ![victim] = None, ![id] = claim] :
               victim \in Displaceable(cl, claim.bucket)}

PruneClaims(cl) ==
  [id \in Ids |-> IF cl[id] # None /\ Lapsed(cl[id]) THEN None ELSE cl[id]]

\* recordClaim: a registration no bridge took up, or one made without a key,
\* reserves nothing and leaves the id's claim as it was.
RecordClaim(cl, id, s) ==
  IF s.unbound_since # None \/ s.owner = NoOwner
  THEN {cl}
  ELSE Inserted(PruneClaims(cl), id, [owner |-> s.owner, at |-> now, bucket |-> Block[s.addr]])

---------------------------------------------------------------------------
(* The per-address counters and caps: registrations, checkRegistrationLimit *)

InWindow(counter) == now - counter.windowStart < RegWindow

PruneRegistrations(regs) ==
  [a \in Addrs |-> IF regs[a] # None /\ ~InWindow(regs[a]) THEN None ELSE regs[a]]

\* commitRegistration: the counters it can leave (setBounded evicts the oldest).
Committed(regs, addr) ==
  LET pruned == PruneRegistrations(regs)
      first  == [count |-> 1, windowStart |-> now]
      oldest == {a \in Present(pruned) :
                   \A b \in Present(pruned) : pruned[a].windowStart <= pruned[b].windowStart}
  IN IF pruned[addr] # None
     THEN {[pruned EXCEPT ![addr].count = @ + 1]}
     ELSE IF Cardinality(Present(pruned)) < MaxTracking
          THEN {[pruned EXCEPT ![addr] = first]}
          ELSE {[pruned EXCEPT ![a] = None, ![addr] = first] : a \in oldest}

ActiveFrom(ss, addr) == {id \in Present(ss) : ss[id].addr = addr}

RateLimited(ss, addr) ==
  \/ /\ registrations[addr] # None
     /\ InWindow(registrations[addr])
     /\ registrations[addr].count >= PerWindow
  \/ Cardinality(ActiveFrom(ss, addr)) >= MaxActive

\* Mutant: one session more than the cap.
FullBeyondCap(ss, id) == ss[id] = None /\ Cardinality(Present(ss)) > MaxSessions

Full(ss, id) == ss[id] = None /\ Cardinality(Present(ss)) >= MaxSessions

---------------------------------------------------------------------------
(* Making room on a full relay: reapOrphans, evictDepartedShare *)

Max2(a, b) == IF a >= b THEN a ELSE b

\* Mutant: the short limit also ends shares that a bridge did take up.
UntakenByAge(s) == now - s.last_seen > UnboundReap

Untaken(s) == s.unbound_since # None /\ now - s.unbound_since > UnboundReap

\* reapOrphans with no idle limit: only registrations no bridge took up, none
\* of which reserves its id.
UntakenReaped(id) ==
  IF Full(sessions, id)
  THEN [i \in Ids |-> IF sessions[i] # None /\ Untaken(sessions[i]) THEN None ELSE sessions[i]]
  ELSE sessions

CountersAfterReap(id) ==
  IF Full(sessions, id) THEN PruneRegistrations(registrations) ELSE registrations

\* What evictDepartedShare counts a share's silence from.
SeenAt(s) ==
  Max2(IF s.bridge_alive_at # None THEN s.bridge_alive_at ELSE s.created_at, restoredAt)

\* Mutant: a share whose bridge is back but not proven alive may go.
DepartedUnlessProven(ss) ==
  {id \in Present(ss) : ss[id].unbound_since = None /\ now - SeenAt(ss[id]) > DepartedAfter}


Departed(ss) ==
  {id \in Present(ss) : /\ ss[id].unbound_since = None
                        /\ id \notin connected
                        /\ now - SeenAt(ss[id]) > DepartedAfter}

LongestDeparted(ss) ==
  {id \in Departed(ss) : \A other \in Departed(ss) : SeenAt(ss[id]) <= SeenAt(ss[other])}

---------------------------------------------------------------------------
(* POST /api/sessions: checkRegistrationLimit, createSession,              *)
(* commitRegistration and, for a replaced registration, disconnect, in one *)
(* synchronous handler.                                                    *)

ClaimsSeen(ss, id) == IF ss[id] = None THEN WithoutLapsed(claims, id) ELSE claims

\* The refusals, in the order the handler reaches them.
RefuseRegistration(id, key, addr) ==
  LET ss == UntakenReaped(id) IN
  /\ Idle
  /\ \/ /\ RateLimited(ss, addr)
        /\ answer' = "rate_limited"
        /\ UNCHANGED claims
     \/ /\ ~RateLimited(ss, addr)
        /\ ss[id] = None
        /\ claims' = WithoutLapsed(claims, id)
        /\ \/ /\ ReservedAgainst(claims, id, key)
              /\ answer' = "session_reserved"
           \/ /\ ~ReservedAgainst(claims, id, key)
              /\ Full(ss, id)
              /\ Departed(ss) = {}
              /\ answer' = "relay_full"
     \/ /\ ~RateLimited(ss, addr)
        /\ ss[id] # None
        /\ ~OwnerKeyMatches(ss[id].owner, key)
        /\ answer' = "session_exists"
        /\ UNCHANGED claims
  /\ sessions' = ss
  /\ registrations' = CountersAfterReap(id)
  /\ UNCHANGED <<now, connected, closing, restoredAt, reaping, toRestore>>

Allowed(id, key, addr) ==
  LET ss == UntakenReaped(id) IN
  /\ ~RateLimited(ss, addr)
  /\ IF ss[id] = None
     THEN /\ ~ReservedAgainst(claims, id, key)
          /\ Full(ss, id) => Departed(ss) # {}
     ELSE OwnerKeyMatches(ss[id].owner, key)

\* What is left of the sessions and the claims once there is room for id.
RoomMade(id) ==
  LET ss == UntakenReaped(id)
      cl == ClaimsSeen(ss, id)
  IN IF Full(ss, id)
     THEN UNION {{<<[ss EXCEPT ![gone] = None], after>> : after \in RecordClaim(cl, gone, ss[gone])} :
                   gone \in LongestDeparted(ss)}
     ELSE {<<ss, cl>>}

\* Mutant: only the end of a share records a claim, not its replacement.
SupersedingUnrecorded(cl, ss, id) == {cl}

\* A live share that a registration of its id replaces or resumes earns its
\* reservation now.
Superseding(cl, ss, id) == IF ss[id] = None THEN {cl} ELSE RecordClaim(cl, id, ss[id])

\* A registration resumes its id's live share when it presents the share's code.
Resumes(ss, id, presentsCode) == ss[id] # None /\ presentsCode /\ ss[id].code

NewSession(ss, id, key, addr, resumed) ==
  [owner |-> key, addr |-> addr, code |-> TRUE,
   created_at |-> IF resumed THEN ss[id].created_at ELSE now,
   last_seen |-> now, unbound_since |-> now, bridge_alive_at |-> None,
   registered_at |-> now]

AcceptRegistration(id, key, addr, presentsCode) ==
  /\ Idle
  /\ Allowed(id, key, addr)
  /\ \E room \in RoomMade(id) :
       LET ss      == room[1]
           resumed == Resumes(ss, id, presentsCode)
       IN /\ claims' \in Superseding(room[2], ss, id)
          /\ sessions' = [ss EXCEPT ![id] = NewSession(ss, id, key, addr, resumed)]
          /\ answer' = IF resumed THEN "resumed" ELSE "created"
  /\ registrations' \in Committed(CountersAfterReap(id), addr)
  /\ connected' = connected \ {id}
  /\ closing' = closing \cup ({id} \cap connected)
  /\ UNCHANGED <<now, restoredAt, reaping, toRestore>>

Register(id, key, addr) ==
  \/ RefuseRegistration(id, key, addr)
  \/ \E presentsCode \in BOOLEAN : AcceptRegistration(id, key, addr, presentsCode)

---------------------------------------------------------------------------
(* DELETE /api/sessions/:id by the bridge that holds its token *)

Delete(id) ==
  /\ Idle
  /\ sessions[id] # None
  /\ sessions' = [sessions EXCEPT ![id] = None]
  /\ claims' \in RecordClaim(claims, id, sessions[id])
  /\ connected' = connected \ {id}
  /\ closing' = closing \cup ({id} \cap connected)
  /\ answer' = "deleted"
  /\ UNCHANGED <<now, registrations, restoredAt, reaping, toRestore>>

---------------------------------------------------------------------------
(* Bridge sockets: touchSession and who calls it *)

Touched(s, provenLife) ==
  [s EXCEPT !.last_seen = now,
            !.unbound_since = None,
            !.bridge_alive_at = IF provenLife THEN now ELSE @]

TouchSession(id, provenLife) ==
  sessions' = IF sessions[id] = None
              THEN sessions
              ELSE [sessions EXCEPT ![id] = Touched(@, provenLife)]

\* A bridge dials in, or dials again: only the current registration's token
\* passes the upgrade.
Connect(id) ==
  /\ Idle
  /\ sessions[id] # None
  /\ connected' = connected \cup {id}
  /\ TouchSession(id, FALSE)
  /\ answer' = "none"
  /\ UNCHANGED <<now, claims, registrations, closing, restoredAt, reaping, toRestore>>

\* A pong, a byte or a proxied request: proven life once the socket has stayed
\* open for a ping interval.
BridgeAlive(id, provenLife) ==
  /\ Idle
  /\ id \in connected
  /\ TouchSession(id, provenLife)
  /\ answer' = "none"
  /\ UNCHANGED <<now, claims, registrations, connected, closing, restoredAt, reaping, toRestore>>

\* The same listener on a socket that disconnect() is still closing.
ClosingSocketAlive(id, provenLife) ==
  /\ Idle
  /\ id \in closing
  /\ TouchSession(id, provenLife)
  /\ answer' = "none"
  /\ UNCHANGED <<now, claims, registrations, connected, closing, restoredAt, reaping, toRestore>>

LinkDrops(id) ==
  /\ Idle
  /\ id \in connected
  /\ connected' = connected \ {id}
  /\ answer' = "none"
  /\ UNCHANGED <<now, sessions, claims, registrations, closing, restoredAt, reaping, toRestore>>

ClosingEnds(id) ==
  /\ Idle
  /\ id \in closing
  /\ closing' = closing \ {id}
  /\ answer' = "none"
  /\ UNCHANGED <<now, sessions, claims, registrations, connected, restoredAt, reaping, toRestore>>

\* A successful POST /api/activate also moves last_seen.
ViewerJoins(id) ==
  /\ Idle
  /\ sessions[id] # None
  /\ sessions[id].code
  /\ sessions' = [sessions EXCEPT ![id].last_seen = now]
  /\ answer' = "none"
  /\ UNCHANGED <<now, claims, registrations, connected, closing, restoredAt, reaping, toRestore>>

---------------------------------------------------------------------------
(* The reaper: one session per iteration of reapOrphans *)

Expired(s) == now - s.last_seen > IdleReap \/ Untaken(s)

ExpiredIn(ss) == {id \in Present(ss) : Expired(ss[id])}

Reap(id) ==
  /\ toRestore = {}
  /\ id \in ExpiredIn(sessions)
  /\ sessions' = [sessions EXCEPT ![id] = None]
  /\ claims' \in RecordClaim(claims, id, sessions[id])
  /\ connected' = connected \ {id}
  /\ closing' = closing \cup ({id} \cap connected)
  /\ reaping' = (ExpiredIn(sessions') # {})
  /\ registrations' = PruneRegistrations(registrations)
  /\ answer' = "none"
  /\ UNCHANGED <<now, restoredAt, toRestore>>

---------------------------------------------------------------------------
(* A restart: the final snapshot of one process, restored by the next *)

\* What one session's record is once the next process restored it at time t.
Restored(s, t) ==
  [s EXCEPT !.addr = IF Encrypted THEN @ ELSE NoAddr,
            !.code = @ /\ Encrypted,
            !.unbound_since = IF @ = None THEN None ELSE t,
            !.bridge_alive_at = None]

RestoredFrom(t) == {id \in Live : t - sessions[id].last_seen <= IdleReap}

FileClaims(t) ==
  {[id |-> id, owner |-> claims[id].owner, at |-> claims[id].at,
    bucket |-> IF Encrypted THEN claims[id].bucket ELSE RestoredBucket(id)] :
     id \in {i \in Present(claims) : t - claims[i].at <= ClaimTtl}}

\* The claims of shares restore() drops as idle, if a bridge ever took them up.
IdleClaims(t) ==
  {[id |-> id, owner |-> sessions[id].owner, at |-> sessions[id].last_seen,
    bucket |-> IF Encrypted /\ sessions[id].addr # NoAddr
               THEN Block[sessions[id].addr]
               ELSE RestoredBucket(id)] :
     id \in {i \in Live \ RestoredFrom(t) :
               /\ sessions[i].unbound_since = None
               /\ sessions[i].owner # NoOwner
               /\ t - sessions[i].last_seen <= ClaimTtl}}

Restart(downtime) ==
  LET t == now + downtime IN
  /\ Idle
  /\ t <= MaxNow
  /\ now' = t
  /\ sessions' = [id \in Ids |-> IF id \in RestoredFrom(t) THEN Restored(sessions[id], t) ELSE None]
  /\ claims' = [id \in Ids |-> None]
  /\ toRestore' = FileClaims(t) \cup IdleClaims(t)
  /\ restoredAt' = IF RestoredFrom(t) = {} THEN 0 ELSE t
  /\ registrations' = [a \in Addrs |-> None]
  /\ connected' = {}
  /\ closing' = {}
  /\ answer' = "none"
  /\ UNCHANGED reaping

\* One claim of restore()'s loop, oldest first; an id that has one keeps it.
RestoreClaim(c) ==
  /\ c \in toRestore
  /\ \A other \in toRestore : c.at <= other.at
  /\ claims' \in IF claims[c.id] # None
                 THEN {claims}
                 ELSE Inserted(claims, c.id, [owner |-> c.owner, at |-> c.at, bucket |-> c.bucket])
  /\ toRestore' = toRestore \ {c}
  /\ answer' = "none"
  /\ UNCHANGED <<now, sessions, registrations, connected, closing, restoredAt, reaping>>

\* Time passes in steps longer than a closing handshake.
Tick ==
  /\ Idle
  /\ closing = {}
  /\ now < MaxNow
  /\ now' = now + 1
  /\ answer' = "none"
  /\ UNCHANGED <<sessions, claims, registrations, connected, closing, restoredAt, reaping, toRestore>>

---------------------------------------------------------------------------
Next ==
  \/ \E id \in Ids, from \in Registrants : Register(id, from[1], from[2])
  \/ \E id \in Ids : Delete(id)
  \/ \E id \in Ids : Connect(id)
  \/ \E id \in Ids, provenLife \in BOOLEAN : BridgeAlive(id, provenLife)
  \/ \E id \in Ids, provenLife \in BOOLEAN : ClosingSocketAlive(id, provenLife)
  \/ \E id \in Ids : LinkDrops(id)
  \/ \E id \in Ids : ClosingEnds(id)
  \/ \E id \in Ids : ViewerJoins(id)
  \/ \E id \in Ids : Reap(id)
  \/ \E downtime \in 0..MaxNow : Restart(downtime)
  \/ \E c \in toRestore : RestoreClaim(c)
  \/ Tick

Spec == Init /\ [][Next]_vars

---------------------------------------------------------------------------
(* Safety *)

(* A reservation and a live registration of the same id always name the    *)
(* same install: createSession refuses a key the claim does not match, and *)
(* nothing reads a claim while a session holds its id.                     *)
HolderMatchesClaim ==
  \A id \in Ids :
    sessions[id] # None /\ claims[id] # None => claims[id].owner = sessions[id].owner

(* A bridge socket is open only for a live registration that counts as     *)
(* taken up, so neither the unbound sweep of a full relay nor an eviction  *)
(* leaves a socket behind for a share that is gone.                        *)
SocketsAreBound == \A id \in connected : Bound(id)

(* The caps hold however registrations, evictions and restarts interleave: *)
(* the relay's sessions, one address's sessions and hourly registrations,  *)
(* and the reservation map.                                                *)
WithinLimits ==
  /\ Cardinality(Live) <= MaxSessions
  /\ \A a \in Addrs : Cardinality(ActiveFrom(sessions, a)) <= MaxActive
  /\ \A a \in Addrs : registrations[a] # None => registrations[a].count <= PerWindow
  /\ Cardinality(Present(claims)) <= MaxTracking

(* The records, the reservations and the sockets agree at every moment.     *)
StoreIsSound == TypeOK /\ HolderMatchesClaim /\ SocketsAreBound

---------------------------------------------------------------------------
(* What a step may do *)

\* The installs an id belongs to: its live share's, or those it is kept for.
KeptFor(id) ==
  {c.owner : c \in {r \in toRestore : r.id = id}}
    \cup (IF claims[id] # None /\ ~Lapsed(claims[id]) THEN {claims[id].owner} ELSE {})

HeldBy(id) ==
  IF Bound(id) /\ sessions[id].owner # NoOwner THEN {sessions[id].owner} ELSE KeptFor(id)

(* While a share with an owner_key lives, or its reservation lasts, its id  *)
(* is registered by no other install: not by a keyless registration, not    *)
(* after an eviction, a reap or a restart.                                  *)
IdStaysWithItsInstall ==
  [][\A id \in Ids : HeldBy(id) # {} /\ sessions'[id] # None
                       => sessions'[id].owner \in HeldBy(id)]_vars

\* The bridged share on this id ends in this step, or gives way to a new
\* registration that no bridge has taken up yet.
ShareEnds(id) ==
  /\ Bound(id)
  /\ sessions'[id] # None => sessions'[id].unbound_since # None

Recorded(id, owner) ==
  \/ claims'[id] # None /\ claims'[id].owner = owner
  \/ \E c \in toRestore' : c.id = id /\ c.owner = owner

(* Every way a bridged share with a key can end (a stop, the reaper, an     *)
(* eviction, its owner's replacement or resume, a restart that drops it as  *)
(* idle) leaves its id reserved for the owner, unless the map is full or    *)
(* the share was silent for longer than a reservation lasts.                *)
EndedShareStaysReserved ==
  [][\A id \in Ids :
       ShareEnds(id) /\ sessions[id].owner # NoOwner
         => \/ Recorded(id, sessions[id].owner)
            \/ Cardinality(Present(claims')) >= MaxTracking
            \/ now' - sessions[id].last_seen > ClaimTtl]_vars

\* A claim of the same block was inserted in this step.
OwnBlockInserted(b) ==
  \E j \in Ids : claims[j] = None /\ claims'[j] # None /\ claims'[j].bucket = b

(* A reservation is lost before its term only to its own address block, and *)
(* only while that block holds several: a flood from other blocks displaces *)
(* nobody's claim, and a restart loses one only to a full map.              *)
ClaimKeptForItsTerm ==
  [][/\ \A id \in Ids :
          claims[id] # None /\ now' - claims[id].at <= ClaimTtl
            => \/ Recorded(id, claims[id].owner)
               \/ /\ OwnBlockInserted(claims[id].bucket)
                  /\ BlockSize(PruneClaims(claims), claims[id].bucket) >= 2
     /\ \A c \in toRestore \ toRestore' :
          \/ Recorded(c.id, c.owner)
          \/ Cardinality(Present(claims')) >= MaxTracking]_vars

(* A registration that is refused has ended no share and dropped no bridge, *)
(* however full the relay was when it came in.                              *)
RefusalEndsNoShare ==
  [][answer' \in Refusals =>
       /\ connected' = connected
       /\ \A id \in Ids : Bound(id) => sessions'[id] = sessions[id]]_vars

\* Bridged shares that this step takes out of the store.
EndedNow == {id \in Ids : Bound(id) /\ sessions'[id] = None}

(* A registration that is granted ends at most one other share, one whose   *)
(* bridge is away, that showed no life since the restart or since its last  *)
(* proven life for longer than DepartedAfter, and whose silence is the      *)
(* longest of those.                                                        *)
RoomComesFromOneDepartedShare ==
  [][answer' \in {"created", "resumed"} =>
       /\ Cardinality(EndedNow) <= 1
       /\ \A id \in EndedNow :
            LET life(i) == IF sessions[i].bridge_alive_at = None THEN 0 ELSE sessions[i].bridge_alive_at
            IN /\ id \notin connected
               /\ now - restoredAt > DepartedAfter
               /\ now - life(id) > DepartedAfter
               /\ \A other \in Ids \ connected :
                    Bound(other) /\ now - SeenAt(sessions[other]) > DepartedAfter
                      => SeenAt(sessions[id]) <= SeenAt(sessions[other])]_vars

---------------------------------------------------------------------------
(* Statements of the source's comments that the code does not keep *)

(* "Silent" is counted "from the last sign of life of a bridge that stayed  *)
(* a ping interval, or from the registration when none has": a share whose  *)
(* registration is recent is not evicted.  A resumed registration keeps the *)
(* first one's created_at and loses bridge_alive_at.                        *)
EvictedOnlyAfterSilence ==
  [][answer' \in {"created", "resumed"} =>
       \A id \in EndedNow : now - sessions[id].registered_at > DepartedAfter]_vars

(* unbound_since is "set while no bridge has connected to this              *)
(* registration": only a bridge socket of its own clears it.  A socket that *)
(* disconnect() is closing still refreshes the id's new registration.       *)
BoundOnlyByItsBridge ==
  [][\A id \in Ids :
       sessions[id] # None /\ sessions[id].unbound_since # None /\ Bound(id)'
         => id \in connected']_vars

(* A share that restore() drops as idle is reserved from its last sign of   *)
(* life on, as one the reaper ends is: "a claim it already holds is at      *)
(* least as recent as the file".  The file's own older claim on the id      *)
(* wins instead.                                                            *)
ReservedFromItsEnd ==
  [][\A c \in toRestore \ toRestore' :
       claims'[c.id] # None => claims'[c.id].at >= c.at]_vars

=============================================================================
