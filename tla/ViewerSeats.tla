---------------------------- MODULE ViewerSeats ----------------------------
(***************************************************************************)
(* Joining a share and staying in it (Store.activate and the viewers' half *)
(* of src/relay/src/store.ts), for one session id: the access code, the     *)
(* lock on wrong guesses, the cap on minted tokens, the viewers' seats, the *)
(* lookup index, and what a replacement, a resume and a restart leave of    *)
(* them.                                                                   *)
(*                                                                         *)
(* A code is the number of the share it was minted for; a resume continues  *)
(* its share and keeps its code.  A digest is what it is a digest of.  The  *)
(* FIFO bound of the counters (maxTrackingEntries) is left out.             *)
(***************************************************************************)
EXTENDS Naturals, Sequences, FiniteSets, SequencesExt, Subsequences

CONSTANTS
  Wrong,            \* guesses that never were a code
  Seats,            \* maxViewersPerSession
  LockThreshold,    \* sessionFailLockThreshold
  LockTerm,         \* sessionFailLockMs
  BlockThreshold,   \* codeFailBlockThreshold
  MintCap,          \* activationsPerSessionWindow
  MintTerm,         \* activationSessionWindowMs
  ActiveWindow,     \* viewerActiveWindowMs
  IdleTtl,          \* viewerIdleTtlMs
  MaxLife,          \* viewerMaxLifetimeMs
  MaxShares,        \* bound: codes minted
  MaxTokens,        \* bound: viewer tokens minted
  Epoch, MaxNow     \* bound: the clock's range

ASSUME LimitsArePositive ==
  {Seats, LockThreshold, LockTerm, BlockThreshold, MintCap, MintTerm, ActiveWindow, IdleTtl,
   MaxLife, MaxShares, MaxTokens} \subseteq Nat \ {0}
ASSUME PresentIsNotIdle == ActiveWindow <= IdleTtl
ASSUME ClockStartsLate == MaxNow \in Nat /\ Epoch \in 0..MaxNow /\ LockTerm <= Epoch /\ MintTerm <= Epoch
ASSUME WrongGuessesAreNoCode == Wrong \cap Nat = {}

Shares == 1..MaxShares
Tokens == 1..MaxTokens
Times  == 0..MaxNow
Codes  == Wrong \cup Shares

VARIABLES
  now,          \* the clock
  live,         \* a registration holds the id
  share,        \* codes minted so far; the last one is the live share's
  hasCode,      \* the live share's code hash is there (a plaintext file has none)
  viewers,      \* session.viewers, the least recently used token first
  token,        \* each token's created_at, last_used, whether its record has an
                \* index key, and the share it was minted for
  lastToken,    \* tokens minted so far
  entries,      \* viewerIndex: tokens with an entry for the id
  unindexed,    \* unindexedViewers
  fails,        \* sessionFails.get(id)
  mints,        \* sessionActivations.get(id)
  codeFails,    \* codeFails, per guess
  blocked,      \* blockedCodes
  missesAt,     \* history: misses of the live code since it was last entered, by time,
                \* as far back as LockTerm
  mintsAt       \* history: tokens minted for the live share, back to MintTerm

counters == <<fails, mints, codeFails, blocked>>
seats    == <<viewers, token, entries, unindexed>>
history  == <<missesAt, mintsAt>>
vars     == <<now, live, share, hasCode, lastToken, seats, counters, history>>

Count  == [count : Nat, start : Times]
Token  == [born : Times, used : Times, keyed : BOOLEAN, share : Shares]
Seated == ToSet(viewers)

TypeOK ==
  /\ now \in Times
  /\ live \in BOOLEAN /\ hasCode \in BOOLEAN
  /\ share \in Shares
  /\ viewers \in Seq(Tokens) /\ Len(viewers) <= Seats /\ IsInjective(viewers)
  /\ ~live => viewers = <<>>
  /\ token \in [Tokens -> Token]
  /\ lastToken \in 0..MaxTokens
  /\ entries \subseteq Tokens
  /\ unindexed \in Nat
  /\ fails \in Count /\ mints \in Count
  /\ codeFails \in [Codes -> Nat]
  /\ blocked \subseteq Codes
  /\ missesAt \in [Times -> Nat] /\ mintsAt \in [Times -> Nat]

NoCount == [count |-> 0, start |-> 0]
Never   == [t \in Times |-> 0]

\* A relay that restored a share from its file, with a viewer or without; a file
\* of an older relay has no index keys.
Init ==
  /\ now = Epoch
  /\ live = TRUE
  /\ share = 1
  /\ hasCode \in BOOLEAN
  /\ lastToken \in {0, 1}
  /\ viewers = [i \in 1..lastToken |-> i]
  /\ \E keyed \in BOOLEAN :
       /\ token = [t \in Tokens |-> [born |-> Epoch, used |-> Epoch, keyed |-> keyed, share |-> 1]]
       /\ entries = IF keyed THEN 1..lastToken ELSE {}
       /\ unindexed = IF keyed THEN 0 ELSE lastToken
  /\ fails = NoCount
  /\ mints = NoCount
  /\ codeFails = [g \in Codes |-> 0]
  /\ blocked = {}
  /\ missesAt = Never
  /\ mintsAt = Never

Tick ==
  /\ now < MaxNow
  /\ now' = now + 1
  /\ missesAt' = [t \in Times |-> IF now' - LockTerm < t THEN missesAt[t] ELSE 0]
  /\ mintsAt' = [t \in Times |-> IF now' - MintTerm < t THEN mintsAt[t] ELSE 0]
  /\ UNCHANGED <<live, share, hasCode, lastToken, seats, counters>>

---------------------------------------------------------------------------
(* Viewers' records *)

Expired(t) == now - token[t].used > IdleTtl \/ now - token[t].born > MaxLife

\* pruneExpiredViewers
Unexpired == Filtered(viewers, {t \in Seated : ~Expired(t)})

\* dropIndexEntry, for the tokens in gone.
StillUnindexed(gone) ==
  LET unkeyed == Cardinality({t \in gone : ~token[t].keyed})
  IN IF unindexed > unkeyed THEN unindexed - unkeyed ELSE 0

StillEntered(gone) == entries \ {t \in gone : token[t].keyed}

Dropped(gone) ==
  /\ entries' = StillEntered(gone)
  /\ unindexed' = StillUnindexed(gone)

\* The index, or the scan for viewers of an older file, finds the share.
Found(t) == live /\ (t \in entries \/ unindexed > 0)

Refreshed(viewer) == [born |-> viewer.born, used |-> now, keyed |-> TRUE, share |-> viewer.share]

\* getSessionByViewerToken and verifyViewer: the idle window slides, the token
\* becomes the most recent, and gets the key its file did not have.
Use(t) ==
  LET kept == Unexpired
      gone == Seated \ ToSet(kept)
      known == t \in ToSet(kept)
  IN /\ t <= lastToken
     /\ Found(t)
     /\ viewers' = IF known THEN Append(Filtered(kept, Tokens \ {t}), t) ELSE kept
     /\ token' = IF known THEN [token EXCEPT ![t] = Refreshed(token[t])] ELSE token
     /\ LET adds == known /\ ~token[t].keyed IN
          /\ entries' = StillEntered(gone) \cup (IF adds THEN {t} ELSE {})
          /\ unindexed' = LET still == StillUnindexed(gone)
                          IN IF adds /\ still > 0 THEN still - 1 ELSE still
     /\ UNCHANGED <<now, live, share, hasCode, lastToken, counters, history>>

\* POST /api/leave
Leave(t) ==
  /\ Found(t)
  /\ t \in Seated
  /\ viewers' = Filtered(viewers, Tokens \ {t})
  /\ Dropped({t})
  /\ UNCHANGED <<now, live, share, hasCode, lastToken, token, counters, history>>

---------------------------------------------------------------------------
(* Store.activate *)

Locked == fails.count >= LockThreshold /\ now - fails.start < LockTerm

\* sessionFails after the lock's check: a lock that ran out is forgotten.
FailsNow == IF fails.count >= LockThreshold THEN NoCount ELSE fails

IsTheCode(g) == live /\ hasCode /\ g = share

\* What may be presented: nonsense, or a code that was minted.
Presented(g) == g \in Wrong \/ g \in 1..share

Counted(c, term) == IF now - c.start >= term THEN [count |-> 1, start |-> now]
                                             ELSE [c EXCEPT !.count = @ + 1]

\* A guess refused before: it is not counted again.
RefuseBlocked(g) ==
  /\ Presented(g)
  /\ ~Locked
  /\ g \in blocked
  /\ fails' = FailsNow
  /\ UNCHANGED <<now, live, share, hasCode, lastToken, seats, mints, codeFails, blocked, history>>

Miss(g) ==
  /\ Presented(g)
  /\ ~Locked
  /\ g \notin blocked
  /\ ~IsTheCode(g)
  /\ codeFails' = [codeFails EXCEPT ![g] = @ + 1]
  /\ blocked' = IF codeFails[g] + 1 >= BlockThreshold THEN blocked \cup {g} ELSE blocked
  /\ fails' = Counted(FailsNow, LockTerm)
  /\ missesAt' = IF live THEN [missesAt EXCEPT ![now] = @ + 1] ELSE missesAt
  /\ UNCHANGED <<now, live, share, hasCode, lastToken, seats, mints, mintsAt>>

MintsNow == IF now - mints.start >= MintTerm THEN [count |-> 0, start |-> now] ELSE mints

Entered(g) == Presented(g) /\ ~Locked /\ g \notin blocked /\ IsTheCode(g)

\* The window of a stored counter is renewed in place, also by a refused join.
Renewed == IF mints = NoCount THEN mints ELSE MintsNow

RefuseMint(g) ==
  /\ Entered(g)
  /\ MintsNow.count >= MintCap
  /\ fails' = FailsNow
  /\ mints' = Renewed
  /\ UNCHANGED <<now, live, share, hasCode, lastToken, seats, codeFails, blocked, history>>

\* Mutant: whoever is least recently used.
EvictableAlways(t) == TRUE

Evictable(t) == now - token[t].used > ActiveWindow

RoomIn(kept) == Len(kept) <= Seats - 1

\* evictViewers: a seat is free, or its least recent viewer is gone.
RoomMade(kept) == IF RoomIn(kept) THEN TRUE ELSE Evictable(Head(kept))

RefuseSeat(g) ==
  LET kept == Unexpired
  IN /\ Entered(g)
     /\ MintsNow.count < MintCap
     /\ ~RoomMade(kept)
     /\ fails' = NoCount
     /\ mints' = Renewed
     /\ viewers' = kept
     /\ Dropped(Seated \ ToSet(kept))
     /\ missesAt' = Never
     /\ UNCHANGED <<now, live, share, hasCode, lastToken, token, codeFails, blocked, mintsAt>>

Join(g) ==
  LET kept  == Unexpired
      stay  == IF RoomIn(kept) THEN kept ELSE Tail(kept)
      newer == lastToken + 1
      gone  == Seated \ ToSet(stay)
  IN /\ Entered(g)
     /\ MintsNow.count < MintCap
     /\ RoomMade(kept)
     /\ newer \in Tokens
     /\ lastToken' = newer
     /\ fails' = NoCount
     /\ mints' = [MintsNow EXCEPT !.count = @ + 1]
     /\ viewers' = Append(stay, newer)
     /\ token' = [token EXCEPT ![newer] = [born |-> now, used |-> now, keyed |-> TRUE,
                                           share |-> share]]
     /\ entries' = StillEntered(gone) \cup {newer}
     /\ unindexed' = StillUnindexed(gone)
     /\ missesAt' = Never
     /\ mintsAt' = [mintsAt EXCEPT ![now] = @ + 1]
     /\ UNCHANGED <<now, live, share, hasCode, codeFails, blocked>>

---------------------------------------------------------------------------
(* Registrations *)

\* Mutant: every registration forgets the misses.
ForgetsAlways(resumed) == TRUE

\* createSession: what a registration keeps of the lock, the mint counter and
\* the viewers.
ForgetsMisses(resumed) == ~resumed

ForgetsMints(resumed) == ~resumed

\* Mutant: the new record takes over the viewers of the one it replaces.
KeepsViewers(resumed) == viewers

KeptViewers(resumed) == IF resumed THEN viewers ELSE <<>>

Registered(resumed) ==
  LET kept == KeptViewers(resumed)
  IN /\ viewers' = kept
     /\ Dropped(Seated \ ToSet(kept))
     /\ fails' = IF ForgetsMisses(resumed) THEN NoCount ELSE fails
     /\ mints' = IF ForgetsMints(resumed) THEN NoCount ELSE mints
     /\ live' = TRUE
     /\ UNCHANGED <<now, lastToken, token, codeFails, blocked>>

\* An id nobody holds, or the owner's registration without the code: a new share.
RegisterNew ==
  /\ share < MaxShares
  /\ share' = share + 1
  /\ hasCode' = TRUE
  /\ missesAt' = Never
  /\ mintsAt' = Never
  /\ Registered(FALSE)

\* The owner presents the code of its live share.
Resume ==
  /\ live
  /\ hasCode
  /\ Registered(TRUE)
  /\ UNCHANGED <<share, hasCode, missesAt, mintsAt>>

\* deleteSession and removeSession (the reaper, a full relay).
End ==
  /\ live
  /\ live' = FALSE
  /\ viewers' = <<>>
  /\ Dropped(Seated)
  /\ fails' = NoCount
  /\ mints' = NoCount
  /\ UNCHANGED <<now, share, hasCode, lastToken, token, codeFails, blocked, history>>

\* A new process, from the file of a clean stop: an encrypted file has the code.
Restart ==
  /\ \E encrypted \in BOOLEAN : hasCode' = (hasCode /\ encrypted)
  /\ viewers' = Unexpired
  /\ LET kept == ToSet(Unexpired)
     IN /\ entries' = {t \in kept : token[t].keyed}
        /\ unindexed' = Cardinality({t \in kept : ~token[t].keyed})
  /\ fails' = NoCount
  /\ mints' = NoCount
  /\ codeFails' = [g \in Codes |-> 0]
  /\ blocked' = {}
  /\ missesAt' = Never
  /\ mintsAt' = Never
  /\ UNCHANGED <<now, live, share, lastToken, token>>

---------------------------------------------------------------------------
Next ==
  \/ Tick
  \/ \E t \in Tokens : Use(t)
  \/ \E t \in Tokens : Leave(t)
  \/ \E g \in Codes : RefuseBlocked(g)
  \/ \E g \in Codes : Miss(g)
  \/ \E g \in Codes : RefuseMint(g)
  \/ \E g \in Codes : RefuseSeat(g)
  \/ \E g \in Codes : Join(g)
  \/ RegisterNew
  \/ Resume
  \/ End
  \/ Restart

Spec == Init /\ [][Next]_vars

---------------------------------------------------------------------------
(* Properties *)

\* What a history has: the events of each time, numbered.
Events(at) == UNION {{t} \X (1..at[t]) : t \in Times}

Total(at) == Cardinality(Events(at))

(* However often the share is resumed and whatever else is guessed, a code is *)
(* never tried wrongly more often within a LockTerm than two lock windows     *)
(* that meet allow (the brake of sessionFailLockThreshold), nor are more      *)
(* tokens of the share minted within a MintTerm than two mint windows allow.  *)
JoinsAreBounded ==
  /\ Total(missesAt) <= 2 * LockThreshold - 1
  /\ Total(mintsAt) <= 2 * MintCap

(* A code nobody has missed lately is not locked out for guesses at an earlier   *)
(* code of the id, or at none, nor for the joins of an earlier share.         *)
FreshCodeOpens ==
  /\ live /\ hasCode /\ missesAt = Never => ~Locked
  /\ live /\ hasCode /\ mintsAt = Never => MintsNow.count < MintCap

(* Guesses are bounded, and the bounds lock out nobody who has not guessed.   *)
GuessesAreBounded == JoinsAreBounded /\ FreshCodeOpens

(* A viewer's token never outlives the share it was minted for, though the id *)
(* lives on: a replacement ends it, a resume does not.                        *)
ViewersBelongToShare == \A t \in Seated : token[t].share = share

(* The index and the counter of viewers missing from it agree with the seats: *)
(* no seated viewer is refused, no token without a seat costs a scan.         *)
IndexAgrees ==
  /\ entries = {t \in Seated : token[t].keyed}
  /\ unindexed = Cardinality({t \in Seated : ~token[t].keyed})

(* The seats are those of this share's viewers, and no lookup misses one.     *)
SeatsAreSound == TypeOK /\ ViewersBelongToShare /\ IndexAgrees

(* A viewer seen within the active window loses its seat only by leaving, by  *)
(* its token's absolute age, or with the share.                               *)
PresentViewerKeepsSeat ==
  [][\A t \in Seated \ Seated' :
       \/ Leave(t)
       \/ ~live' \/ share' # share
       \/ now - token[t].used > ActiveWindow
       \/ now - token[t].born > MaxLife]_vars

=============================================================================
