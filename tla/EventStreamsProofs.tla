------------------------- MODULE EventStreamsProofs -------------------------
(* Viewers' streams are found and counted, hear of no later share, and are   *)
(* caught up; what they carry is the shared session's, and a replay takes    *)
(* nothing back; each share has its say in the log of activations.  For any  *)
(* number of streams, shares, tokens, sessions and parts.                    *)
EXTENDS EventStreams, ViewerPayloads, TranscriptReplay, ActivationLog, FiniteSetTheorems, TLAPS

Phases == {"unused", "open", "ended", "cut", "closing", "dead"}
HoleKinds == {"none", "owed", "kept", "resumed"}

\* An open stream is in the set the maps hold; a stream that is not in use is in none.
StreamsKept ==
  /\ phase \in [Streams -> Phases] /\ token \in [Streams -> Tokens \cup {NoToken}]
  /\ tracked \subseteq Streams /\ holds \subseteq Streams
  /\ home \in [Streams -> Streams \cup {None}] /\ current \in Streams \cup {None}
  /\ slots = Cardinality(holds) /\ slots <= Slots
  /\ \A s \in Streams :
       /\ phase[s] = "open" => s \in tracked /\ home[s] = current /\ s \in holds
       /\ phase[s] = "ended" => s \in holds
       /\ s \in tracked => home[s] # None
       /\ phase[s] = "unused" => s \notin tracked /\ home[s] = None /\ s \notin holds

\* Tokens and open streams are the present share's.
SharesKept ==
  /\ share \in 0..MaxShares /\ lastShare \in 0..MaxShares
  /\ valid \subseteq Tokens /\ issued \in 0..MaxTokens
  /\ share # 0 => share = lastShare
  /\ \A t \in valid : t.share = share
  /\ \A s \in Streams : phase[s] = "open" => share # 0 /\ token[s].share = share

\* A pass replays no share later than the last.
PassKept ==
  /\ link \in {"never", "lost", "up", "resumed"}
  /\ pass \in {"off", "fetching", "inflating", "replaying"} /\ passOf \in 0..MaxShares
  /\ waiting \subseteq Streams
  /\ again \in BOOLEAN /\ stopped \in BOOLEAN /\ covers \in BOOLEAN
  /\ passOf <= lastShare
  /\ misheard = FALSE

\* Only a bridge that lost its link, and dials, owes; and then a pass makes up for it.
IsOwed(s) ==
  /\ link \notin {"never", "resumed"}
  /\ link = "up" /\ ~stopped => CatchUpIsComing(s)

HolesKept ==
  /\ hole \in [Streams -> HoleKinds]
  /\ \A s \in Streams :
       /\ phase[s] # "open" => hole[s] = "none"
       /\ hole[s] = "owed" => IsOwed(s)

IInv == StreamsKept /\ SharesKept /\ PassKept /\ HolesKept

LEMMA Limits == /\ MaxShares \in Nat /\ MaxTokens \in Nat /\ Slots \in Nat /\ Slots > 0
<1>1. MaxShares \in Nat \ {0} /\ MaxTokens \in Nat \ {0} /\ Slots \in Nat \ {0}
  BY LimitsArePositive
<1> QED BY SMT, <1>1

LEMMA StreamSets ==
  ASSUME NEW S, S \subseteq Streams
  PROVE  IsFiniteSet(S) /\ Cardinality(S) \in Nat /\ Cardinality(S) <= Cardinality(Streams)
BY StreamsAreFinite, FS_Subset, FS_CardinalityType

(* The invariant says all that the runs check.                               *)
LEMMA InvSuffices == IInv => StreamsAreAccounted /\ NoLaterShareIsHeard /\ HolesAreNoticed
<1> SUFFICES ASSUME IInv PROVE StreamsAreAccounted /\ NoLaterShareIsHeard /\ HolesAreNoticed
  OBVIOUS
<1>1. StreamsKept /\ SharesKept /\ PassKept /\ HolesKept
  BY DEF IInv
<1>2. TypeOK
  <2>1. slots \in 0..Cardinality(Streams)
    <3>1. Cardinality(Streams) \in Nat /\ Cardinality(holds) \in Nat
          /\ Cardinality(holds) <= Cardinality(Streams)
      BY <1>1, StreamSets DEF StreamsKept
    <3>2. slots = Cardinality(holds)
      BY <1>1 DEF StreamsKept
    <3> QED BY SMT, <3>1, <3>2
  <2>2. {tracked, holds, waiting} \subseteq SUBSET Streams
    BY <1>1 DEF StreamsKept, PassKept
  <2>3. {again, stopped, covers, misheard} \subseteq BOOLEAN
    BY Zenon, <1>1 DEF PassKept
  <2> QED BY <1>1, <2>1, <2>2, <2>3 DEF TypeOK, StreamsKept, SharesKept, PassKept, HolesKept, Phases, HoleKinds
<1>3. OpenStreamsAreFound /\ SlotsAreExact
  BY <1>1 DEF OpenStreamsAreFound, SlotsAreExact, Open, Fed, StreamsKept
<1>4. NoLaterShareIsHeard
  BY <1>1 DEF PassKept, NoLaterShareIsHeard
<1>5. HolesAreNoticed
  BY <1>1 DEF HolesAreNoticed, HolesKept, IsOwed, Open
<1> QED BY <1>2, <1>3, <1>4, <1>5 DEF StreamsAreAccounted

LEMMA InitEstablishes == Init => IInv
<1> SUFFICES ASSUME Init PROVE IInv
  OBVIOUS
<1>1. StreamsKept
  <2>1. Cardinality({}) = 0
    BY FS_EmptySet
  <2> QED BY SMT, <2>1, Limits DEF Init, StreamsKept, Phases, NoToken
<1>2. SharesKept
  BY SMT, Limits DEF Init, SharesKept
<1>3. PassKept
  <2>1. passOf \in 0..MaxShares /\ passOf <= lastShare
    BY SMT, Limits DEF Init
  <2> QED BY Zenon, <2>1 DEF Init, PassKept
<1>4. HolesKept
  <2>1. hole = [s \in Streams |-> "none"]
    BY DEF Init
  <2>2. hole \in [Streams -> HoleKinds] /\ \A s \in Streams : hole[s] = "none"
    BY <2>1 DEF HoleKinds
  <2> QED BY <2>2 DEF HolesKept
<1> QED BY <1>1, <1>2, <1>3, <1>4 DEF IInv

---------------------------------------------------------------------------
(* The sets of streams *)

\* No stream opens, and none that is open changes its token.
NoneOpens == \A s \in Streams : phase'[s] = "open" => phase[s] = "open" /\ token'[s] = token[s]

(* A set whose last stream is gone is dropped only if it is that set.        *)
LEMMA EndAndSendKeeps ==
  ASSUME StreamsKept, NEW ends, NEW full, ends \cap full = {}, EndAndSend(ends, full)
  PROVE  /\ StreamsKept' /\ NoneOpens
         /\ \A s \in Streams : phase'[s] = "open" <=> phase[s] = "open" /\ s \notin ends /\ s \notin full
         /\ token' = token
<1>1. /\ phase' = [s \in Streams |-> CASE s \in ends /\ phase[s] = "open" -> "ended"
                                       [] s \in full -> "cut"
                                       [] OTHER -> phase[s]]
      /\ UNCHANGED <<token, holds, slots, home>>
      /\ tracked' = tracked \ (ends \cup full)
      /\ current' = IF LeavesTheSet(ends \cup full) THEN None ELSE current
  BY DEF EndAndSend, Untrack, slotVars
<1>2. ASSUME NEW s \in Streams
      PROVE  phase'[s] = IF s \in ends /\ phase[s] = "open" THEN "ended"
                         ELSE IF s \in full THEN "cut" ELSE phase[s]
  <2>1. phase'[s] = CASE s \in ends /\ phase[s] = "open" -> "ended"
                      [] s \in full -> "cut"
                      [] OTHER -> phase[s]
    BY <1>1
  <2>2. CASE s \in ends /\ phase[s] = "open"
    BY <2>1, <2>2
  <2>3. CASE ~(s \in ends /\ phase[s] = "open") /\ s \in full
    BY Zenon, <2>1, <2>3
  <2>4. CASE ~(s \in ends /\ phase[s] = "open") /\ s \notin full
    BY Zenon, <2>1, <2>4
  <2> QED BY <2>2, <2>3, <2>4
<1>3. phase' \in [Streams -> Phases]
  <2>1. \A s \in Streams : phase'[s] \in Phases
    BY Zenon, <1>2 DEF StreamsKept, Phases
  <2>2. phase' = [s \in Streams |-> phase'[s]]
    BY <1>1
  <2> QED BY <2>1, <2>2
<1>4. \A s \in Streams : phase'[s] = "open" <=> phase[s] = "open" /\ s \notin ends /\ s \notin full
  BY Zenon, <1>2
<1>5. ASSUME NEW s \in Streams, phase'[s] = "open"
      PROVE  s \in tracked' /\ home'[s] = current' /\ s \in holds'
  <2>1. phase[s] = "open" /\ s \notin ends \cup full
    BY <1>4, <1>5
  <2>2. s \in tracked /\ home[s] = current /\ s \in holds
    BY <2>1 DEF StreamsKept
  <2>3. s \in {t \in tracked \ (ends \cup full) : home[t] = current}
    BY <2>1, <2>2
  <2>4. ~LeavesTheSet(ends \cup full)
    BY <2>3 DEF LeavesTheSet
  <2> QED BY <1>1, <2>1, <2>2, <2>4
<1>6. ASSUME NEW s \in Streams
      PROVE  /\ phase'[s] = "ended" => s \in holds
             /\ s \in tracked' => home'[s] # None
             /\ phase'[s] = "unused" => s \notin tracked' /\ home'[s] = None /\ s \notin holds'
  BY Zenon, <1>1, <1>2 DEF StreamsKept
<1>7. StreamsKept'
  BY <1>1, <1>3, <1>5, <1>6 DEF StreamsKept
<1> QED BY <1>1, <1>4, <1>7 DEF NoneOpens

(* There is a set that no stream is or was in.                               *)
LEMMA SetsAreLeft ==
  ASSUME StreamsKept, NEW s \in Streams, home[s] = None
  PROVE  NewSet \in Streams /\ \A t \in Streams : home[t] # NewSet
<1>1. \E h \in Streams : \A t \in Streams : home[t] # h
  <2> SUFFICES ASSUME \A h \in Streams : \E t \in Streams : home[t] = h PROVE FALSE
    OBVIOUS
  <2> DEFINE f == [h \in Streams |-> CHOOSE t \in Streams : home[t] = h]
  <2>1. \A h \in Streams : f[h] \in Streams /\ home[f[h]] = h
    OBVIOUS
  <2>2. \A h \in Streams : f[h] \in Streams \ {s}
    BY <2>1, StreamsAreFinite
  <2>3. f \in [Streams -> Streams \ {s}]
    BY <2>2
  <2>4. IsFiniteSet(Streams) /\ IsFiniteSet(Streams \ {s})
        /\ Cardinality(Streams \ {s}) = Cardinality(Streams) - 1 /\ Cardinality(Streams) \in Nat
    BY StreamsAreFinite, FS_RemoveElement, FS_CardinalityType
  <2>5. Cardinality(Streams \ {s}) < Cardinality(Streams)
    BY SMT, <2>4
  <2> HIDE DEF f
  <2>6. \E x, y \in Streams : x # y /\ f[x] = f[y]
    BY <2>3, <2>4, <2>5, FS_PigeonHole
  <2> QED BY <2>1, <2>6
<1> QED BY <1>1 DEF NewSet

LEMMA OpenStreamKeeps ==
  ASSUME IInv, NEW s \in Streams, NEW t \in valid, NEW gone \in BOOLEAN, OpenStream(s, t, gone)
  PROVE  IInv'
<1>0. StreamsKept /\ SharesKept /\ PassKept /\ HolesKept
  BY DEF IInv
<1>1. UNCHANGED <<share, lastShare, valid, issued, link, pass, passOf, again, waiting, stopped,
                  hole, covers, misheard>>
  BY DEF OpenStream, storeVars, passVars, ghostVars
<1>2. PassKept'
  BY <1>0, <1>1 DEF PassKept
<1>3. CASE gone
  <2>1. UNCHANGED <<phase, token, holds, slots, tracked, home, current>>
    BY <1>3 DEF OpenStream, AlreadyClosed, slotVars, setVars
  <2>2. StreamsKept'
    BY <1>0, <2>1 DEF StreamsKept
  <2>3. SharesKept'
    BY <1>0, <1>1, <2>1 DEF SharesKept
  <2>4. HolesKept'
    BY <1>0, <1>1, <2>1 DEF HolesKept, IsOwed, CatchUpIsComing
  <2> QED BY <1>2, <2>2, <2>3, <2>4 DEF IInv
<1>4. CASE ~gone
  <2>1. /\ phase[s] = "unused" /\ slots < Slots
        /\ phase' = [phase EXCEPT ![s] = "open"]
        /\ token' = [token EXCEPT ![s] = t]
        /\ holds' = holds \cup {s}
        /\ slots' = slots + 1
        /\ tracked' = tracked \cup {s}
        /\ home' = [home EXCEPT ![s] = IF current = None THEN NewSet ELSE current]
        /\ current' = home'[s]
    BY <1>4 DEF OpenStream, AlreadyClosed
  <2>2. s \notin tracked /\ home[s] = None /\ s \notin holds
    BY <1>0, <2>1 DEF StreamsKept
  <2>3. t \in Tokens /\ t.share = share /\ t.share \in Shares
    BY <1>0 DEF SharesKept, Tokens
  <2>4. NewSet \in Streams
    BY <1>0, <2>2, SetsAreLeft
  <2>5. home'[s] \in Streams /\ current' = home'[s] /\ (current # None => current' = current)
    BY <1>0, <2>1, <2>4 DEF StreamsKept
  <2>6. slots' = Cardinality(holds') /\ slots' <= Slots
    <3>1. IsFiniteSet(holds) /\ slots = Cardinality(holds) /\ Cardinality(holds) \in Nat
      BY <1>0, StreamSets DEF StreamsKept
    <3>2. Cardinality(holds') = Cardinality(holds) + 1
      BY <2>1, <2>2, <3>1, FS_AddElement
    <3> QED BY SMT, <2>1, <3>1, <3>2, Limits
  <2>7. ASSUME NEW x \in Streams
        PROVE  /\ phase'[x] = "open" => x \in tracked' /\ home'[x] = current' /\ x \in holds'
               /\ phase'[x] = "ended" => x \in holds'
               /\ x \in tracked' => home'[x] # None
               /\ phase'[x] = "unused" => x \notin tracked' /\ home'[x] = None /\ x \notin holds'
    <3>1. CASE x = s
      <4>1. phase'[x] = "open" /\ x \in tracked' /\ x \in holds' /\ home'[x] \in Streams
        BY <1>0, <2>1, <2>5, <3>1 DEF StreamsKept
      <4> QED BY <4>1, <2>5, <3>1, StreamsAreFinite
    <3>2. CASE x # s
      <4>1. /\ phase'[x] = phase[x] /\ home'[x] = home[x]
            /\ x \in tracked' <=> x \in tracked
            /\ x \in holds' <=> x \in holds
        BY <1>0, <2>1, <3>2 DEF StreamsKept
      <4>2. phase[x] = "open" => current # None
        BY <1>0 DEF StreamsKept
      <4> QED BY <1>0, <2>5, <4>1, <4>2 DEF StreamsKept
    <3> QED BY <3>1, <3>2
  <2>8. StreamsKept'
    <3>1. phase' \in [Streams -> Phases] /\ token' \in [Streams -> Tokens \cup {NoToken}]
      BY <1>0, <2>1, <2>3 DEF StreamsKept, Phases
    <3>2. tracked' \subseteq Streams /\ holds' \subseteq Streams
      BY <1>0, <2>1 DEF StreamsKept
    <3>3. home' \in [Streams -> Streams \cup {None}] /\ current' \in Streams \cup {None}
      BY <1>0, <2>1, <2>4, <2>5 DEF StreamsKept
    <3> QED BY <2>6, <2>7, <3>1, <3>2, <3>3 DEF StreamsKept
  <2>9. SharesKept'
    <3>1. share # 0
      BY SMT, <2>3, Limits DEF Shares
    <3>2. \A x \in Streams : phase'[x] = "open" => share # 0 /\ token'[x].share = share
      BY <1>0, <2>1, <2>3, <3>1 DEF SharesKept, StreamsKept
    <3> QED BY <1>0, <1>1, <3>2 DEF SharesKept
  <2>10. HolesKept'
    <3>1. \A x \in Streams : phase'[x] # "open" => phase[x] # "open"
      BY <1>0, <2>1 DEF StreamsKept
    <3> QED BY <1>0, <1>1, <3>1 DEF HolesKept, IsOwed, CatchUpIsComing
  <2> QED BY <1>2, <2>8, <2>9, <2>10 DEF IInv
<1> QED BY <1>3, <1>4

---------------------------------------------------------------------------
(* What a step leaves of each part                                           *)

LEMMA HolesStep ==
  ASSUME HolesKept, phase' \in [Streams -> Phases], NEW h \in [Streams -> HoleKinds], Holes(h),
         \A s \in Streams : phase'[s] = "open" /\ h[s] = "owed" => IsOwed(s)'
  PROVE  HolesKept'
<1>1. hole' = [s \in Streams |-> IF phase'[s] = "open" THEN h[s] ELSE "none"]
  BY DEF Holes
<1>2. hole' \in [Streams -> HoleKinds]
  BY <1>1 DEF HoleKinds
<1>3. ASSUME NEW s \in Streams
      PROVE  /\ phase'[s] # "open" => hole'[s] = "none"
             /\ hole'[s] = "owed" => IsOwed(s)'
  <2>1. hole'[s] = IF phase'[s] = "open" THEN h[s] ELSE "none"
    BY <1>1
  <2> QED BY Zenon, <2>1
<1> QED BY <1>2, <1>3 DEF HolesKept

LEMMA SameDebts ==
  ASSUME UNCHANGED <<link, stopped, again, pass, covers, waiting>>
  PROVE  \A s \in Streams : IsOwed(s)' <=> IsOwed(s)
BY DEF IsOwed, CatchUpIsComing

LEMMA SharesStep ==
  ASSUME SharesKept, NoneOpens, UNCHANGED <<share, lastShare, issued>>, valid' \subseteq valid
  PROVE  SharesKept'
BY DEF SharesKept, NoneOpens

LEMMA PassStep ==
  ASSUME PassKept, UNCHANGED <<link, pass, passOf, waiting, again, covers, misheard, lastShare>>,
         stopped' \in BOOLEAN
  PROVE  PassKept'
BY DEF PassKept

(* Streams end or are cut, and nothing else happens.                         *)
LEMMA StreamsStep ==
  ASSUME IInv, StreamsKept', NoneOpens, Holes(hole), valid' \subseteq valid,
         UNCHANGED <<share, lastShare, issued, link, passVars, covers, misheard>>,
         stopped' = stopped \/ stopped' = TRUE
  PROVE  IInv'
<1>1. StreamsKept /\ SharesKept /\ PassKept /\ HolesKept
  BY DEF IInv
<1>2. UNCHANGED <<pass, passOf, again, waiting>>
  BY DEF passVars
<1>3. stopped' \in BOOLEAN
  BY <1>1 DEF PassKept
<1>4. SharesKept' /\ PassKept'
  BY <1>1, <1>2, <1>3, SharesStep, PassStep
<1>5. \A s \in Streams : IsOwed(s) => IsOwed(s)'
  BY <1>2 DEF IsOwed, CatchUpIsComing
<1>6. phase' \in [Streams -> Phases] /\ hole \in [Streams -> HoleKinds]
  BY <1>1 DEF StreamsKept, HolesKept
<1>7. \A s \in Streams : phase'[s] = "open" /\ hole[s] = "owed" => IsOwed(s)'
  BY <1>1, <1>5 DEF HolesKept
<1>8. HolesKept'
  BY <1>1, <1>6, <1>7, HolesStep
<1> QED BY <1>4, <1>8 DEF IInv

LEMMA CutKeeps ==
  ASSUME IInv, NEW s \in Streams, phase[s] \in {"open", "ended"}, Cut(s)
  PROVE  IInv'
<1>1. StreamsKept
  BY DEF IInv
<1>2. /\ phase' = [phase EXCEPT ![s] = "cut"]
      /\ UNCHANGED <<share, lastShare, valid, issued, link, token, holds, slots, tracked, home, current,
                      passVars, stopped, covers, misheard>>
      /\ Holes(hole)
  BY DEF Cut, storeVars, slotVars, setVars
<1>3. \A x \in Streams : phase'[x] = phase[x] \/ phase'[x] = "cut"
  BY <1>1, <1>2 DEF StreamsKept
<1>4. phase' \in [Streams -> Phases]
  BY <1>1, <1>2 DEF StreamsKept, Phases
<1>5. StreamsKept'
  BY <1>1, <1>2, <1>3, <1>4 DEF StreamsKept
<1>6. NoneOpens
  BY <1>2, <1>3 DEF NoneOpens
<1> QED BY <1>2, <1>5, <1>6, StreamsStep

LEMMA HangUpKeeps == ASSUME IInv, NEW s \in Streams, HangUp(s) \/ Finish(s) PROVE IInv'
BY CutKeeps DEF HangUp, Finish

LEMMA CloseEventKeeps == ASSUME IInv, NEW s \in Streams, CloseEvent(s) PROVE IInv'
<1>0. StreamsKept /\ SharesKept /\ PassKept /\ HolesKept
  BY DEF IInv
<1>1. /\ phase[s] \in {"cut", "closing"}
      /\ slots' = IF s \in holds THEN slots - 1 ELSE slots
      /\ holds' = holds \ {s}
      /\ tracked' = tracked \ {s}
      /\ current' = IF LeavesTheSet({s}) THEN None ELSE current
      /\ UNCHANGED <<share, lastShare, valid, issued, link, pass, passOf, again, waiting, stopped,
                      hole, covers, misheard>>
  BY DEF CloseEvent, Releases, storeVars, passVars, ghostVars
<1>2. \/ phase' = [phase EXCEPT ![s] = "closing"] /\ UNCHANGED <<token, home>>
      \/ /\ phase' = [phase EXCEPT ![s] = "unused"]
         /\ token' = [token EXCEPT ![s] = NoToken]
         /\ home' = [home EXCEPT ![s] = None]
  BY DEF CloseEvent
<1>3. /\ phase' \in [Streams -> Phases] /\ token' \in [Streams -> Tokens \cup {NoToken}]
      /\ home' \in [Streams -> Streams \cup {None}]
  BY <1>0, <1>2 DEF StreamsKept, Phases
<1>4. slots' = Cardinality(holds') /\ slots' <= Slots
  <2>1. IsFiniteSet(holds) /\ Cardinality(holds) \in Nat /\ slots = Cardinality(holds) /\ slots <= Slots
    BY <1>0, StreamSets DEF StreamsKept
  <2>2. Cardinality(holds \ {s}) = IF s \in holds THEN Cardinality(holds) - 1 ELSE Cardinality(holds)
    BY <2>1, FS_RemoveElement
  <2> QED BY SMT, <1>1, <2>1, <2>2, Limits
<1>5. phase[s] # "open" /\ phase'[s] # "open" /\ phase'[s] # "ended"
  BY <1>0, <1>1, <1>2 DEF StreamsKept
<1>6. ASSUME NEW x \in Streams, x # s
      PROVE  phase'[x] = phase[x] /\ token'[x] = token[x] /\ home'[x] = home[x]
  BY <1>0, <1>2, <1>6 DEF StreamsKept
<1>7. ASSUME NEW x \in Streams, phase'[x] = "open"
      PROVE  x \in tracked' /\ home'[x] = current' /\ x \in holds'
  <2>1. x # s /\ phase[x] = "open"
    BY <1>5, <1>6, <1>7
  <2>2. x \in tracked /\ home[x] = current /\ x \in holds
    BY <1>0, <2>1 DEF StreamsKept
  <2>3. x \in {t \in tracked \ {s} : home[t] = current}
    BY <2>1, <2>2
  <2>4. ~LeavesTheSet({s})
    BY <2>3 DEF LeavesTheSet
  <2> QED BY <1>1, <1>6, <2>1, <2>2, <2>4
<1>8. ASSUME NEW x \in Streams
      PROVE  /\ phase'[x] = "ended" => x \in holds'
             /\ x \in tracked' => home'[x] # None
             /\ phase'[x] = "unused" => x \notin tracked' /\ home'[x] = None /\ x \notin holds'
  <2>1. CASE x = s
    <3>1. x \notin tracked' /\ x \notin holds' /\ phase'[x] # "ended"
      BY <1>1, <1>5, <2>1
    <3>2. phase'[x] = "unused" => home'[x] = None
      BY <1>0, <1>2, <2>1 DEF StreamsKept
    <3> QED BY <3>1, <3>2
  <2>2. CASE x # s
    BY <1>0, <1>1, <1>6, <2>2 DEF StreamsKept
  <2> QED BY <2>1, <2>2
<1>9. StreamsKept'
  BY <1>0, <1>1, <1>3, <1>4, <1>7, <1>8 DEF StreamsKept
<1>10. NoneOpens /\ \A x \in Streams : phase'[x] # "open" => phase[x] # "open"
  BY <1>5, <1>6 DEF NoneOpens
<1>11. SharesKept' /\ PassKept'
  BY <1>0, <1>1, <1>10, SharesStep, PassStep DEF PassKept
<1>12. HolesKept'
  BY <1>0, <1>1, <1>10, SameDebts DEF HolesKept
<1> QED BY <1>9, <1>11, <1>12 DEF IInv

LEMMA HeartbeatKeeps == ASSUME IInv, NEW s \in Streams, Heartbeat(s) PROVE IInv'
<1>1. PICK ends \in SUBSET Streams, full \in SUBSET Streams : ends \cap full = {} /\ EndAndSend(ends, full)
  <2>1. CASE Verified(s)
    BY <2>1 DEF Heartbeat, SendTo
  <2>2. CASE ~Verified(s)
    BY <2>2 DEF Heartbeat
  <2> QED BY <2>1, <2>2
<1>2. /\ UNCHANGED <<share, lastShare, valid, issued, link, passVars, covers, misheard, stopped>>
      /\ Holes(hole)
  BY DEF Heartbeat, storeVars
<1>3. StreamsKept' /\ NoneOpens
  BY <1>1, EndAndSendKeeps DEF IInv
<1> QED BY <1>2, <1>3, StreamsStep

---------------------------------------------------------------------------
(* Shares and tokens *)

LEMMA LeaveKeeps == ASSUME IInv, NEW t \in valid, Leave(t) PROVE IInv'
<1>1. /\ UNCHANGED <<share, lastShare, issued, link, passVars, covers, misheard, stopped>>
      /\ Holes(hole) /\ valid' \subseteq valid
      /\ EndAndSend({s \in Fed : token[s] = t}, {})
  BY DEF Leave, End
<1>2. StreamsKept' /\ NoneOpens
  BY <1>1, EndAndSendKeeps DEF IInv
<1> QED BY <1>1, <1>2, StreamsStep

LEMMA ShutdownKeeps == IInv /\ Shutdown => IInv'
<1> SUFFICES ASSUME IInv, Shutdown PROVE IInv'
  OBVIOUS
<1>1. /\ UNCHANGED <<share, lastShare, valid, issued, link, passVars, covers, misheard>>
      /\ Holes(hole) /\ stopped' = TRUE
      /\ EndAndSend(Fed, {})
  BY DEF Shutdown, End, storeVars
<1>2. StreamsKept' /\ NoneOpens
  BY <1>1, EndAndSendKeeps DEF IInv
<1> QED BY <1>1, <1>2, StreamsStep

LEMMA StillKeeps ==
  ASSUME IInv, UNCHANGED <<streamVars, setVars>>
  PROVE  /\ StreamsKept' /\ NoneOpens
         /\ phase' = phase /\ current' = current
<1>1. UNCHANGED <<phase, token, holds, slots, tracked, home, current>>
  BY DEF streamVars, slotVars, setVars
<1>2. StreamsKept
  BY DEF IInv
<1>3. StreamsKept'
  BY <1>1, <1>2 DEF StreamsKept
<1> QED BY <1>1, <1>3 DEF NoneOpens

LEMMA MintKeeps == ASSUME IInv, Mint \/ \E t \in valid : Expire(t) PROVE IInv'
<1>0. StreamsKept /\ SharesKept /\ PassKept /\ HolesKept
  BY DEF IInv
<1>1. /\ UNCHANGED <<share, lastShare, link, pass, passOf, again, waiting, stopped, hole, covers, misheard>>
      /\ UNCHANGED <<streamVars, setVars>>
  BY DEF Mint, Expire, passVars, ghostVars
<1>2. StreamsKept' /\ NoneOpens /\ phase' = phase
  BY <1>1, StillKeeps
<1>3. issued' \in 0..MaxTokens /\ valid' \subseteq Tokens /\ \A t \in valid' : t.share = share
  <2>1. CASE Mint
    <3>1. issued' = issued + 1 /\ issued < MaxTokens /\ share # 0
          /\ valid' = valid \cup {[share |-> share, n |-> issued']}
      BY <2>1 DEF Mint
    <3>2. issued' \in 1..MaxTokens /\ issued' \in 0..MaxTokens /\ share \in Shares
      BY SMT, <1>0, <3>1, Limits DEF SharesKept, Shares
    <3>3. [share |-> share, n |-> issued'] \in Tokens
      BY <3>2 DEF Tokens
    <3> QED BY <1>0, <3>1, <3>2, <3>3 DEF SharesKept
  <2>2. CASE \E t \in valid : Expire(t)
    BY <1>0, <2>2 DEF Expire, SharesKept
  <2> QED BY <2>1, <2>2
<1>4. SharesKept'
  BY <1>0, <1>1, <1>2, <1>3 DEF SharesKept, NoneOpens
<1>5. PassKept'
  BY <1>0, <1>1, PassStep DEF PassKept
<1>6. HolesKept'
  BY <1>0, <1>1, <1>2, SameDebts DEF HolesKept
<1> QED BY <1>2, <1>4, <1>5, <1>6 DEF IInv

(* The end of a share leaves no stream open.                                 *)
LEMMA EndsForKeeps ==
  ASSUME IInv, NEW n, EndsFor(n)
  PROVE  /\ StreamsKept' /\ NoneOpens
         /\ \A s \in Streams : phase'[s] # "open"
         /\ share' = n /\ valid' = {}
<1>1. EndAndSend(Fed, {}) /\ share' = n /\ valid' = {}
  BY DEF EndsFor, EndedStreams
<1>2. StreamsKept
  BY DEF IInv
<1>3. /\ StreamsKept' /\ NoneOpens
      /\ \A s \in Streams : phase'[s] = "open" <=> phase[s] = "open" /\ s \notin Fed /\ s \notin {}
  BY <1>1, <1>2, EndAndSendKeeps
<1>4. \A s \in Streams : phase[s] = "open" => s \in Fed
  BY <1>2 DEF StreamsKept, Fed
<1> QED BY <1>1, <1>3, <1>4

LEMMA GoneHoles ==
  ASSUME NEW h \in [Streams -> HoleKinds]
  PROVE  Gone(h) \in [Streams -> HoleKinds] /\ \A s \in Streams : Gone(h)[s] # "owed"
BY DEF Gone, HoleKinds

(* The old socket goes: its pass fails, and nobody whose stream is kept is    *)
(* owed by a link that never broke.                                          *)
LEMMA DisconnectKeeps ==
  ASSUME PassKept, HolesKept, phase' \in [Streams -> Phases], NEW to \in {"never", "resumed"},
         NEW h \in [Streams -> HoleKinds], Disconnect(to, h),
         \A s \in Streams : phase'[s] = "open" => h[s] # "owed",
         UNCHANGED <<stopped, covers, misheard>>,
         lastShare \in Nat, lastShare' \in Nat, lastShare <= lastShare'
  PROVE  PassKept' /\ HolesKept'
<1>1. link' = to /\ UNCHANGED <<passOf, again>>
  BY DEF Disconnect
<1>2. pass' \in {"off", "fetching", "inflating", "replaying"} /\ waiting' \subseteq Streams
  BY DEF Disconnect, PassKept
<1>3. passOf' <= lastShare' /\ passOf' \in 0..MaxShares
  BY SMT, <1>1, Limits DEF PassKept
<1>4. link' \in {"never", "lost", "up", "resumed"}
  BY <1>1
<1>5. PassKept'
  BY <1>1, <1>2, <1>3, <1>4 DEF PassKept
<1>6. Holes(h) \/ Holes(Gone(h))
  BY DEF Disconnect
<1>7. CASE Holes(h)
  BY <1>5, <1>7, HolesStep
<1>8. CASE Holes(Gone(h))
  BY <1>5, <1>8, GoneHoles, HolesStep
<1> QED BY <1>5, <1>6, <1>7, <1>8

LEMMA RegisterKeeps == IInv /\ Register => IInv'
<1> SUFFICES ASSUME IInv, Register PROVE IInv'
  OBVIOUS
<1>0. StreamsKept /\ SharesKept /\ PassKept /\ HolesKept
  BY DEF IInv
<1>1. /\ lastShare < MaxShares /\ lastShare' = lastShare + 1
      /\ UNCHANGED <<issued, stopped, covers, misheard>>
  BY DEF Register
<1>2. /\ lastShare \in Nat /\ lastShare' \in Nat /\ lastShare <= lastShare'
      /\ lastShare' \in 0..MaxShares /\ lastShare' # 0
  BY SMT, <1>0, <1>1, Limits DEF SharesKept
<1>3. CASE share # 0
  <2>1. EndsFor(lastShare') /\ Disconnect("never", hole)
    BY <1>3 DEF Register
  <2>2. /\ StreamsKept' /\ NoneOpens
        /\ \A s \in Streams : phase'[s] # "open"
        /\ share' = lastShare' /\ valid' = {}
    BY <2>1, EndsForKeeps
  <2>3. SharesKept'
    BY <1>0, <1>1, <1>2, <2>2 DEF SharesKept
  <2>4. phase' \in [Streams -> Phases] /\ hole \in [Streams -> HoleKinds]
    BY <1>0, <2>2 DEF StreamsKept, HolesKept
  <2>5. PassKept' /\ HolesKept'
    BY <1>0, <1>1, <1>2, <2>1, <2>2, <2>4, DisconnectKeeps
  <2> QED BY <2>2, <2>3, <2>5 DEF IInv
<1>4. CASE share = 0
  <2>1. share' = lastShare' /\ UNCHANGED <<valid, link, streamVars, setVars, passVars, hole>>
    BY <1>4 DEF Register
  <2>2. StreamsKept' /\ NoneOpens /\ phase' = phase
    BY <2>1, StillKeeps
  <2>3. valid = {}
    <3> SUFFICES ASSUME NEW t \in valid PROVE FALSE
      OBVIOUS
    <3>1. t.share = 0 /\ t.share \in Shares
      BY <1>0, <1>4 DEF SharesKept, Tokens
    <3> QED BY SMT, <3>1 DEF Shares
  <2>4. \A s \in Streams : phase'[s] # "open"
    BY <1>0, <1>4, <2>2 DEF SharesKept
  <2>5. SharesKept'
    BY <1>0, <1>1, <1>2, <2>1, <2>3, <2>4 DEF SharesKept
  <2>6. UNCHANGED <<pass, passOf, again, waiting, link, hole>>
    BY <2>1 DEF passVars
  <2>7. PassKept'
    <3>1. passOf' <= lastShare'
      BY SMT, <1>0, <1>1, <1>2, <2>6 DEF PassKept
    <3> QED BY <1>0, <1>1, <2>6, <3>1 DEF PassKept
  <2>8. HolesKept'
    BY <1>0, <1>1, <2>2, <2>6, SameDebts DEF HolesKept
  <2> QED BY <2>2, <2>5, <2>7, <2>8 DEF IInv
<1> QED BY <1>3, <1>4

LEMMA ResumeKeeps == IInv /\ Resume => IInv'
<1> SUFFICES ASSUME IInv, Resume PROVE IInv'
  OBVIOUS
<1>0. StreamsKept /\ SharesKept /\ PassKept /\ HolesKept
  BY DEF IInv
<1> DEFINE h == [s \in Streams |-> CASE hole[s] = "owed" -> "resumed"
                                     [] hole[s] = "none" /\ link \in {"up", "lost"} -> "kept"
                                     [] OTHER -> hole[s]]
<1>1. /\ UNCHANGED <<share, lastShare, valid, issued, stopped, covers, misheard>>
      /\ UNCHANGED <<streamVars, setVars>>
      /\ Disconnect("resumed", h)
  BY DEF Resume, storeVars
<1>2. ASSUME NEW s \in Streams PROVE h[s] \in HoleKinds \ {"owed"}
  <2>1. hole[s] \in HoleKinds
    BY <1>0 DEF HolesKept
  <2>2. CASE hole[s] = "owed"
    <3>1. h[s] = "resumed"
      BY <2>2
    <3> QED BY <3>1 DEF HoleKinds
  <2>3. CASE hole[s] = "none" /\ link \in {"up", "lost"}
    <3>1. h[s] = "kept"
      BY <2>3
    <3> QED BY <3>1 DEF HoleKinds
  <2>4. CASE hole[s] # "owed" /\ ~(hole[s] = "none" /\ link \in {"up", "lost"})
    <3>1. h[s] = hole[s]
      BY <2>4
    <3> QED BY <2>1, <2>4, <3>1
  <2> QED BY <2>2, <2>3, <2>4
<1>3. h \in [Streams -> HoleKinds] /\ \A s \in Streams : h[s] # "owed"
  BY <1>2
<1> HIDE DEF h
<1>4. StreamsKept' /\ NoneOpens
  BY <1>1, StillKeeps
<1>5. SharesKept'
  BY <1>0, <1>1, <1>4, SharesStep
<1>6. phase' \in [Streams -> Phases] /\ lastShare \in Nat /\ lastShare' \in Nat /\ lastShare <= lastShare'
  BY SMT, <1>0, <1>1, <1>4, Limits DEF StreamsKept, SharesKept
<1>7. PassKept' /\ HolesKept'
  BY <1>0, <1>1, <1>3, <1>6, DisconnectKeeps
<1> QED BY <1>4, <1>5, <1>7 DEF IInv

LEMMA EndShareKeeps == ASSUME IInv, NEW forRoom \in BOOLEAN, EndShare(forRoom) PROVE IInv'
<1>0. StreamsKept /\ SharesKept /\ PassKept /\ HolesKept
  BY DEF IInv
<1>1. EndsFor(0) /\ UNCHANGED <<lastShare, issued, stopped, covers, misheard>>
  BY DEF EndShare
<1>2. /\ StreamsKept' /\ NoneOpens
      /\ \A s \in Streams : phase'[s] # "open"
      /\ share' = 0 /\ valid' = {}
  BY <1>1, EndsForKeeps
<1>3. SharesKept'
  <2>1. 0 \in 0..MaxShares
    BY SMT, Limits
  <2> QED BY <1>0, <1>1, <1>2, <2>1 DEF SharesKept
<1>4. phase' \in [Streams -> Phases] /\ hole \in [Streams -> HoleKinds]
  BY <1>0, <1>2 DEF StreamsKept, HolesKept
<1>5. PassKept' /\ HolesKept'
  <2>1. CASE forRoom
    <3>1. Holes(hole) /\ UNCHANGED <<link, pass, passOf, again, waiting>>
      BY <2>1 DEF EndShare, passVars
    <3> QED BY <1>0, <1>1, <1>2, <1>4, <3>1, HolesStep DEF PassKept
  <2>2. CASE ~forRoom
    <3>1. Disconnect("never", hole)
      BY <2>2 DEF EndShare
    <3>2. lastShare \in Nat /\ lastShare' \in Nat /\ lastShare <= lastShare'
      BY SMT, <1>0, <1>1, Limits DEF SharesKept
    <3> QED BY <1>0, <1>1, <1>2, <1>4, <3>1, <3>2, DisconnectKeeps
  <2> QED BY <2>1, <2>2
<1> QED BY <1>2, <1>3, <1>5 DEF IInv

---------------------------------------------------------------------------
(* The bridge's link, and the passes *)

LEMMA StartPassKeeps ==
  ASSUME IInv, StartPass, UNCHANGED <<share, lastShare, valid, issued, stopped>>,
         link' \in {"never", "lost", "up", "resumed"}, link' = "up" \/ link' = link
  PROVE  IInv'
<1>0. StreamsKept /\ SharesKept /\ PassKept /\ HolesKept
  BY DEF IInv
<1>1. /\ pass' = "fetching" /\ passOf' = share /\ again' = FALSE /\ covers' = FALSE
      /\ Holes(hole) /\ UNCHANGED <<waiting, misheard>>
  BY DEF StartPass
<1>2. PICK ends \in SUBSET Streams, full \in SUBSET Streams : ends \cap full = {} /\ EndAndSend(ends, full)
  <2> DEFINE revoked == {s \in Writable : ~Verified(s)}
  <2>1. \E full \in SUBSET (Writable \ revoked) : EndAndSend(revoked, full)
    BY DEF StartPass
  <2>2. Writable \subseteq Streams
    BY <1>0 DEF Writable, Open, Fed, StreamsKept
  <2> QED BY <2>1, <2>2
<1>3. StreamsKept' /\ NoneOpens
  BY <1>0, <1>2, EndAndSendKeeps
<1>4. SharesKept'
  BY <1>0, <1>3, SharesStep
<1>5. PassKept'
  <2>1. passOf' \in 0..MaxShares /\ passOf' <= lastShare'
    BY SMT, <1>0, <1>1, Limits DEF SharesKept
  <2>2. again' \in BOOLEAN /\ covers' \in BOOLEAN
    BY <1>1
  <2> QED BY <1>0, <1>1, <2>1, <2>2 DEF PassKept
<1>6. \A s \in Streams : phase'[s] = "open" /\ hole[s] = "owed" => IsOwed(s)'
  BY <1>0, <1>1 DEF HolesKept, IsOwed, CatchUpIsComing
<1>7. phase' \in [Streams -> Phases] /\ hole \in [Streams -> HoleKinds]
  BY <1>0, <1>3 DEF StreamsKept, HolesKept
<1>8. HolesKept'
  BY <1>0, <1>1, <1>6, <1>7, HolesStep
<1> QED BY <1>3, <1>4, <1>5, <1>8 DEF IInv

LEMMA DialKeeps == IInv /\ Dial => IInv'
<1> SUFFICES ASSUME IInv, Dial PROVE IInv'
  OBVIOUS
<1>0. StreamsKept /\ SharesKept /\ PassKept /\ HolesKept
  BY DEF IInv
<1>1. link' = "up" /\ share # 0 /\ UNCHANGED <<share, lastShare, valid, issued, stopped>>
  BY DEF Dial, storeVars
<1>2. CASE link \in {"up", "lost"} /\ current # None /\ pass = "off"
  BY <1>1, <1>2, StartPassKeeps DEF Dial
<1>3. CASE link \in {"up", "lost"} /\ current # None /\ pass # "off"
  <2>1. /\ again' = TRUE
        /\ UNCHANGED <<streamVars, setVars>>
        /\ UNCHANGED <<pass, passOf, waiting, hole, covers, misheard>>
    BY <1>3 DEF Dial, RunsAgain, ghostVars
  <2>2. StreamsKept' /\ NoneOpens /\ phase' = phase
    BY <2>1, StillKeeps
  <2>3. SharesKept'
    BY <1>0, <1>1, <2>2, SharesStep
  <2>4. PassKept'
    BY <1>0, <1>1, <2>1 DEF PassKept
  <2>5. HolesKept'
    BY <1>0, <1>1, <2>1, <2>2 DEF HolesKept, IsOwed, CatchUpIsComing
  <2> QED BY <2>2, <2>3, <2>4, <2>5 DEF IInv
<1>4. CASE ~(link \in {"up", "lost"} /\ current # None)
  <2> DEFINE h == [s \in Streams |-> IF hole[s] = "kept" THEN "none" ELSE hole[s]]
  <2>1. /\ UNCHANGED <<streamVars, setVars>>
        /\ UNCHANGED <<pass, passOf, again, waiting, covers, misheard>>
        /\ Holes(h)
    BY <1>4 DEF Dial, passVars
  <2>2. StreamsKept' /\ NoneOpens /\ phase' = phase
    BY <2>1, StillKeeps
  <2>3. SharesKept'
    BY <1>0, <1>1, <2>2, SharesStep
  <2>4. PassKept'
    BY <1>0, <1>1, <2>1 DEF PassKept
  <2>5. ASSUME NEW s \in Streams, phase'[s] = "open"
        PROVE  h[s] # "owed"
    <3>1. s \in tracked /\ home[s] = current /\ home[s] # None
      BY <1>0, <2>2, <2>5 DEF StreamsKept
    <3>2. link \in {"never", "resumed"}
      BY <1>0, <1>4, <3>1 DEF PassKept
    <3>3. hole[s] # "owed"
      BY <1>0, <3>2 DEF HolesKept, IsOwed
    <3> QED BY <3>3
  <2>6. h \in [Streams -> HoleKinds] /\ phase' \in [Streams -> Phases]
    BY <1>0, <2>2 DEF HolesKept, HoleKinds, StreamsKept
  <2> HIDE DEF h
  <2>7. HolesKept'
    BY <1>0, <2>1, <2>5, <2>6, HolesStep
  <2> QED BY <2>2, <2>3, <2>4, <2>7 DEF IInv
<1> QED BY <1>2, <1>3, <1>4

LEMMA DropKeeps == IInv /\ Drop => IInv'
<1> SUFFICES ASSUME IInv, Drop PROVE IInv'
  OBVIOUS
<1>0. StreamsKept /\ SharesKept /\ PassKept /\ HolesKept
  BY DEF IInv
<1>1. /\ link' = "lost" /\ UNCHANGED <<streamVars, setVars>>
      /\ UNCHANGED <<share, lastShare, valid, issued, pass, passOf, again, waiting, stopped, hole, covers, misheard>>
  BY DEF Drop, storeVars, passVars, ghostVars
<1>2. StreamsKept' /\ NoneOpens /\ phase' = phase
  BY <1>1, StillKeeps
<1>3. SharesKept'
  BY <1>0, <1>1, <1>2, SharesStep
<1>4. PassKept'
  BY <1>0, <1>1 DEF PassKept
<1>5. HolesKept'
  BY <1>0, <1>1, <1>2 DEF HolesKept, IsOwed
<1> QED BY <1>2, <1>3, <1>4, <1>5 DEF IInv

LEMMA EventLostKeeps == IInv /\ EventLost => IInv'
<1> SUFFICES ASSUME IInv, EventLost PROVE IInv'
  OBVIOUS
<1>0. StreamsKept /\ SharesKept /\ PassKept /\ HolesKept
  BY DEF IInv
<1> DEFINE h == [s \in Streams |-> CASE link = "lost" /\ hole[s] = "none" -> "owed"
                                     [] hole[s] = "kept" -> "resumed"
                                     [] OTHER -> hole[s]]
<1>1. /\ link \in {"lost", "resumed"} /\ covers' = FALSE /\ UNCHANGED <<streamVars, setVars>>
      /\ UNCHANGED <<share, lastShare, valid, issued, link, pass, passOf, again, waiting, stopped, misheard>>
      /\ Holes(h)
  BY DEF EventLost, storeVars, passVars
<1>2. ASSUME NEW s \in Streams
      PROVE  h[s] \in HoleKinds /\ (h[s] = "owed" => link = "lost")
  <2>1. hole[s] \in HoleKinds /\ (hole[s] = "owed" => link = "lost")
    BY <1>0, <1>1 DEF HolesKept, IsOwed
  <2>2. CASE link = "lost" /\ hole[s] = "none"
    <3>1. h[s] = "owed"
      BY <2>2
    <3> QED BY <2>2, <3>1 DEF HoleKinds
  <2>3. CASE hole[s] = "kept"
    <3>1. h[s] = "resumed"
      BY <2>3
    <3> QED BY <3>1 DEF HoleKinds
  <2>4. CASE ~(link = "lost" /\ hole[s] = "none") /\ hole[s] # "kept"
    <3>1. h[s] = hole[s]
      BY <2>4
    <3> QED BY <2>1, <3>1
  <2> QED BY <2>2, <2>3, <2>4
<1>3. h \in [Streams -> HoleKinds] /\ \A s \in Streams : h[s] = "owed" => link = "lost"
  BY <1>2
<1> HIDE DEF h
<1>4. StreamsKept' /\ NoneOpens /\ phase' = phase
  BY <1>1, StillKeeps
<1>5. SharesKept'
  BY <1>0, <1>1, <1>4, SharesStep
<1>6. PassKept'
  BY <1>0, <1>1 DEF PassKept
<1>7. HolesKept'
  <2>1. phase' \in [Streams -> Phases]
    BY <1>4 DEF StreamsKept
  <2>2. \A s \in Streams : phase'[s] = "open" /\ h[s] = "owed" => IsOwed(s)'
    BY <1>1, <1>3 DEF IsOwed
  <2> QED BY <1>0, <1>1, <1>3, <2>1, <2>2, HolesStep
<1> QED BY <1>4, <1>5, <1>6, <1>7 DEF IInv

(* What is sent is of the streams' own share, or of an earlier one.           *)
LEMMA NothingLater ==
  ASSUME SharesKept, PassKept, NEW to \in SUBSET Open, NEW n \in Nat, n <= lastShare, Hearing(to, n)
  PROVE  misheard' = FALSE
<1>1. ASSUME NEW s \in to PROVE ~(n > token[s].share)
  <2>1. share # 0 /\ token[s].share = share
    BY DEF SharesKept, Open
  <2>2. share = lastShare /\ share \in Nat
    BY SMT, <2>1, Limits DEF SharesKept
  <2> QED BY SMT, <2>1, <2>2
<1> QED BY <1>1 DEF Hearing, PassKept

LEMMA SendToKeeps ==
  ASSUME IInv, NEW to \in SUBSET Streams, SendTo(to)
  PROVE  StreamsKept' /\ NoneOpens
<1>1. PICK full \in SUBSET to : EndAndSend({}, full)
  BY DEF SendTo
<1>2. {} \cap full = {} /\ StreamsKept
  BY DEF IInv
<1> QED BY <1>1, <1>2, EndAndSendKeeps

LEMMA WritableAreOpen == ASSUME IInv PROVE Writable = Open /\ Open \subseteq Streams
BY DEF IInv, StreamsKept, Writable, Open, Fed

LEMMA EventKeeps == IInv /\ Event => IInv'
<1> SUFFICES ASSUME IInv, Event PROVE IInv'
  OBVIOUS
<1>0. StreamsKept /\ SharesKept /\ PassKept /\ HolesKept
  BY DEF IInv
<1>1. /\ share # 0 /\ SendTo(Writable) /\ Holes(hole) /\ Hearing(Writable, share)
      /\ UNCHANGED <<share, lastShare, valid, issued, link, passVars, stopped, covers>>
  BY DEF Event, storeVars
<1>2. StreamsKept' /\ NoneOpens
  BY <1>1, WritableAreOpen, SendToKeeps
<1>3. share \in Nat /\ share <= lastShare
  BY SMT, <1>0, <1>1, Limits DEF SharesKept
<1>4. misheard' = FALSE
  BY <1>0, <1>1, <1>3, WritableAreOpen, NothingLater
<1>5. misheard' = misheard
  BY <1>0, <1>4 DEF PassKept
<1> QED BY <1>1, <1>2, <1>5, StreamsStep

LEMMA FetchedKeeps == IInv /\ Fetched => IInv'
<1> SUFFICES ASSUME IInv, Fetched PROVE IInv'
  OBVIOUS
<1>0. StreamsKept /\ SharesKept /\ PassKept /\ HolesKept
  BY DEF IInv
<1>1. /\ pass = "fetching" /\ pass' = "inflating" /\ covers' = TRUE /\ UNCHANGED <<streamVars, setVars>>
      /\ UNCHANGED <<share, lastShare, valid, issued, link, passOf, again, waiting, stopped, hole, misheard>>
  BY DEF Fetched, storeVars
<1>2. StreamsKept' /\ NoneOpens /\ phase' = phase
  BY <1>1, StillKeeps
<1>3. SharesKept'
  BY <1>0, <1>1, <1>2, SharesStep
<1>4. PassKept'
  BY <1>0, <1>1 DEF PassKept
<1>5. HolesKept'
  BY <1>0, <1>1, <1>2 DEF HolesKept, IsOwed, CatchUpIsComing
<1> QED BY <1>2, <1>3, <1>4, <1>5 DEF IInv

LEMMA FetchFailsKeeps == IInv /\ FetchFails => IInv'
<1> SUFFICES ASSUME IInv, FetchFails PROVE IInv'
  OBVIOUS
<1>0. StreamsKept /\ SharesKept /\ PassKept /\ HolesKept
  BY DEF IInv
<1>1. /\ pass' = "replaying" /\ waiting' = {} /\ UNCHANGED <<streamVars, setVars>>
      /\ UNCHANGED <<share, lastShare, valid, issued, link, passOf, again, stopped, covers, misheard>>
      /\ Holes(Gone(hole))
  BY DEF FetchFails, storeVars
<1>2. StreamsKept' /\ NoneOpens /\ phase' = phase
  BY <1>1, StillKeeps
<1>3. SharesKept'
  BY <1>0, <1>1, <1>2, SharesStep
<1>4. PassKept'
  BY <1>0, <1>1 DEF PassKept
<1>5. phase' \in [Streams -> Phases] /\ hole \in [Streams -> HoleKinds]
  BY <1>0, <1>2 DEF StreamsKept, HolesKept
<1>6. HolesKept'
  BY <1>0, <1>1, <1>5, GoneHoles, HolesStep
<1> QED BY <1>2, <1>3, <1>4, <1>6 DEF IInv

(* A stream is owed after a replay if it waits, or the next pass comes.        *)
LEMMA ReplayKeeps == IInv /\ Replay => IInv'
<1> SUFFICES ASSUME IInv, Replay PROVE IInv'
  OBVIOUS
<1>0. StreamsKept /\ SharesKept /\ PassKept /\ HolesKept
  BY DEF IInv
<1>1. PICK behind \in SUBSET (Writable \cap {s \in Streams : phase'[s] = "open"}) :
         waiting' = behind /\ CaughtUp(Writable \ behind)
  BY DEF Replay
<1>2. /\ pass = "inflating" /\ pass' = "replaying" /\ SendTo(Writable) /\ Hearing(Writable, passOf)
      /\ UNCHANGED <<share, lastShare, valid, issued, link, passOf, again, stopped, covers>>
  BY DEF Replay, storeVars
<1>3. StreamsKept' /\ NoneOpens
  BY <1>2, WritableAreOpen, SendToKeeps
<1>4. SharesKept'
  BY <1>0, <1>2, <1>3, SharesStep
<1>5. misheard' = FALSE
  <2>1. passOf \in Nat /\ passOf <= lastShare
    BY SMT, <1>0, Limits DEF PassKept
  <2> QED BY <1>0, <1>2, <2>1, WritableAreOpen, NothingLater
<1>6. PassKept'
  <2>1. waiting' \subseteq Streams
    BY <1>1
  <2> QED BY <1>0, <1>2, <1>5, <2>1 DEF PassKept
<1> DEFINE h == [s \in Streams |-> IF covers /\ s \in Writable \ behind THEN "none" ELSE hole[s]]
<1>7. h \in [Streams -> HoleKinds] /\ phase' \in [Streams -> Phases] /\ Holes(h)
  BY <1>0, <1>1, <1>3 DEF HolesKept, HoleKinds, StreamsKept, CaughtUp
<1>8. ASSUME NEW s \in Streams, phase'[s] = "open", h[s] = "owed"
      PROVE  IsOwed(s)'
  <2>1. hole[s] = "owed" /\ ~(covers /\ s \in Writable \ behind)
    BY <1>8
  <2>2. IsOwed(s) /\ phase[s] = "open"
    BY <1>0, <2>1 DEF HolesKept
  <2>3. s \in Writable
    BY <2>2, WritableAreOpen DEF Open
  <2> QED BY <1>1, <1>2, <2>1, <2>2, <2>3 DEF IsOwed, CatchUpIsComing
<1> HIDE DEF h
<1>9. HolesKept'
  BY <1>0, <1>7, <1>8, HolesStep
<1> QED BY <1>3, <1>4, <1>6, <1>9 DEF IInv

LEMMA ReplayOnKeeps == ASSUME IInv, NEW s \in Streams, ReplayOn(s) PROVE IInv'
<1>0. StreamsKept /\ SharesKept /\ PassKept /\ HolesKept
  BY DEF IInv
<1>1. /\ s \in waiting /\ waiting' = waiting \ {s} /\ UNCHANGED <<streamVars, setVars>>
      /\ UNCHANGED <<share, lastShare, valid, issued, link, pass, passOf, again, stopped, covers>>
  BY DEF ReplayOn, storeVars
<1>2. StreamsKept' /\ NoneOpens /\ phase' = phase
  BY <1>1, StillKeeps
<1>3. SharesKept'
  BY <1>0, <1>1, <1>2, SharesStep
<1>4. misheard' = FALSE
  <2>1. passOf \in Nat /\ passOf <= lastShare /\ {s} \cap Open \in SUBSET Open
    BY SMT, <1>0, Limits DEF PassKept
  <2>2. CASE Hearing({s} \cap Open, passOf)
    BY <1>0, <2>1, <2>2, NothingLater
  <2>3. CASE misheard' = misheard
    BY <1>0, <2>3 DEF PassKept
  <2> QED BY <2>2, <2>3 DEF ReplayOn
<1>5. PassKept'
  BY <1>0, <1>1, <1>4 DEF PassKept
<1> DEFINE g == [x \in Streams |-> IF covers /\ x \in {s} THEN "none" ELSE hole[x]]
<1> DEFINE k == [hole EXCEPT ![s] = IF @ = "owed" THEN "none" ELSE @]
<1>6. Holes(g) \/ Holes(k)
  BY DEF ReplayOn, CaughtUp
<1>7. g \in [Streams -> HoleKinds] /\ k \in [Streams -> HoleKinds]
  BY <1>0 DEF HolesKept, HoleKinds
<1>8. ASSUME NEW x \in Streams, g[x] = "owed" \/ k[x] = "owed"
      PROVE  hole[x] = "owed" /\ (x # s \/ ~covers \/ k[x] = "owed") /\ (k[x] = "owed" => x # s)
  BY <1>0, <1>8 DEF HolesKept
<1>9. ASSUME NEW x \in Streams, g[x] = "owed" \/ k[x] = "owed"
      PROVE  IsOwed(x)'
  <2>1. IsOwed(x) /\ (x # s \/ ~covers)
    BY <1>0, <1>8, <1>9 DEF HolesKept
  <2> QED BY <1>1, <2>1 DEF IsOwed, CatchUpIsComing
<1> HIDE DEF g, k
<1>10. phase' \in [Streams -> Phases]
  BY <1>2 DEF StreamsKept
<1>11. HolesKept'
  <2>1. CASE Holes(g)
    BY <1>0, <1>7, <1>9, <1>10, <2>1, HolesStep
  <2>2. CASE Holes(k)
    BY <1>0, <1>7, <1>9, <1>10, <2>2, HolesStep
  <2> QED BY <1>6, <2>1, <2>2
<1> QED BY <1>2, <1>3, <1>5, <1>11 DEF IInv

(* The resync ends only when no open stream waits for another pass.            *)
LEMMA PassEndsKeeps == IInv /\ PassEnds => IInv'
<1> SUFFICES ASSUME IInv, PassEnds PROVE IInv'
  OBVIOUS
<1>0. StreamsKept /\ SharesKept /\ PassKept /\ HolesKept
  BY DEF IInv
<1>1. /\ pass = "replaying" /\ waiting = {}
      /\ UNCHANGED <<share, lastShare, valid, issued, link, stopped>>
  BY DEF PassEnds, storeVars
<1>2. CASE again /\ current # None /\ share # 0
  <2>1. StartPass
    BY <1>2 DEF PassEnds
  <2> QED BY <1>0, <1>1, <2>1, StartPassKeeps DEF PassKept
<1>3. CASE ~(again /\ current # None /\ share # 0)
  <2>1. /\ pass' = "off" /\ passOf' = 0 /\ again' = FALSE /\ covers' = FALSE
        /\ UNCHANGED <<streamVars, setVars>> /\ UNCHANGED <<waiting, hole, misheard>>
    BY <1>3 DEF PassEnds, setVars, streamVars, slotVars
  <2>2. StreamsKept' /\ NoneOpens /\ phase' = phase
    BY <2>1, StillKeeps
  <2>3. SharesKept'
    BY <1>0, <1>1, <2>2, SharesStep
  <2>4. PassKept'
    <3>1. 0 \in 0..MaxShares /\ 0 <= lastShare
      BY SMT, <1>0, Limits DEF SharesKept
    <3> QED BY <1>0, <1>1, <2>1, <3>1 DEF PassKept
  <2>5. ASSUME NEW s \in Streams, hole[s] = "owed"
        PROVE  IsOwed(s)'
    <3>1. IsOwed(s) /\ phase[s] = "open"
      BY <1>0, <2>5 DEF HolesKept
    <3>2. current # None /\ share # 0
      BY <1>0, <3>1 DEF StreamsKept, SharesKept
    <3>3. ~CatchUpIsComing(s)
      BY <1>1, <1>3, <3>2 DEF CatchUpIsComing
    <3> QED BY <1>1, <3>1, <3>3 DEF IsOwed
  <2>6. HolesKept'
    BY <1>0, <2>1, <2>2, <2>5 DEF HolesKept
  <2> QED BY <2>2, <2>3, <2>4, <2>6 DEF IInv
<1> QED BY <1>2, <1>3

---------------------------------------------------------------------------
LEMMA StepKeeps == IInv /\ [Next]_vars => IInv'
<1> SUFFICES ASSUME IInv, [Next]_vars PROVE IInv'
  OBVIOUS
<1>1. CASE UNCHANGED vars
  <2>1. /\ UNCHANGED <<streamVars, setVars>>
        /\ UNCHANGED <<share, lastShare, valid, issued, link, pass, passOf, again, waiting, stopped,
                       hole, covers, misheard>>
    BY <1>1 DEF vars, storeVars, passVars, ghostVars
  <2>2. StreamsKept' /\ NoneOpens /\ phase' = phase
    BY <2>1, StillKeeps
  <2> QED BY <2>1, <2>2, SharesStep, SameDebts DEF IInv, PassKept, HolesKept
<1>2. CASE ViewerSteps
  BY <1>2, OpenStreamKeeps, HangUpKeeps DEF ViewerSteps
<1>3. CASE StreamSteps
  BY <1>3, HangUpKeeps, CloseEventKeeps, HeartbeatKeeps DEF StreamSteps
<1>4. CASE ShareSteps
  BY <1>4, RegisterKeeps, ResumeKeeps, MintKeeps, ShutdownKeeps, EndShareKeeps, LeaveKeeps DEF ShareSteps
<1>5. CASE LinkSteps
  BY <1>5, DialKeeps, DropKeeps, EventLostKeeps, EventKeeps DEF LinkSteps
<1>6. CASE PassSteps
  BY <1>6, FetchedKeeps, FetchFailsKeeps, ReplayKeeps, ReplayOnKeeps, PassEndsKeeps DEF PassSteps
<1> QED BY <1>1, <1>2, <1>3, <1>4, <1>5, <1>6 DEF Next

LEMMA InvHolds == Spec => []IInv
BY InitEstablishes, StepKeeps, PTL DEF Spec

(* Whatever ends a share, a token or the relay finds every open stream, and   *)
(* the slots counted are the slots held, for any number of streams, in any    *)
(* order of their 'close' events.                                            *)
THEOREM StreamsAlwaysAccounted == Spec => []StreamsAreAccounted
BY InvHolds, InvSuffices, PTL

(* No event of a share, live or replayed, reaches a viewer of an earlier one. *)
THEOREM NoLaterShareIsEverHeard == Spec => []NoLaterShareIsHeard
BY InvHolds, InvSuffices, PTL

(* What an open stream missed while the bridge was away is on its way once it  *)
(* is back.                                                                  *)
THEOREM HolesAreAlwaysNoticed == Spec => []HolesAreNoticed
BY InvHolds, InvSuffices, PTL

---------------------------------------------------------------------------
(* What viewers hear, for any tree of sessions, kinds and order of events,  *)
(* and what a replay does to what they have read.                           *)

\* The index holds no session from outside the tree, and viewers hear of no other.
IndexIsFamily ==
  /\ heard \subseteq subagents \cup {Own}
  /\ \A F \in SUBSET Sessions : IsFamily(F) => subagents \subseteq F

\* One slot is kept for the kinds past the cap, and a kind that was counted there stays
\* there.
SlotIsKept ==
  /\ Cardinality(Named \ {Other}) <= MaxKinds - 1
  /\ \A k \in Kinds \ {Other} :
       /\ dropped[k] \in {0, missed[k]}
       /\ missed[k] > dropped[k] => dropped[Other] > 0 /\ Cardinality(Named) >= MaxKinds - 1

PayloadInv == PayloadTypeOK /\ IndexIsFamily /\ SlotIsKept

LEMMA NamedCounts ==
  ASSUME KindsAreSet, NEW S, S \subseteq Kinds
  PROVE  IsFiniteSet(S) /\ Cardinality(S) \in Nat
BY FS_Subset, FS_CardinalityType DEF KindsAreSet

LEMMA PayloadInitEstablishes ==
  ASSUME KindsAreSet, PayloadInit
  PROVE  PayloadInv
<1>1. PayloadTypeOK
  BY DEF PayloadInit, PayloadTypeOK
<1>2. IndexIsFamily
  BY DEF PayloadInit, IndexIsFamily
<1>3. SlotIsKept
  <2>1. Named = {} /\ Named \ {Other} = {}
    BY SMT DEF PayloadInit, Named
  <2>2. Cardinality({}) = 0
    BY FS_EmptySet
  <2> QED BY SMT, <2>1, <2>2 DEF SlotIsKept, PayloadInit, KindsAreSet
<1> QED BY <1>1, <1>2, <1>3 DEF PayloadInv

(* What an event teaches is of the shared session's tree.                    *)
LEMMA TaughtIsFamily ==
  ASSUME KindsAreSet, PayloadTypeOK, IndexIsFamily, NEW e \in Events
  PROVE  /\ Taught(e) \subseteq Sessions
         /\ subagents \subseteq Taught(e)
         /\ \A F \in SUBSET Sessions : IsFamily(F) => Taught(e) \subseteq F
<1>1. CASE Taught(e) = subagents
  BY <1>1 DEF PayloadTypeOK, IndexIsFamily
<1>2. CASE /\ Taught(e) = subagents \cup {e.info}
           /\ e.info \in Sessions /\ parent[e.info] \in subagents \cup {Own}
  <2>1. ASSUME NEW F \in SUBSET Sessions, IsFamily(F)
        PROVE  e.info \in F
    BY <1>2, <2>1 DEF IndexIsFamily, IsFamily
  <2> QED BY <1>2, <2>1 DEF PayloadTypeOK, IndexIsFamily
<1> QED BY <1>1, <1>2 DEF Taught

LEMMA MentionedAreSessions ==
  ASSUME NEW e \in Events
  PROVE  Mentioned(e) \subseteq Sessions
BY DEF Mentioned, Events

(* A drop is counted under its kind, or in the slot that is kept.            *)
LEMMA NoteKeepsSlot ==
  ASSUME KindsAreSet, PayloadTypeOK, SlotIsKept, NEW k \in Kinds, NoteDropped(k)
  PROVE  /\ dropped' \in [Kinds -> Nat] /\ missed' \in [Kinds -> Nat]
         /\ SlotIsKept'
<1> DEFINE c == CountedAs(k)
<1>1. c \in Kinds /\ c \in {k, Other}
  BY DEF CountedAs, KindsAreSet
<1>2. /\ dropped' = [dropped EXCEPT ![c] = @ + 1]
      /\ missed' = [missed EXCEPT ![k] = @ + 1]
  BY DEF NoteDropped
<1>3. dropped' \in [Kinds -> Nat] /\ missed' \in [Kinds -> Nat]
  BY SMT, <1>1, <1>2 DEF PayloadTypeOK
<1>4. /\ dropped'[c] = dropped[c] + 1 /\ \A o \in Kinds \ {c} : dropped'[o] = dropped[o]
      /\ missed'[k] = missed[k] + 1 /\ \A o \in Kinds \ {k} : missed'[o] = missed[o]
  BY SMT, <1>1, <1>2 DEF PayloadTypeOK
<1>5. Named' = Named \cup {c}
  BY SMT, <1>1, <1>3, <1>4 DEF Named, PayloadTypeOK
<1>6. /\ Named \subseteq Kinds /\ Named' \subseteq Kinds
      /\ IsFiniteSet(Named) /\ IsFiniteSet(Named') /\ IsFiniteSet(Named \ {Other})
      /\ Cardinality(Named) \in Nat /\ Cardinality(Named') \in Nat
      /\ Cardinality(Named \ {Other}) \in Nat /\ Cardinality(Named' \ {Other}) \in Nat
  BY NamedCounts DEF Named
<1>7. Cardinality(Named) <= Cardinality(Named')
  BY <1>5, <1>6, FS_Subset
<1>8. MaxKinds \in Nat /\ MaxKinds > 1
  BY DEF KindsAreSet
<1>9. Cardinality(Named' \ {Other}) <= MaxKinds - 1
  <2>1. CASE c = Other \/ c \in Named
    <3>1. Named' \ {Other} = Named \ {Other}
      BY <1>5, <2>1
    <3> QED BY <3>1 DEF SlotIsKept
  <2>2. CASE c # Other /\ c \notin Named
    <3>1. c = k /\ ~(Cardinality(Named) >= MaxKinds - 1)
      BY <1>1, <2>2 DEF CountedAs
    <3>2. Cardinality(Named') = Cardinality(Named) + 1
      BY <1>5, <1>6, <2>2, FS_AddElement
    <3>3. Cardinality(Named' \ {Other}) <= Cardinality(Named')
      BY <1>6, FS_Subset
    <3> QED BY SMT, <1>6, <1>8, <3>1, <3>2, <3>3
  <2> QED BY <2>1, <2>2
<1>10. ASSUME NEW o \in Kinds \ {Other}
       PROVE  /\ dropped'[o] \in {0, missed'[o]}
              /\ missed'[o] > dropped'[o] => dropped'[Other] > 0 /\ Cardinality(Named') >= MaxKinds - 1
  <2>1. /\ dropped[o] \in Nat /\ missed[o] \in Nat /\ dropped'[o] \in Nat /\ missed'[o] \in Nat
        /\ dropped[Other] \in Nat /\ dropped'[Other] \in Nat
    BY <1>3 DEF PayloadTypeOK, KindsAreSet
  <2>2. /\ dropped[o] \in {0, missed[o]}
        /\ missed[o] > dropped[o] => dropped[Other] > 0 /\ Cardinality(Named) >= MaxKinds - 1
    BY DEF SlotIsKept
  <2>3. dropped'[Other] >= dropped[Other]
    BY SMT, <1>1, <1>4, <2>1 DEF KindsAreSet
  <2>4. CASE o # k
    <3>1. dropped'[o] = dropped[o] /\ missed'[o] = missed[o]
      BY <1>1, <1>4, <2>4
    <3> QED BY SMT, <3>1, <2>1, <2>2, <2>3, <1>6, <1>7, <1>8
  <2>5. CASE o = k /\ c = k
    <3>1. dropped[k] = missed[k]
      <4>1. CASE dropped[k] > 0
        BY SMT, <4>1, <2>1, <2>2, <2>5
      <4>2. CASE ~(dropped[k] > 0)
        <5>1. k \notin Named /\ ~(Cardinality(Named) >= MaxKinds - 1)
          BY <4>2, <2>5 DEF CountedAs, Named
        <5> QED BY SMT, <5>1, <4>2, <2>1, <2>2, <2>5
      <4> QED BY <4>1, <4>2
    <3> QED BY SMT, <3>1, <1>4, <2>1, <2>5
  <2>6. CASE o = k /\ c # k
    <3>1. c = Other /\ k \notin Named /\ Cardinality(Named) >= MaxKinds - 1
      BY <2>6 DEF CountedAs
    <3>2. dropped[k] = 0 /\ dropped'[k] = 0 /\ dropped'[Other] > 0
      <4>1. ~(dropped[k] > 0)
        BY <3>1 DEF Named
      <4>2. dropped'[k] = dropped[k] /\ dropped'[Other] = dropped[Other] + 1
        BY <1>4, <2>6, <3>1
      <4> QED BY SMT, <4>1, <4>2, <2>1, <2>6
    <3>3. Cardinality(Named') >= MaxKinds - 1
      BY SMT, <3>1, <1>6, <1>7, <1>8
    <3> QED BY <3>2, <3>3, <2>6
  <2> QED BY <2>4, <2>5, <2>6
<1>11. SlotIsKept'
  BY <1>9, <1>10 DEF SlotIsKept
<1> QED BY <1>3, <1>11

LEMMA PayloadStepKeeps ==
  ASSUME KindsAreSet, PayloadInv, [PayloadNext]_payloadVars
  PROVE  PayloadInv'
<1>1. ASSUME NEW e \in Events, EventArrives(e)
      PROVE  PayloadInv'
  <2>1. /\ subagents' = Taught(e)
        /\ heard' = IF Mentioned(e) \subseteq subagents' \cup {Own} THEN heard \cup Mentioned(e) ELSE heard
        /\ parent' = parent
    BY <1>1 DEF EventArrives
  <2>2. /\ subagents' \subseteq Sessions /\ subagents \subseteq subagents'
        /\ \A F \in SUBSET Sessions : IsFamily(F) => subagents' \subseteq F
    BY <2>1, TaughtIsFamily DEF PayloadInv
  <2>3. heard' \subseteq Sessions /\ heard' \subseteq subagents' \cup {Own}
    BY <2>1, <2>2, MentionedAreSessions DEF PayloadInv, PayloadTypeOK, IndexIsFamily
  <2>4. IndexIsFamily'
    BY <2>1, <2>2, <2>3 DEF IndexIsFamily, IsFamily
  <2>5. dropped' \in [Kinds -> Nat] /\ missed' \in [Kinds -> Nat] /\ SlotIsKept'
    <3>1. CASE UNCHANGED <<dropped, missed>>
      BY <3>1 DEF PayloadInv, PayloadTypeOK, SlotIsKept, Named
    <3>2. CASE NoteDropped(e.kind)
      BY <3>2, NoteKeepsSlot DEF PayloadInv, Events
    <3> QED BY <1>1, <3>1, <3>2 DEF EventArrives
  <2>6. PayloadTypeOK'
    BY <2>1, <2>2, <2>3, <2>5 DEF PayloadInv, PayloadTypeOK
  <2> QED BY <2>4, <2>5, <2>6 DEF PayloadInv
<1>2. CASE RegistrationEnds
  BY <1>2 DEF RegistrationEnds, PayloadInv, PayloadTypeOK, IndexIsFamily, IsFamily, SlotIsKept, Named
<1>3. CASE UNCHANGED payloadVars
  BY <1>3 DEF payloadVars, PayloadInv, PayloadTypeOK, IndexIsFamily, IsFamily, SlotIsKept, Named
<1> QED BY <1>1, <1>2, <1>3 DEF PayloadNext

LEMMA PayloadInvSuffices ==
  ASSUME KindsAreSet, PayloadInv
  PROVE  PayloadsAreSound
<1>1. OnlyTheFamilyIsHeard
  BY DEF PayloadInv, IndexIsFamily, OnlyTheFamilyIsHeard, IsFamily
<1>2. Cardinality(Named) <= MaxKinds
  <2>1. /\ IsFiniteSet(Named \ {Other}) /\ Cardinality(Named \ {Other}) \in Nat
        /\ IsFiniteSet(Named) /\ Cardinality(Named) \in Nat
    BY NamedCounts DEF Named
  <2>2. Cardinality((Named \ {Other}) \cup {Other}) = Cardinality(Named \ {Other}) + 1
    BY <2>1, FS_AddElement
  <2>3. IsFiniteSet((Named \ {Other}) \cup {Other})
    BY <2>1, FS_AddElement
  <2>4. Cardinality(Named) <= Cardinality((Named \ {Other}) \cup {Other})
    BY <2>3, FS_Subset
  <2> QED BY SMT, <2>1, <2>2, <2>4 DEF PayloadInv, SlotIsKept, KindsAreSet
<1>3. DropsAreTold
  BY <1>2 DEF PayloadInv, SlotIsKept, DropsAreTold
<1> QED BY <1>1, <1>3 DEF PayloadInv, PayloadsAreSound

(* Whatever opencode sends and in whatever order, viewers hear only of the   *)
(* shared session's tree, and what they were not sent for naming no session  *)
(* is told of, in a map that stays small (adapter.ts:2518-2576,              *)
(* event-drops.ts:15-51).                                                    *)
THEOREM PayloadsStaySound ==
  ASSUME KindsAreSet
  PROVE  PayloadSpec => []PayloadsAreSound
<1>1. PayloadInit => PayloadInv
  BY PayloadInitEstablishes
<1>2. PayloadInv /\ [PayloadNext]_payloadVars => PayloadInv'
  BY PayloadStepKeeps
<1>3. PayloadInv => PayloadsAreSound
  BY PayloadInvSuffices
<1> QED BY <1>1, <1>2, <1>3, PTL DEF PayloadSpec

---------------------------------------------------------------------------
(* The replay *)

\* No page shows more of a text than there is; what was read of a text that had ended
\* is all of it, and all that was replayed is whole.
TextIsBehind(p) ==
  /\ stage[p] = "absent" => shown[p] = Unknown
  /\ shown[p] # Unknown => shown[p] <= value[p]
  /\ resync \in {"read", "replaying"} /\ copy[p].stage = "ended" =>
       /\ stage[p] = "ended" /\ copy[p].value = value[p]
       /\ resync = "replaying" => p \in todo \/ shown[p] = value[p]
  /\ resync = "replaying" /\ p \in todo => copy[p].stage = "ended"

TextsAreBehind == \A p \in Texts : TextIsBehind(p)

ReplayPending == todo # {} => resync = "replaying"

ReplayInv == ReplayTypeOK /\ ReplayPending /\ TextsAreBehind

LEMMA ReplayInitEstablishes ==
  ASSUME PartsDiffer, ReplayInit
  PROVE  ReplayInv
<1>1. ReplayTypeOK
  BY DEF ReplayInit, ReplayTypeOK, Snapshot
<1>2. TextsAreBehind
  BY DEF ReplayInit, TextsAreBehind, TextIsBehind, Parts
<1>3. ReplayPending
  BY DEF ReplayInit, ReplayPending
<1> QED BY <1>1, <1>2, <1>3 DEF ReplayInv

TextIsKept(p) == shown[p] # Unknown => shown'[p] # Unknown /\ shown'[p] >= shown[p]

(* What opencode does to one part.                                           *)
LEMMA FeedStep ==
  ASSUME PartsDiffer, ReplayInv, NEW p \in Parts, Starts(p) \/ Delta(p) \/ Changes(p) \/ Ends(p)
  PROVE  ReplayInv' /\ \A q \in Texts : TextIsKept(q)
<1>1. /\ UNCHANGED <<old, linked, resync, onceMore, todo, copy>>
      /\ \A q \in Parts \ {p} : stage'[q] = stage[q] /\ value'[q] = value[q] /\ shown'[q] = shown[q]
      /\ stage[p] # "ended"
  BY DEF Starts, Delta, Changes, Ends, Sends, resyncVars, ReplayInv, ReplayTypeOK
<1>2. /\ stage' \in [Parts -> {"absent", "open", "ended"}] /\ value' \in [Parts -> Nat]
      /\ value'[p] >= value[p]
  BY SMT DEF Starts, Delta, Changes, Ends, resyncVars, ReplayInv, ReplayTypeOK
<1>3. ASSUME p \in Texts
      PROVE  /\ shown'[p] \in Nat \cup {Unknown}
             /\ shown'[p] # Unknown => shown'[p] <= value'[p]
             /\ shown[p] # Unknown => shown'[p] # Unknown /\ shown'[p] >= shown[p]
  <2>1. /\ shown[p] \in Nat \cup {Unknown} /\ value[p] \in Nat /\ value'[p] \in Nat
        /\ shown[p] # Unknown => shown[p] <= value[p]
        /\ Unknown \notin Nat
    BY <1>2, <1>3 DEF ReplayInv, ReplayTypeOK, TextsAreBehind, TextIsBehind, PartsDiffer
  <2>2. CASE shown'[p] = shown[p]
    BY SMT, <1>2, <2>1, <2>2
  <2>3. CASE shown'[p] = value'[p] /\ (shown[p] # Unknown => shown[p] <= value'[p])
    BY SMT, <2>1, <2>3
  <2>4. CASE shown[p] # Unknown /\ shown'[p] = shown[p] + 1 /\ value'[p] = value[p] + 1
    BY SMT, <2>1, <2>4
  <2>5. shown[p] # Unknown => shown[p] <= value'[p]
    BY SMT, <1>2, <2>1
  <2>6. shown \in [Parts -> Nat \cup {Unknown}] /\ value \in [Parts -> Nat]
    BY DEF ReplayInv, ReplayTypeOK
  <2>7. CASE Starts(p)
    <3>1. shown[p] = Unknown /\ (shown'[p] = Unknown \/ shown'[p] = 0)
      BY <1>3, <2>6, <2>7 DEF Starts, Sends, ReplayInv, TextsAreBehind, TextIsBehind
    <3> QED BY SMT, <2>1, <3>1
  <2>8. CASE Delta(p)
    <3>1. value'[p] = value[p] + 1
      BY <2>6, <2>8 DEF Delta
    <3>2. \/ shown'[p] = shown[p] \/ shown'[p] = value'[p]
          \/ shown[p] # Unknown /\ shown'[p] = shown[p] + 1
      BY <2>6, <2>8 DEF Delta, Sends
    <3> QED BY <2>2, <2>3, <2>4, <2>5, <3>1, <3>2
  <2>9. CASE Changes(p) \/ Ends(p)
    <3>1. shown'[p] = shown[p] \/ shown'[p] = value'[p]
      BY <2>6, <2>9 DEF Changes, Ends, Sends
    <3> QED BY <2>2, <2>3, <2>5, <3>1
  <2> QED BY <2>7, <2>8, <2>9
<1>4. shown' \in [Parts -> Nat \cup {Unknown}] /\ stage'[p] # "absent"
  BY SMT DEF Starts, Delta, Changes, Ends, Sends, ReplayInv, ReplayTypeOK
<1>5. ReplayTypeOK'
  BY <1>1, <1>2, <1>4 DEF ReplayInv, ReplayTypeOK
<1>6. ASSUME NEW q \in Texts
      PROVE  TextIsBehind(q)' /\ TextIsKept(q)
  <2>1. TextIsBehind(q) /\ q \in Parts /\ shown[q] \in Nat \cup {Unknown}
    BY DEF ReplayInv, ReplayTypeOK, TextsAreBehind, Parts
  <2>2. CASE q # p
    <3>1. stage'[q] = stage[q] /\ value'[q] = value[q] /\ shown'[q] = shown[q]
      BY <1>1, <2>1, <2>2
    <3>2. \A x \in Nat : x >= x
      BY SMT
    <3> QED BY <1>1, <2>1, <3>1, <3>2 DEF TextIsBehind, TextIsKept
  <2>3. CASE q = p
    <3>1. ~(resync \in {"read", "replaying"} /\ copy[p].stage = "ended")
      BY <1>1, <2>1, <2>3 DEF TextIsBehind
    <3> QED BY <1>1, <1>3, <1>4, <2>1, <2>3, <3>1 DEF TextIsBehind, TextIsKept
  <2> QED BY <2>2, <2>3
<1> QED BY <1>1, <1>5, <1>6 DEF ReplayInv, ReplayPending, TextsAreBehind

(* What the link and the resync do.                                          *)
LEMMA ReplayPassStep ==
  ASSUME PartsDiffer, ReplayInv, LinkDrops \/ LinkIsBack \/ ReplayEnds
  PROVE  ReplayInv' /\ \A q \in Texts : TextIsKept(q)
<1>1. /\ UNCHANGED <<stage, value, old, copy, shown, todo>>
      /\ resync' \in {"off", "asked"} \/ resync' = resync
      /\ ReplayPending'
      /\ linked' \in BOOLEAN /\ onceMore' \in BOOLEAN
  BY DEF LinkDrops, LinkIsBack, ReplayEnds, Feed, ReplayInv, ReplayTypeOK, ReplayPending
<1>2. ReplayTypeOK'
  BY <1>1 DEF ReplayInv, ReplayTypeOK
<1>3. ASSUME NEW q \in Texts
      PROVE  TextIsBehind(q)' /\ TextIsKept(q)
  <2>1. TextIsBehind(q) /\ shown[q] \in Nat \cup {Unknown}
    BY DEF ReplayInv, ReplayTypeOK, TextsAreBehind, Parts
  <2>2. \A x \in Nat : x >= x
    BY SMT
  <2>3. TextIsKept(q)
    BY <1>1, <2>1, <2>2 DEF TextIsKept
  <2>4. CASE resync' = resync
    BY <1>1, <2>1, <2>3, <2>4 DEF TextIsBehind
  <2>5. CASE resync' \in {"off", "asked"}
    BY <1>1, <2>1, <2>3, <2>5 DEF TextIsBehind
  <2> QED BY <1>1, <2>4, <2>5
<1> QED BY <1>1, <1>2, <1>3 DEF ReplayInv, TextsAreBehind

LEMMA ReadStep ==
  ASSUME PartsDiffer, ReplayInv, TranscriptIsRead
  PROVE  ReplayInv' /\ \A q \in Texts : TextIsKept(q)
<1>1. /\ UNCHANGED <<stage, value, old, linked, onceMore, todo, shown>>
      /\ resync' = "read" /\ copy' = Snapshot
  BY DEF TranscriptIsRead, Feed
<1>2. /\ Snapshot \in [Parts -> [stage : {"absent", "open", "ended"}, value : Nat]]
      /\ \A q \in Parts : Snapshot[q].stage = stage[q] /\ Snapshot[q].value = value[q]
  BY DEF Snapshot, ReplayInv, ReplayTypeOK
<1>3. ReplayTypeOK'
  BY <1>1, <1>2 DEF ReplayInv, ReplayTypeOK
<1>4. ASSUME NEW q \in Texts
      PROVE  TextIsBehind(q)' /\ TextIsKept(q)
  <2>1. TextIsBehind(q) /\ shown[q] \in Nat \cup {Unknown} /\ q \in Parts
    BY DEF ReplayInv, ReplayTypeOK, TextsAreBehind, Parts
  <2>2. \A x \in Nat : x >= x
    BY SMT
  <2> QED BY <1>1, <1>2, <2>1, <2>2 DEF TextIsBehind, TextIsKept
<1>5. ReplayPending'
  BY <1>1 DEF TranscriptIsRead, ReplayInv, ReplayPending
<1> QED BY <1>3, <1>4, <1>5 DEF ReplayInv, TextsAreBehind

LEMMA ReplayStep ==
  ASSUME PartsDiffer, ReplayInv, ReplayBegins
  PROVE  ReplayInv' /\ \A q \in Texts : TextIsKept(q)
<1>1. /\ UNCHANGED <<stage, value, old, linked, onceMore, copy, shown>>
      /\ resync = "read" /\ resync' = "replaying"
      /\ todo' = {p \in Parts : copy[p].stage # "absent" /\ ~IsStreaming(p, copy[p])}
  BY DEF ReplayBegins, Feed
<1>2. ReplayTypeOK'
  BY <1>1 DEF ReplayInv, ReplayTypeOK
<1>3. ASSUME NEW q \in Texts
      PROVE  TextIsBehind(q)' /\ TextIsKept(q)
  <2>1. /\ TextIsBehind(q) /\ shown[q] \in Nat \cup {Unknown} /\ q \in Parts
        /\ copy[q].stage \in {"absent", "open", "ended"}
    BY DEF ReplayInv, ReplayTypeOK, TextsAreBehind, Parts
  <2>2. \A x \in Nat : x >= x
    BY SMT
  <2>3. q \in todo' <=> copy[q].stage = "ended"
    BY <1>1, <2>1 DEF IsStreaming
  <2> QED BY <1>1, <2>1, <2>2, <2>3 DEF TextIsBehind, TextIsKept
<1> QED BY <1>1, <1>2, <1>3 DEF ReplayInv, ReplayPending, TextsAreBehind

LEMMA ReplayPartStep ==
  ASSUME PartsDiffer, ReplayInv, NEW p \in Parts, ReplayPart(p)
  PROVE  ReplayInv' /\ \A q \in Texts : TextIsKept(q)
<1>1. /\ UNCHANGED <<stage, value, old, linked, resync, onceMore, copy>>
      /\ p \in todo /\ todo' = todo \ {p}
      /\ shown' = [shown EXCEPT ![p] = copy[p].value]
  BY DEF ReplayPart, Feed
<1>2. shown' \in [Parts -> Nat \cup {Unknown}] /\ shown'[p] = copy[p].value
      /\ \A q \in Parts \ {p} : shown'[q] = shown[q]
  BY <1>1 DEF ReplayInv, ReplayTypeOK
<1>3. ReplayTypeOK'
  BY <1>1, <1>2 DEF ReplayInv, ReplayTypeOK
<1>4. ASSUME NEW q \in Texts
      PROVE  TextIsBehind(q)' /\ TextIsKept(q)
  <2>1. /\ TextIsBehind(q) /\ shown[q] \in Nat \cup {Unknown} /\ q \in Parts /\ value[q] \in Nat
        /\ Unknown \notin Nat
    BY DEF ReplayInv, ReplayTypeOK, TextsAreBehind, Parts, PartsDiffer
  <2>2. \A x \in Nat : x >= x /\ x <= x
    BY SMT
  <2>3. CASE q # p
    BY <1>1, <1>2, <2>1, <2>2, <2>3 DEF TextIsBehind, TextIsKept
  <2>4. CASE q = p
    <3>1. stage[p] = "ended" /\ shown'[p] = value[p] /\ resync = "replaying" /\ copy[p].stage = "ended"
      BY <1>1, <1>2, <2>1, <2>4 DEF TextIsBehind, ReplayInv, ReplayPending
    <3>2. shown[p] # Unknown => value[p] >= shown[p]
      BY SMT, <2>1, <2>4 DEF TextIsBehind
    <3> QED BY <1>1, <2>1, <2>2, <2>4, <3>1, <3>2 DEF TextIsBehind, TextIsKept
  <2> QED BY <2>3, <2>4
<1> QED BY <1>1, <1>3, <1>4 DEF ReplayInv, ReplayPending, TextsAreBehind

LEMMA ReplayStepKeeps ==
  ASSUME PartsDiffer, ReplayInv, [ReplayNext]_replayVars
  PROVE  ReplayInv' /\ (~UNCHANGED replayVars => \A q \in Texts : TextIsKept(q))
<1>1. CASE UNCHANGED replayVars
  BY <1>1 DEF replayVars, ReplayInv, ReplayPending, ReplayTypeOK, TextsAreBehind, TextIsBehind
<1>2. CASE ReplayNext
  BY <1>2, FeedStep, ReplayPassStep, ReadStep, ReplayStep, ReplayPartStep DEF ReplayNext
<1> QED BY <1>1, <1>2

(* A replay never takes back what a viewer has read of an answer, however    *)
(* long it takes and whatever is written meanwhile (adapter.ts:2416-2425).   *)
THEOREM ReadTextIsKept ==
  ASSUME PartsDiffer
  PROVE  ReplaySpec => ReadTextStays
<1>1. ReplayInit => ReplayInv
  BY ReplayInitEstablishes
<1>2. ReplayInv /\ [ReplayNext]_replayVars => ReplayInv'
  BY ReplayStepKeeps
<1>3. ReplayInv /\ [ReplayNext]_replayVars =>
        [\A p \in Texts : shown[p] # Unknown => shown'[p] # Unknown /\ shown'[p] >= shown[p]]_replayVars
  BY ReplayStepKeeps DEF TextIsKept
<1> QED BY <1>1, <1>2, <1>3, PTL DEF ReplaySpec, ReadTextStays

(* And a text that had ended when it was fetched is shown whole once the     *)
(* replay is through (adapter.ts:2133-2134).                                 *)
THEOREM EndedTextIsShownWhole ==
  ASSUME PartsDiffer
  PROVE  ReplaySpec => []EndedTextIsWhole
<1>1. ReplayInit => ReplayInv
  BY ReplayInitEstablishes
<1>2. ReplayInv /\ [ReplayNext]_replayVars => ReplayInv'
  BY ReplayStepKeeps
<1>3. ReplayInv => EndedTextIsWhole
  BY DEF ReplayInv, TextsAreBehind, TextIsBehind, EndedTextIsWhole
<1> QED BY <1>1, <1>2, <1>3, PTL DEF ReplaySpec

---------------------------------------------------------------------------
(* The [activate] log's budget, for any shares, lines, reserves and slots.  *)

\* An id that was not tried holds no slot, and what a share took was written.
SlotsAreEarned ==
  \A s \in LoggedShares : /\ tried[s] = 0 => reserved[s] = 0
                          /\ tried[s] > 0 => written[s] > 0
                          /\ reserved[s] <= written[s]

Tried(t) == {s \in LoggedShares : t[s] > 0}

\* Nobody is displaced while there are slots for all.
SlotsSuffice ==
  Cardinality(Tried(tried)) <= ReserveShares =>
    \A s \in LoggedShares : reserved[s] = IF tried[s] < Reserve THEN tried[s] ELSE Reserve

LogInv == LogTypeOK /\ SuppressedLinesAreTold /\ SlotsAreBounded /\ SlotsAreEarned /\ SlotsSuffice

LEMMA LogLimits ==
  ASSUME LogLimitsAreSet
  PROVE  /\ Lines \in Nat /\ Lines > 0 /\ Reserve \in Nat /\ Reserve > 0 /\ ReserveShares \in Nat /\ ReserveShares > 0
         /\ NoShare \notin LoggedShares
BY SMT DEF LogLimitsAreSet

LEMMA SharesCount ==
  ASSUME LogLimitsAreSet, NEW S, S \subseteq LoggedShares
  PROVE  IsFiniteSet(S) /\ Cardinality(S) \in Nat
BY FS_Subset, FS_CardinalityType DEF LogLimitsAreSet

(* A share is given a slot without more than Slots being held.               *)
LEMMA GivenKeepsSlots ==
  ASSUME LogLimitsAreSet, NEW r \in [LoggedShares -> 0..Reserve], Cardinality(Holders(r)) <= ReserveShares,
         NEW s \in LoggedShares, r[s] < Reserve,
         NEW q \in Given(r, s)
  PROVE  /\ q \in [LoggedShares -> 0..Reserve]
         /\ q[s] = r[s] + 1
         /\ \A o \in LoggedShares : o # s => q[o] = r[o] \/ q[o] = 0
         /\ Cardinality(Holders(q)) <= ReserveShares
         /\ Cardinality(Holders(r) \cup {s}) <= ReserveShares => q = [r EXCEPT ![s] = @ + 1]
<1>0. Reserve \in Nat /\ Reserve > 0 /\ ReserveShares \in Nat /\ r[s] \in 0..Reserve
  BY SMT, LogLimits
<1>1. /\ Holders(r) \subseteq LoggedShares /\ IsFiniteSet(Holders(r)) /\ Cardinality(Holders(r)) \in Nat
  BY SharesCount DEF Holders
<1>2. CASE r[s] > 0 \/ Cardinality(Holders(r)) < ReserveShares
  <2>1. q = [r EXCEPT ![s] = @ + 1]
    BY <1>2 DEF Given
  <2>2. Holders(q) = Holders(r) \cup {s}
    BY SMT, <2>1, <1>0 DEF Holders
  <2>3. Cardinality(Holders(q)) <= ReserveShares
    <3>1. CASE r[s] > 0
      <4>1. Holders(r) \cup {s} = Holders(r)
        BY <3>1 DEF Holders
      <4> QED BY <4>1, <2>2
    <3>2. CASE ~(r[s] > 0)
      <4>1. Cardinality(Holders(r)) < ReserveShares
        BY <1>2, <3>2
      <4>2. Cardinality(Holders(r) \cup {s}) <= Cardinality(Holders(r)) + 1
        <5>1. Cardinality(Holders(r) \cup {s}) = IF s \in Holders(r) THEN Cardinality(Holders(r)) ELSE Cardinality(Holders(r)) + 1
          BY <1>1, FS_AddElement
        <5> QED BY SMT, <5>1, <1>1
      <4>3. Cardinality(Holders(r) \cup {s}) \in Nat
        BY <2>2, SharesCount DEF Holders
      <4> QED BY SMT, <4>1, <4>2, <4>3, <2>2, <1>0, <1>1
    <3> QED BY <3>1, <3>2
  <2>4. q \in [LoggedShares -> 0..Reserve] /\ q[s] = r[s] + 1 /\ \A o \in LoggedShares : o # s => q[o] = r[o]
    BY SMT, <2>1, <1>0
  <2> QED BY <2>1, <2>3, <2>4
<1>3. CASE ~(r[s] > 0 \/ Cardinality(Holders(r)) < ReserveShares)
  <2>1. PICK o \in Holders(r) : q = [r EXCEPT ![s] = @ + 1, ![o] = 0]
    BY <1>3 DEF Given
  <2>2. o \in LoggedShares /\ r[o] > 0 /\ o # s /\ r[s] = 0
    BY SMT, <2>1, <1>3, <1>0 DEF Holders
  <2>3. /\ q \in [LoggedShares -> 0..Reserve] /\ q[s] = r[s] + 1 /\ q[o] = 0
        /\ \A x \in LoggedShares : x # s => q[x] = r[x] \/ q[x] = 0
    BY SMT, <2>1, <2>2, <1>0
  <2>4. Holders(q) = (Holders(r) \ {o}) \cup {s}
    BY SMT, <2>1, <2>2, <1>0 DEF Holders
  <2>5. Cardinality(Holders(r) \ {o}) = Cardinality(Holders(r)) - 1
    BY <1>1, <2>1, FS_RemoveElement
  <2>6. IsFiniteSet(Holders(r) \ {o}) /\ s \notin Holders(r) \ {o}
    BY <1>1, <2>2, FS_Subset DEF Holders
  <2>7. Cardinality(Holders(q)) = Cardinality(Holders(r) \ {o}) + 1
    BY <2>4, <2>6, FS_AddElement
  <2>8. Cardinality(Holders(q)) <= ReserveShares
    BY SMT, <2>5, <2>7, <1>1
  <2>9. ~(Cardinality(Holders(r) \cup {s}) <= ReserveShares)
    <3>1. s \notin Holders(r)
      BY <2>2 DEF Holders
    <3>2. Cardinality(Holders(r) \cup {s}) = Cardinality(Holders(r)) + 1
      BY <3>1, <1>1, FS_AddElement
    <3> QED BY SMT, <3>2, <1>3, <1>1, <1>0
  <2> QED BY <2>3, <2>8, <2>9
<1> QED BY <1>2, <1>3

LEMMA LogInitEstablishes ==
  ASSUME LogLimitsAreSet, LogInit
  PROVE  LogInv
<1>1. LogTypeOK /\ SuppressedLinesAreTold /\ SlotsAreEarned /\ SlotsSuffice
  BY SMT, LogLimits DEF LogInit, LogTypeOK, SuppressedLinesAreTold, SlotsAreEarned, SlotsSuffice, LoggedIds
<1>2. Holders(reserved) = {}
  BY SMT DEF LogInit, Holders
<1>3. SlotsAreBounded
  BY SMT, <1>2, FS_EmptySet, LogLimits DEF SlotsAreBounded
<1> QED BY <1>1, <1>3 DEF LogInv

(* One line of a window: l, r, t, w are the window's state before it.        *)
LEMMA WriteKeeps ==
  ASSUME LogLimitsAreSet, NEW n \in LoggedIds, NEW l \in Nat,
         NEW r \in [LoggedShares -> 0..Reserve], NEW t \in [LoggedIds -> Nat], NEW w \in [LoggedIds -> Nat],
         Cardinality(Holders(r)) <= ReserveShares,
         \A s \in LoggedShares : /\ t[s] = 0 => r[s] = 0
                                 /\ t[s] > 0 => w[s] > 0
                                 /\ r[s] <= w[s],
         Cardinality(Tried(t)) <= ReserveShares =>
           \A s \in LoggedShares : r[s] = IF t[s] < Reserve THEN t[s] ELSE Reserve,
         Write(n, l, r),
         tried' = [t EXCEPT ![n] = @ + 1],
         written' = IF lines' = l THEN w ELSE [w EXCEPT ![n] = @ + 1]
  PROVE  /\ lines' \in Nat /\ reserved' \in [LoggedShares -> 0..Reserve]
         /\ tried' \in [LoggedIds -> Nat] /\ written' \in [LoggedIds -> Nat]
         /\ SlotsAreBounded' /\ SlotsAreEarned' /\ SlotsSuffice'
<1>0. /\ Lines \in Nat /\ Reserve \in Nat /\ Reserve > 0 /\ ReserveShares \in Nat
      /\ LoggedShares \subseteq LoggedIds /\ NoShare \notin LoggedShares
  BY LogLimits DEF LoggedIds
<1>t. /\ tried' \in [LoggedIds -> Nat] /\ written' \in [LoggedIds -> Nat]
      /\ \A m \in LoggedIds : tried'[m] = IF m = n THEN t[m] + 1 ELSE t[m]
  BY SMT
<1>c. Cardinality(Tried(tried')) <= ReserveShares => Cardinality(Tried(t)) <= ReserveShares
  <2>1. Tried(t) \subseteq Tried(tried')
    BY SMT, <1>t, <1>0 DEF Tried
  <2>2. IsFiniteSet(Tried(tried')) /\ Cardinality(Tried(tried')) \in Nat /\ Cardinality(Tried(t)) \in Nat
    BY SharesCount DEF Tried
  <2>3. Cardinality(Tried(t)) <= Cardinality(Tried(tried'))
    BY <2>1, <2>2, FS_Subset
  <2> QED BY SMT, <2>2, <2>3, <1>0
<1>1. CASE HasReserve(r, n)
  <2>0. /\ n \in LoggedShares /\ r[n] < Reserve /\ lines' = l + 1 /\ reserved' \in Given(r, n)
        /\ written' = [w EXCEPT ![n] = @ + 1]
    BY SMT, <1>1 DEF HasReserve, Write
  <2>1. /\ reserved' \in [LoggedShares -> 0..Reserve]
        /\ reserved'[n] = r[n] + 1
        /\ \A o \in LoggedShares : o # n => reserved'[o] = r[o] \/ reserved'[o] = 0
        /\ Cardinality(Holders(reserved')) <= ReserveShares
        /\ Cardinality(Holders(r) \cup {n}) <= ReserveShares => reserved' = [r EXCEPT ![n] = @ + 1]
    BY <2>0, GivenKeepsSlots
  <2>2. SlotsAreEarned'
    <3> SUFFICES ASSUME NEW s \in LoggedShares
                 PROVE  /\ tried'[s] = 0 => reserved'[s] = 0
                        /\ tried'[s] > 0 => written'[s] > 0
                        /\ reserved'[s] <= written'[s]
      BY DEF SlotsAreEarned
    <3>1. s \in LoggedIds /\ t[s] \in Nat /\ w[s] \in Nat /\ r[s] \in Nat /\ reserved'[s] \in Nat
      BY SMT, <1>0, <2>1
    <3>2. CASE s = n
      BY SMT, <3>1, <3>2, <2>0, <2>1, <1>t
    <3>3. CASE s # n
      BY SMT, <3>1, <3>3, <2>0, <2>1, <1>t
    <3> QED BY <3>2, <3>3
  <2>3. SlotsSuffice'
    <3> SUFFICES ASSUME Cardinality(Tried(tried')) <= ReserveShares, NEW s \in LoggedShares
                 PROVE  reserved'[s] = IF tried'[s] < Reserve THEN tried'[s] ELSE Reserve
      BY DEF SlotsSuffice
    <3>1. \A x \in LoggedShares : r[x] = IF t[x] < Reserve THEN t[x] ELSE Reserve
      BY <1>c
    <3>2. Holders(r) \cup {n} \subseteq Tried(tried')
      BY SMT, <1>t, <1>0, <2>0 DEF Holders, Tried
    <3>3. /\ IsFiniteSet(Tried(tried')) /\ Cardinality(Tried(tried')) \in Nat
          /\ Cardinality(Holders(r) \cup {n}) \in Nat
      BY <2>0, SharesCount DEF Tried, Holders
    <3>4. Cardinality(Holders(r) \cup {n}) <= Cardinality(Tried(tried'))
      BY <3>2, <3>3, FS_Subset
    <3>5. reserved' = [r EXCEPT ![n] = @ + 1]
      BY SMT, <3>3, <3>4, <2>1, <1>0
    <3>6. s \in LoggedIds /\ t[s] \in Nat
      BY <1>0
    <3> QED BY SMT, <3>1, <3>5, <3>6, <2>0, <1>t, <1>0
  <2>4. SlotsAreBounded'
    BY <2>1 DEF SlotsAreBounded
  <2> QED BY SMT, <1>t, <2>0, <2>1, <2>2, <2>3, <2>4
<1>2. CASE ~HasReserve(r, n)
  <2>0. reserved' = r /\ lines' \in {l, l + 1}
    BY SMT, <1>2 DEF Write
  <2>w. /\ \A m \in LoggedIds : written'[m] >= w[m]
        /\ n \in LoggedShares => ~(r[n] < Reserve)
    BY SMT, <1>2 DEF HasReserve
  <2>2. SlotsAreEarned'
    <3> SUFFICES ASSUME NEW s \in LoggedShares
                 PROVE  /\ tried'[s] = 0 => r[s] = 0
                        /\ tried'[s] > 0 => written'[s] > 0
                        /\ r[s] <= written'[s]
      BY <2>0 DEF SlotsAreEarned
    <3>1. /\ s \in LoggedIds /\ t[s] \in Nat /\ w[s] \in Nat /\ r[s] \in Nat
          /\ written'[s] \in Nat /\ written'[s] >= w[s]
      BY SMT, <1>0, <1>t, <2>w
    <3>2. CASE s = n
      BY SMT, <3>1, <3>2, <2>w, <1>t, <1>0
    <3>3. CASE s # n
      BY SMT, <3>1, <3>3, <1>t
    <3> QED BY <3>2, <3>3
  <2>3. SlotsSuffice'
    <3> SUFFICES ASSUME Cardinality(Tried(tried')) <= ReserveShares, NEW s \in LoggedShares
                 PROVE  r[s] = IF tried'[s] < Reserve THEN tried'[s] ELSE Reserve
      BY <2>0 DEF SlotsSuffice
    <3>1. r[s] = IF t[s] < Reserve THEN t[s] ELSE Reserve
      BY <1>c
    <3>2. s \in LoggedIds /\ t[s] \in Nat
      BY <1>0
    <3> QED BY SMT, <3>1, <3>2, <2>w, <1>t, <1>0
  <2>4. SlotsAreBounded'
    BY <2>0 DEF SlotsAreBounded
  <2> QED BY SMT, <1>t, <2>0, <2>2, <2>3, <2>4
<1> QED BY <1>1, <1>2

LEMMA LogStepKeeps ==
  ASSUME LogLimitsAreSet, LogInv, [LogNext]_budgetVars
  PROVE  LogInv'
<1>0. /\ LogTypeOK /\ SuppressedLinesAreTold /\ SlotsAreBounded /\ SlotsAreEarned /\ SlotsSuffice
  BY DEF LogInv
<1>1. ASSUME NEW n \in LoggedIds, Warn(n)
      PROVE  LogInv'
  <2>1. /\ lines' \in Nat /\ reserved' \in [LoggedShares -> 0..Reserve]
        /\ tried' \in [LoggedIds -> Nat] /\ written' \in [LoggedIds -> Nat]
        /\ SlotsAreBounded' /\ SlotsAreEarned' /\ SlotsSuffice'
    BY <1>0, <1>1, WriteKeeps DEF Warn, LogTypeOK, SlotsAreBounded, SlotsAreEarned, SlotsSuffice
  <2>2. suppressed' \in Nat /\ flush' \in {"off", "armed"} /\ SuppressedLinesAreTold'
    BY SMT, <1>0, <1>1 DEF Warn, LogTypeOK, SuppressedLinesAreTold
  <2> QED BY <2>1, <2>2 DEF LogInv, LogTypeOK
<1>2. ASSUME NEW n \in LoggedIds, WarnInNewWindow(n)
      PROVE  LogInv'
  <2> DEFINE r0 == [s \in LoggedShares |-> 0]
             t0 == [m \in LoggedIds |-> 0]
  <2>1. /\ r0 \in [LoggedShares -> 0..Reserve] /\ t0 \in [LoggedIds -> Nat] /\ LoggedShares \subseteq LoggedIds
        /\ \A s \in LoggedShares : r0[s] = 0 /\ t0[s] = 0
    BY SMT, LogLimits DEF LoggedIds
  <2>2. Holders(r0) = {}
    BY SMT, <2>1 DEF Holders
  <2>3. Cardinality(Holders(r0)) <= ReserveShares
    BY SMT, <2>2, FS_EmptySet, LogLimits
  <2>4. lines' # 0
    BY SMT, <1>2, LogLimits DEF WarnInNewWindow, Write
  <2>5. /\ tried' = [t0 EXCEPT ![n] = @ + 1]
        /\ written' = [t0 EXCEPT ![n] = @ + 1]
    BY SMT, <1>2 DEF WarnInNewWindow
  <2>6. Write(n, 0, r0)
    BY <1>2 DEF WarnInNewWindow
  <2>7. written' = IF lines' = 0 THEN t0 ELSE [t0 EXCEPT ![n] = @ + 1]
    BY <2>4, <2>5
  <2>8. \A s \in LoggedShares : r0[s] = IF t0[s] < Reserve THEN t0[s] ELSE Reserve
    BY SMT, <2>1, LogLimits
  <2>9. \A s \in LoggedShares : /\ t0[s] = 0 => r0[s] = 0
                                /\ t0[s] > 0 => t0[s] > 0
                                /\ r0[s] <= t0[s]
    BY SMT, <2>1
  <2>10. /\ lines' \in Nat /\ reserved' \in [LoggedShares -> 0..Reserve]
         /\ tried' \in [LoggedIds -> Nat] /\ written' \in [LoggedIds -> Nat]
         /\ SlotsAreBounded' /\ SlotsAreEarned' /\ SlotsSuffice'
    <3> HIDE DEF r0, t0
    <3> QED BY <1>2, <2>1, <2>3, <2>5, <2>6, <2>7, <2>8, <2>9, WriteKeeps
  <2>11. suppressed' \in Nat /\ flush' \in {"off", "armed"} /\ SuppressedLinesAreTold'
    BY SMT, <1>2 DEF WarnInNewWindow, SuppressedLinesAreTold
  <2> QED BY <2>10, <2>11 DEF LogInv, LogTypeOK
<1>3. CASE FlushSuppressed
  BY SMT, <1>0, <1>3 DEF FlushSuppressed, LogInv, LogTypeOK, SuppressedLinesAreTold, SlotsAreBounded, SlotsAreEarned,
     SlotsSuffice
<1>4. CASE UNCHANGED budgetVars
  BY <1>0, <1>4 DEF budgetVars, logVars, LogInv, LogTypeOK, SuppressedLinesAreTold, SlotsAreBounded, SlotsAreEarned, SlotsSuffice
<1> QED BY <1>1, <1>2, <1>3, <1>4 DEF LogNext

LEMMA LogInvSuffices ==
  ASSUME LogLimitsAreSet, LogInv
  PROVE  LogIsSound
<1>1. EveryShareIsHeard
  BY DEF LogInv, SlotsAreEarned, EveryShareIsHeard
<1>2. ReservesAreKept
  <2> SUFFICES ASSUME Cardinality(Tried(tried)) <= ReserveShares, NEW s \in LoggedShares
               PROVE  written[s] >= IF tried[s] < Reserve THEN tried[s] ELSE Reserve
    BY DEF ReservesAreKept, Tried
  <2>1. reserved[s] = IF tried[s] < Reserve THEN tried[s] ELSE Reserve
    BY DEF LogInv, SlotsSuffice
  <2>2. reserved[s] <= written[s] /\ reserved[s] \in Nat /\ written[s] \in Nat
    BY SMT, LogLimits DEF LogInv, SlotsAreEarned, LogTypeOK, LoggedIds
  <2> QED BY SMT, <2>1, <2>2
<1> QED BY <1>1, <1>2 DEF LogInv, LogIsSound

(* However its lines are spent, the log of a minute names every share that   *)
(* was tried, keeps the reserve of each while there are slots for all, and   *)
(* tells of what it leaves out (activate.ts:117-161).                        *)
THEOREM LogStaysSound ==
  ASSUME LogLimitsAreSet
  PROVE  LogSpec => []LogIsSound
<1>1. LogInit => LogInv
  BY LogInitEstablishes
<1>2. LogInv /\ [LogNext]_budgetVars => LogInv'
  BY LogStepKeeps
<1>3. LogInv => LogIsSound
  BY LogInvSuffices
<1> QED BY <1>1, <1>2, <1>3, PTL DEF LogSpec
=============================================================================
