------------------------ MODULE ShareRegistryProofs ------------------------
(***************************************************************************)
(* What holds of the registration store for any number of ids, installs,   *)
(* addresses and sessions, and for any limits and clock.                   *)
(*                                                                         *)
(* The argument rests on how little each helper may change: inserting or   *)
(* recording a claim adds one claim, of the install whose share ended, and *)
(* otherwise only drops claims; making room only drops sessions, none of   *)
(* them with an open bridge socket.  IInv adds to the invariants what      *)
(* restore() still holds in hand between two claims of its loop.           *)
(***************************************************************************)
EXTENDS ShareRegistry, FiniteSetTheorems, TLAPS

SessionMaps == [Ids -> Session \cup {None}]
ClaimMaps   == [Ids -> Claim \cup {None}]
CounterMaps == [Addrs -> Counter \cup {None}]

(* The claims still to be restored carry the owner of the registration that *)
(* was restored under their id, if there is one.                            *)
RestorableMatchesHolder ==
  \A c \in toRestore : sessions[c.id] # None => c.owner = sessions[c.id].owner

IInv == TypeOK /\ HolderMatchesClaim /\ RestorableMatchesHolder /\ SocketsAreBound

---------------------------------------------------------------------------
(* The operators on claims *)

(* A registration comes from an install, or from none, and an address the   *)
(* relay knows, and is refused or granted.                                  *)
LEMMA RegistrationIsRefusedOrGranted ==
  ASSUME NEW id \in Ids, NEW from \in Registrants, Register(id, from[1], from[2])
  PROVE  \E key \in Owners \cup {NoOwner}, addr \in Addrs :
           \/ RefuseRegistration(id, key, addr)
           \/ \E presentsCode \in BOOLEAN : AcceptRegistration(id, key, addr, presentsCode)
<1>1. from[1] \in Owners \cup {NoOwner} /\ from[2] \in Addrs
  BY RegistrantsAreKnown
<1>2. QED
  BY <1>1 DEF Register

(* The constants' limits, one by one. *)
LEMMA Limits ==
  /\ MaxSessions \in Nat /\ MaxTracking \in Nat
  /\ ClaimTtl \in Nat /\ MaxNow \in Nat /\ UnboundReap \in Nat /\ DepartedAfter \in Nat
BY LimitsAreNaturals

(* Inserting a claim adds that claim or nothing, and changes no other. *)
LEMMA InsertedAddsOne ==
  ASSUME NEW cl \in ClaimMaps, NEW id \in Ids, NEW claim \in Claim,
         NEW r \in Inserted(cl, id, claim)
  PROVE  /\ r \in ClaimMaps
         /\ \A i \in Ids : r[i] # None => r[i] = cl[i] \/ (i = id /\ r[i] = claim)
<1>1. CASE cl[id] # None \/ Cardinality(Present(cl)) < MaxTracking
  BY <1>1 DEF Inserted, ClaimMaps
<1>2. CASE ~(cl[id] # None \/ Cardinality(Present(cl)) < MaxTracking)
  <2>1. r = cl \/ \E victim : r = [cl EXCEPT ![victim] = None, ![id] = claim]
    BY <1>2 DEF Inserted
  <2>2. QED
    BY <2>1 DEF ClaimMaps
<1>3. QED
  BY <1>1, <1>2

(* A block holds finitely many claims. *)
LEMMA BlockSizeIsNatural ==
  ASSUME NEW cl \in ClaimMaps, NEW b
  PROVE  /\ IsFiniteSet(InBlock(cl, b))
         /\ BlockSize(cl, b) \in Nat
         /\ BlockSize(cl, b) = 0 <=> InBlock(cl, b) = {}
<1>1. InBlock(cl, b) \subseteq Ids
  BY DEF InBlock, Present, ClaimMaps
<1>2. IsFiniteSet(InBlock(cl, b))
  BY <1>1, FS_Subset, LimitsAreNaturals
<1>3. QED
  BY <1>2, FS_CardinalityType, FS_EmptySet DEF BlockSize

(* makeClaimRoom takes room only from the block that inserts, and only when *)
(* that block holds two claims or more: no other block is ever displaced.   *)
LEMMA DisplacedFromOwnBlock ==
  ASSUME NEW cl \in ClaimMaps, NEW b, NEW victim \in Displaceable(cl, b)
  PROVE  victim \in InBlock(cl, b) /\ BlockSize(cl, b) >= 2
<1> DEFINE crowded == {c \in {cl[id].bucket : id \in Present(cl)} : BlockSize(cl, c) >= 2}
           largest == {c \in crowded : \A d \in crowded : BlockSize(cl, d) <= BlockSize(cl, c)}
<1>1. PICK c \in CrowdedBlocks(cl, b) :
         /\ BlockSize(cl, c) <= BlockSize(cl, b)
         /\ victim \in OldestOf(cl, InBlock(cl, c))
  BY DEF Displaceable
<1>2. c \in largest
  BY <1>1 DEF CrowdedBlocks
<1>3. c \in crowded
  BY <1>2
<1>4. BlockSize(cl, b) >= 2
  BY <1>1, <1>3, BlockSizeIsNatural
<1>5. InBlock(cl, b) # {}
  BY <1>4, BlockSizeIsNatural
<1>6. b \in crowded
  BY <1>4, <1>5 DEF InBlock
<1>7. b \in largest
  <2>1. \A d : BlockSize(cl, d) \in Nat
    BY BlockSizeIsNatural
  <2>2. \A d \in crowded : BlockSize(cl, d) <= BlockSize(cl, c)
    BY <1>2
  <2>3. \A d \in crowded : BlockSize(cl, d) <= BlockSize(cl, b)
    BY <1>1, <2>1, <2>2
  <2>4. QED
    BY <1>6, <2>3
<1>8. c = b
  BY <1>1, <1>7 DEF CrowdedBlocks
<1>9. QED
  BY <1>1, <1>4, <1>8 DEF OldestOf

(* Pruning only drops claims. *)
LEMMA PruneOnlyDrops ==
  ASSUME NEW cl \in ClaimMaps
  PROVE  /\ PruneClaims(cl) \in ClaimMaps
         /\ \A i \in Ids : PruneClaims(cl)[i] \in {None, cl[i]}
BY DEF PruneClaims, ClaimMaps

(* recordClaim adds at most the ending share's own claim. *)
LEMMA RecordClaimAddsOne ==
  ASSUME TypeOK,
         NEW cl \in ClaimMaps, NEW id \in Ids, NEW s \in Session,
         NEW r \in RecordClaim(cl, id, s)
  PROVE  /\ r \in ClaimMaps
         /\ \A i \in Ids : r[i] # None => r[i] = cl[i] \/ (i = id /\ r[i].owner = s.owner)
<1> DEFINE claim == [owner |-> s.owner, at |-> now, bucket |-> Block[s.addr]]
<1>1. CASE r = cl
  BY <1>1
<1>2. CASE r # cl
  <2>1. r \in Inserted(PruneClaims(cl), id, claim) /\ s.owner # NoOwner
    BY <1>2 DEF RecordClaim
  <2>2. claim \in Claim
    BY <2>1, BlockIsTotal DEF Claim, Session, Buckets, TypeOK
  <2>3. PruneClaims(cl) \in ClaimMaps
    BY PruneOnlyDrops
  <2>4. /\ r \in ClaimMaps
        /\ \A i \in Ids : r[i] # None => r[i] = PruneClaims(cl)[i] \/ (i = id /\ r[i] = claim)
    BY <2>1, <2>2, <2>3, InsertedAddsOne
  <2>5. QED
    BY <2>4, PruneOnlyDrops
<1>3. QED
  BY <1>1, <1>2

---------------------------------------------------------------------------
(* The operators on counters and sessions *)

(* Pruning only drops counters, and committing sets the committed one. *)
LEMMA CommittedIsTyped ==
  ASSUME TypeOK, NEW regs \in CounterMaps, NEW addr \in Addrs,
         NEW r \in Committed(regs, addr)
  PROVE  r \in CounterMaps
<1> DEFINE pruned == PruneRegistrations(regs)
           first  == [count |-> 1, windowStart |-> now]
<1>1. pruned \in CounterMaps
  BY DEF PruneRegistrations, CounterMaps
<1>2. first \in Counter
  BY DEF Counter, TypeOK
<1>3. CASE pruned[addr] # None
  <2>1. r = [pruned EXCEPT ![addr].count = @ + 1]
    BY <1>3 DEF Committed
  <2>2. pruned[addr] \in Counter
    BY <1>1, <1>3 DEF CounterMaps
  <2>3. [pruned[addr] EXCEPT !.count = @ + 1] \in Counter
    BY <2>2 DEF Counter
  <2>4. QED
    BY <1>1, <2>1, <2>3 DEF CounterMaps
<1>4. CASE pruned[addr] = None
  <2>1. r = [pruned EXCEPT ![addr] = first] \/ \E a : r = [pruned EXCEPT ![a] = None, ![addr] = first]
    BY <1>4 DEF Committed
  <2>2. QED
    BY <1>1, <1>2, <2>1 DEF CounterMaps
<1>5. QED
  BY <1>3, <1>4

(* The sweep of a full relay drops only registrations no bridge took up. *)
LEMMA UntakenReapedDropsUnbound ==
  ASSUME TypeOK, NEW id \in Ids
  PROVE  /\ UntakenReaped(id) \in SessionMaps
         /\ \A i \in Ids : UntakenReaped(id)[i] \in {None, sessions[i]}
         /\ \A i \in Ids : Bound(i) => UntakenReaped(id)[i] = sessions[i]
BY DEF UntakenReaped, Untaken, Bound, SessionMaps, TypeOK

(* Making room drops sessions, none of them bridged, and records a claim    *)
(* only for the one it evicts.                                              *)
LEMMA RoomMadeDropsDeparted ==
  ASSUME TypeOK, NEW id \in Ids, NEW room \in RoomMade(id)
  PROVE  /\ room[1] \in SessionMaps
         /\ room[2] \in ClaimMaps
         /\ \A i \in Ids : room[1][i] \in {None, sessions[i]}
         /\ room[1][id] = UntakenReaped(id)[id]
         /\ \A i \in Ids : i \in connected /\ Bound(i) => room[1][i] = sessions[i]
         /\ \A i \in Ids :
              /\ room[2][i] # None
              /\ room[1][i] # None \/ i = id
              => room[2][i] = ClaimsSeen(UntakenReaped(id), id)[i]
<1> DEFINE ss == UntakenReaped(id)
           cl == ClaimsSeen(ss, id)
<1>1. /\ ss \in SessionMaps
      /\ \A i \in Ids : ss[i] \in {None, sessions[i]}
      /\ \A i \in Ids : Bound(i) => ss[i] = sessions[i]
  BY UntakenReapedDropsUnbound
<1>2. cl \in ClaimMaps
  BY DEF ClaimsSeen, WithoutLapsed, ClaimMaps, TypeOK
<1>3. CASE ~Full(ss, id)
  <2>1. room = <<ss, cl>>
    BY <1>3 DEF RoomMade
  <2>2. QED
    BY <1>1, <1>2, <2>1
<1>4. CASE Full(ss, id)
  <2>0. PICK gone \in LongestDeparted(ss) :
          \E a \in RecordClaim(cl, gone, ss[gone]) : room = <<[ss EXCEPT ![gone] = None], a>>
    BY <1>4 DEF RoomMade
  <2>1. PICK after \in RecordClaim(cl, gone, ss[gone]) : room = <<[ss EXCEPT ![gone] = None], after>>
    BY <2>0
  <2>2. gone \in Ids /\ ss[gone] \in Session /\ gone \notin connected
    BY <1>1, <2>0 DEF LongestDeparted, Departed, Present, SessionMaps
  <2>3. gone # id
    BY <1>4, <2>2, ConstantsAreApart DEF Full
  <2>4. /\ after \in ClaimMaps
        /\ \A i \in Ids : after[i] # None => after[i] = cl[i] \/ i = gone
    BY <1>2, <2>1, <2>2, RecordClaimAddsOne
  <2>5. room[1] = [ss EXCEPT ![gone] = None] /\ room[2] = after
    BY <2>1
  <2>6. /\ room[1] \in SessionMaps
        /\ \A i \in Ids : room[1][i] \in {None, sessions[i]}
        /\ room[1][id] = ss[id]
        /\ \A i \in Ids : i \in connected /\ Bound(i) => room[1][i] = sessions[i]
    BY <1>1, <2>2, <2>3, <2>5 DEF SessionMaps
  <2>7. room[1][gone] = None
    BY <1>1, <2>2, <2>5 DEF SessionMaps
  <2>8. QED
    BY <2>3, <2>4, <2>5, <2>6, <2>7
<1>5. QED
  BY <1>3, <1>4

---------------------------------------------------------------------------
(* A granted registration *)

(* The record createSession builds. *)
LEMMA NewSessionIsTyped ==
  ASSUME TypeOK, NEW ss \in SessionMaps, NEW id \in Ids, NEW key \in Owners \cup {NoOwner},
         NEW addr \in Addrs, NEW resumed \in BOOLEAN, resumed => ss[id] # None
  PROVE  NewSession(ss, id, key, addr, resumed) \in Session
<1>1. resumed => ss[id].created_at \in Nat
  BY DEF SessionMaps, Session
<1>2. QED
  BY <1>1 DEF NewSession, Session, TypeOK

(* What the handler leaves of the store: the new record under its id, the   *)
(* rooms' sessions elsewhere, and no claim that names another install.      *)
LEMMA AcceptedStore ==
  ASSUME TypeOK, HolderMatchesClaim,
         NEW id \in Ids, NEW key \in Owners \cup {NoOwner}, NEW addr \in Addrs,
         NEW presentsCode \in BOOLEAN, AcceptRegistration(id, key, addr, presentsCode)
  PROVE  /\ sessions' \in SessionMaps
         /\ claims' \in ClaimMaps
         /\ HolderMatchesClaim'
         /\ \A i \in connected \ {id} : Bound(i) => sessions'[i] = sessions[i]
         /\ sessions'[id].owner = key
         /\ answer' \in Answers
<1> DEFINE ss0 == UntakenReaped(id)
<1>1. PICK room \in RoomMade(id) :
        /\ claims' \in Superseding(room[2], room[1], id)
        /\ sessions' = [room[1] EXCEPT ![id] =
                           NewSession(room[1], id, key, addr, Resumes(room[1], id, presentsCode))]
        /\ answer' = IF Resumes(room[1], id, presentsCode) THEN "resumed" ELSE "created"
  BY DEF AcceptRegistration
<1> DEFINE ss == room[1]
           cl == room[2]
           resumed == Resumes(ss, id, presentsCode)
           new == NewSession(ss, id, key, addr, resumed)
<1>2. /\ ss \in SessionMaps
      /\ cl \in ClaimMaps
      /\ \A i \in Ids : ss[i] \in {None, sessions[i]}
      /\ ss[id] = ss0[id]
      /\ \A i \in Ids : i \in connected /\ Bound(i) => ss[i] = sessions[i]
      /\ \A i \in Ids : cl[i] # None /\ (ss[i] # None \/ i = id) => cl[i] = ClaimsSeen(ss0, id)[i]
  BY RoomMadeDropsDeparted
<1>3. resumed \in BOOLEAN /\ (resumed => ss[id] # None)
  <2>1. ss[id] # None => ss[id].code \in BOOLEAN
    BY <1>2 DEF SessionMaps, Session
  <2>2. QED
    BY <2>1 DEF Resumes
<1>4. new \in Session
  BY <1>2, <1>3, NewSessionIsTyped
<1>5. /\ sessions' \in SessionMaps
      /\ sessions'[id] = new
      /\ \A i \in Ids \ {id} : sessions'[i] = ss[i]
  BY <1>1, <1>2, <1>4 DEF SessionMaps
<1>6. new.owner = key
  BY DEF NewSession
<1>7. /\ claims' \in ClaimMaps
      /\ \A i \in Ids : claims'[i] # None
           => claims'[i] = cl[i] \/ (i = id /\ ss[id] # None /\ claims'[i].owner = ss[id].owner)
  <2>1. CASE ss[id] = None
    BY <1>1, <1>2, <2>1 DEF Superseding
  <2>2. CASE ss[id] # None
    <3>1. claims' \in RecordClaim(cl, id, ss[id])
      BY <1>1, <2>2 DEF Superseding
    <3>2. ss[id] \in Session
      BY <1>2, <2>2 DEF SessionMaps
    <3>3. QED
      BY <1>2, <2>2, <3>1, <3>2, RecordClaimAddsOne
  <2>3. QED
    BY <2>1, <2>2
<1>8. \A i \in Ids : ClaimsSeen(ss0, id)[i] # None => ClaimsSeen(ss0, id)[i] = claims[i]
  BY DEF ClaimsSeen, WithoutLapsed, TypeOK
<1>9. ss[id] = None /\ ClaimsSeen(ss0, id)[id] # None => claims[id].owner = key
  <2>1. SUFFICES ASSUME ss0[id] = None, ClaimsSeen(ss0, id)[id] # None
                 PROVE  claims[id].owner = key
    BY <1>2
  <2>2. claims[id] # None /\ ~Lapsed(claims[id])
    BY <2>1 DEF ClaimsSeen, WithoutLapsed, TypeOK
  <2>3. ~ReservedAgainst(claims, id, key)
    BY <2>1 DEF AcceptRegistration, Allowed
  <2>4. QED
    BY <2>2, <2>3 DEF ReservedAgainst, OwnerKeyMatches
<1>10. ss[id] # None => ss[id] = sessions[id] /\ ss[id].owner = key
  <2>1. ss0[id] # None => ss0[id].owner = key
    BY DEF AcceptRegistration, Allowed, OwnerKeyMatches
  <2>2. QED
    BY <1>2, <2>1
<1>11. HolderMatchesClaim'
  <2>1. SUFFICES ASSUME NEW i \in Ids, sessions'[i] # None, claims'[i] # None
                 PROVE  claims'[i].owner = sessions'[i].owner
    BY DEF HolderMatchesClaim
  <2>2. CASE i # id
    <3>1. ss[i] # None /\ sessions'[i] = sessions[i]
      BY <1>2, <1>5, <2>1, <2>2
    <3>2. claims'[i] = claims[i]
      BY <1>2, <1>7, <1>8, <2>1, <2>2, <3>1
    <3>3. QED
      BY <2>1, <3>1, <3>2 DEF HolderMatchesClaim
  <2>3. CASE i = id /\ ss[id] = None
    <3>1. claims'[id] = claims[id] /\ claims[id].owner = key
      BY <1>2, <1>7, <1>8, <1>9, <2>1, <2>3
    <3>2. QED
      BY <1>5, <1>6, <2>3, <3>1
  <2>4. CASE i = id /\ ss[id] # None
    <3>1. claims'[id] = claims[id] \/ claims'[id].owner = key
      BY <1>2, <1>7, <1>8, <1>10, <2>1, <2>4
    <3>2. claims[id] # None => claims[id].owner = key
      BY <1>10, <2>4 DEF HolderMatchesClaim
    <3>3. QED
      BY <1>5, <1>6, <2>1, <2>4, <3>1, <3>2
  <2>5. QED
    BY <2>2, <2>3, <2>4
<1>12. \A i \in connected \ {id} : Bound(i) => sessions'[i] = sessions[i]
  BY <1>2, <1>5 DEF TypeOK
<1>13. answer' \in Answers
  BY <1>1 DEF Answers
<1>14. QED
  BY <1>5, <1>6, <1>7, <1>11, <1>12, <1>13

---------------------------------------------------------------------------
(* The invariant, action by action *)

USE DEF SessionMaps, ClaimMaps

(* The sessions and claims that ending one share leaves. *)
LEMMA EndedStore ==
  ASSUME IInv, NEW id \in Ids, sessions[id] # None,
         sessions' = [sessions EXCEPT ![id] = None],
         claims' \in RecordClaim(claims, id, sessions[id])
  PROVE  /\ sessions' \in SessionMaps
         /\ claims' \in ClaimMaps
         /\ HolderMatchesClaim'
         /\ \A i \in connected \ {id} : Bound(i)'
<1>1. sessions' \in SessionMaps /\ sessions'[id] = None /\ \A i \in Ids \ {id} : sessions'[i] = sessions[i]
  BY DEF IInv, TypeOK
<1>2. sessions[id] \in Session /\ claims \in ClaimMaps
  BY DEF IInv, TypeOK
<1>3. /\ claims' \in ClaimMaps
      /\ \A i \in Ids : claims'[i] # None => claims'[i] = claims[i] \/ i = id
  BY <1>2, RecordClaimAddsOne DEF IInv
<1>4. HolderMatchesClaim'
  BY <1>1, <1>3 DEF HolderMatchesClaim, IInv
<1>5. \A i \in connected \ {id} : Bound(i)'
  BY <1>1 DEF IInv, TypeOK, SocketsAreBound, Bound
<1>6. QED
  BY <1>1, <1>3, <1>4, <1>5

(* A sign of life keeps the record's owner and leaves it bound. *)
LEMMA TouchedStore ==
  ASSUME IInv, NEW id \in Ids, NEW provenLife \in BOOLEAN, TouchSession(id, provenLife)
  PROVE  /\ sessions' \in SessionMaps
         /\ \A i \in Ids : /\ sessions'[i] = None <=> sessions[i] = None
                           /\ sessions[i] # None => sessions'[i].owner = sessions[i].owner
                           /\ Bound(i) => Bound(i)'
         /\ sessions[id] # None => Bound(id)'
<1>1. CASE sessions[id] = None
  BY <1>1 DEF TouchSession, IInv, TypeOK, Bound
<1>2. CASE sessions[id] # None
  <2>1. sessions[id] \in Session
    BY <1>2 DEF IInv, TypeOK
  <2>2. /\ Touched(sessions[id], provenLife) \in Session
        /\ Touched(sessions[id], provenLife).owner = sessions[id].owner
        /\ Touched(sessions[id], provenLife).unbound_since = None
    BY <2>1 DEF Touched, Session, IInv, TypeOK
  <2>3. sessions' = [sessions EXCEPT ![id] = Touched(sessions[id], provenLife)]
    BY <1>2 DEF TouchSession
  <2>4. Touched(sessions[id], provenLife) # None
    BY <2>2, ConstantsAreApart
  <2>5. QED
    BY <1>2, <2>2, <2>3, <2>4 DEF IInv, TypeOK, Bound
<1>3. QED
  BY <1>1, <1>2

(* The records and claims of a restart. *)
LEMMA RestartedStore ==
  ASSUME IInv, NEW downtime \in 0..MaxNow, Restart(downtime)
  PROVE  /\ sessions' \in SessionMaps
         /\ toRestore' \subseteq Restorable
         /\ RestorableMatchesHolder'
<1> DEFINE t == now + downtime
<1>1. t \in Nat
  BY Limits DEF IInv, TypeOK
<1>2. \A id \in RestoredFrom(t) : id \in Ids /\ sessions[id] \in Session
  BY DEF RestoredFrom, Live, Present, IInv, TypeOK
<1>3. \A id \in RestoredFrom(t) : /\ Restored(sessions[id], t) \in Session
                                  /\ Restored(sessions[id], t).owner = sessions[id].owner
  BY <1>1, <1>2 DEF Restored, Session
<1>4. sessions' = [id \in Ids |-> IF id \in RestoredFrom(t) THEN Restored(sessions[id], t) ELSE None]
  BY DEF Restart
<1>5. sessions' \in SessionMaps
  BY <1>3, <1>4
<1>6. FileClaims(t) \subseteq Restorable
  <2>1. SUFFICES ASSUME NEW id \in Ids, claims[id] # None
                 PROVE  [id |-> id, owner |-> claims[id].owner, at |-> claims[id].at,
                         bucket |-> IF Encrypted THEN claims[id].bucket ELSE RestoredBucket(id)]
                          \in Restorable
    BY DEF FileClaims, Present, IInv, TypeOK
  <2>2. claims[id] \in Claim
    BY <2>1 DEF IInv, TypeOK
  <2>3. QED
    BY <2>2 DEF Claim, Restorable, Buckets
<1>7. IdleClaims(t) \subseteq Restorable
  <2>1. SUFFICES ASSUME NEW id \in Ids, sessions[id] # None, sessions[id].owner # NoOwner
                 PROVE  [id |-> id, owner |-> sessions[id].owner, at |-> sessions[id].last_seen,
                         bucket |-> IF Encrypted /\ sessions[id].addr # NoAddr
                                    THEN Block[sessions[id].addr] ELSE RestoredBucket(id)]
                          \in Restorable
    BY DEF IdleClaims, Live, Present, IInv, TypeOK
  <2>2. sessions[id] \in Session
    BY <2>1 DEF IInv, TypeOK
  <2>3. Block[sessions[id].addr] \in Blocks
    BY <2>2, BlockIsTotal DEF Session
  <2>4. QED
    BY <2>1, <2>2, <2>3 DEF Session, Restorable, Buckets
<1>8. RestorableMatchesHolder'
  <2>1. SUFFICES ASSUME NEW c \in FileClaims(t) \cup IdleClaims(t), sessions'[c.id] # None
                 PROVE  c.owner = sessions'[c.id].owner
    BY DEF RestorableMatchesHolder, Restart
  <2>2. c.id \in RestoredFrom(t)
    BY <1>4, <1>6, <1>7, <2>1 DEF Restorable
  <2>3. c \notin IdleClaims(t)
    BY <2>2 DEF IdleClaims
  <2>4. claims[c.id] # None /\ c.owner = claims[c.id].owner
    BY <2>1, <2>3 DEF FileClaims, Present
  <2>5. sessions[c.id] # None
    BY <2>2 DEF RestoredFrom, Live, Present
  <2>6. QED
    BY <1>2, <1>3, <1>4, <2>2, <2>4, <2>5 DEF HolderMatchesClaim, IInv
<1>9. QED
  BY <1>5, <1>6, <1>7, <1>8 DEF Restart

(* Claims keep naming the holder while no session changes its owner. *)
LEMMA OwnersKept ==
  ASSUME IInv, UNCHANGED <<claims, toRestore>>,
         \A i \in Ids : /\ sessions[i] = None => sessions'[i] = None
                        /\ sessions[i] # None => sessions'[i].owner = sessions[i].owner
  PROVE  HolderMatchesClaim' /\ RestorableMatchesHolder'
<1>1. HolderMatchesClaim'
  BY DEF IInv, HolderMatchesClaim
<1>2. \A c \in toRestore : c.id \in Ids
  BY DEF IInv, TypeOK, Restorable
<1>3. RestorableMatchesHolder'
  BY <1>2 DEF IInv, RestorableMatchesHolder
<1>4. QED
  BY <1>1, <1>3

(* The initial store is empty. *)
LEMMA InitEstablishes == Init => IInv
<1> SUFFICES ASSUME Init PROVE IInv
  OBVIOUS
<1>1. TypeOK
  BY DEF Init, TypeOK, Answers
<1>2. HolderMatchesClaim /\ RestorableMatchesHolder /\ SocketsAreBound
  BY DEF Init, HolderMatchesClaim, RestorableMatchesHolder, SocketsAreBound
<1>3. QED
  BY <1>1, <1>2 DEF IInv

(* Every action keeps the invariant. *)
LEMMA StepPreserves == IInv /\ [Next]_vars => IInv'
<1> SUFFICES ASSUME IInv, [Next]_vars PROVE IInv'
  OBVIOUS
<1> USE DEF IInv
<1>1. ASSUME NEW id \in Ids, NEW key \in Owners \cup {NoOwner}, NEW addr \in Addrs,
             RefuseRegistration(id, key, addr)
      PROVE  IInv'
  <2>1. /\ sessions' \in SessionMaps
        /\ \A i \in Ids : sessions'[i] \in {None, sessions[i]}
        /\ \A i \in Ids : Bound(i) => sessions'[i] = sessions[i]
    BY <1>1, UntakenReapedDropsUnbound DEF RefuseRegistration
  <2>2. claims' = claims \/ claims' = WithoutLapsed(claims, id)
    BY <1>1 DEF RefuseRegistration
  <2>3. claims' \in ClaimMaps /\ \A i \in Ids : claims'[i] \in {None, claims[i]}
    BY <2>2 DEF WithoutLapsed, TypeOK
  <2>4. registrations' \in CounterMaps
    BY <1>1 DEF RefuseRegistration, CountersAfterReap, PruneRegistrations, CounterMaps, TypeOK
  <2>5. answer' \in Answers
    BY <1>1 DEF RefuseRegistration, Answers, Refusals
  <2>6. TypeOK'
    BY <1>1, <2>1, <2>3, <2>4, <2>5 DEF RefuseRegistration, TypeOK, CounterMaps
  <2>7. HolderMatchesClaim' /\ RestorableMatchesHolder'
    BY <1>1, <2>1, <2>3 DEF RefuseRegistration, HolderMatchesClaim, RestorableMatchesHolder,
                            TypeOK, Restorable
  <2>8. SocketsAreBound'
    BY <1>1, <2>1 DEF RefuseRegistration, SocketsAreBound, Bound, TypeOK
  <2>9. QED
    BY <2>6, <2>7, <2>8
<1>2. ASSUME NEW id \in Ids, NEW key \in Owners \cup {NoOwner}, NEW addr \in Addrs,
             NEW presentsCode \in BOOLEAN, AcceptRegistration(id, key, addr, presentsCode)
      PROVE  IInv'
  <2>1. /\ sessions' \in SessionMaps /\ claims' \in ClaimMaps
        /\ HolderMatchesClaim'
        /\ \A i \in connected \ {id} : Bound(i) => sessions'[i] = sessions[i]
        /\ answer' \in Answers
    BY <1>2, AcceptedStore
  <2>2. registrations' \in CounterMaps
    <3>1. CountersAfterReap(id) \in CounterMaps
      BY DEF CountersAfterReap, PruneRegistrations, CounterMaps, TypeOK
    <3>2. QED
      BY <1>2, <3>1, CommittedIsTyped DEF AcceptRegistration
  <2>3. TypeOK'
    BY <1>2, <2>1, <2>2 DEF AcceptRegistration, TypeOK, CounterMaps
  <2>4. RestorableMatchesHolder'
    BY <1>2 DEF AcceptRegistration, Idle, RestorableMatchesHolder
  <2>5. SocketsAreBound'
    BY <1>2, <2>1 DEF AcceptRegistration, SocketsAreBound, Bound
  <2>6. QED
    BY <2>1, <2>3, <2>4, <2>5
<1>3. ASSUME NEW id \in Ids, Delete(id) PROVE IInv'
  <2>1. /\ sessions' \in SessionMaps /\ claims' \in ClaimMaps /\ HolderMatchesClaim'
        /\ \A i \in connected \ {id} : Bound(i)'
    BY <1>3, EndedStore DEF Delete
  <2>2. TypeOK'
    BY <1>3, <2>1 DEF Delete, TypeOK, Answers
  <2>3. RestorableMatchesHolder' /\ SocketsAreBound'
    BY <1>3, <2>1 DEF Delete, Idle, RestorableMatchesHolder, SocketsAreBound, Bound
  <2>4. QED
    BY <2>1, <2>2, <2>3
<1>4. ASSUME NEW id \in Ids, Reap(id) PROVE IInv'
  <2>1. sessions[id] # None
    BY <1>4 DEF Reap, ExpiredIn, Present
  <2>2. /\ sessions' \in SessionMaps /\ claims' \in ClaimMaps /\ HolderMatchesClaim'
        /\ \A i \in connected \ {id} : Bound(i)'
    BY <1>4, <2>1, EndedStore DEF Reap
  <2>3. registrations' \in CounterMaps
    BY <1>4 DEF Reap, PruneRegistrations, CounterMaps, TypeOK
  <2>4. TypeOK'
    BY <1>4, <2>2, <2>3 DEF Reap, TypeOK, Answers, CounterMaps
  <2>5. RestorableMatchesHolder' /\ SocketsAreBound'
    BY <1>4, <2>2 DEF Reap, RestorableMatchesHolder, SocketsAreBound, Bound
  <2>6. QED
    BY <2>2, <2>4, <2>5
<1>5. ASSUME NEW id \in Ids, NEW provenLife \in BOOLEAN,
             \/ Connect(id) /\ provenLife = FALSE
             \/ BridgeAlive(id, provenLife)
             \/ ClosingSocketAlive(id, provenLife)
      PROVE  IInv'
  <2>1. /\ TouchSession(id, provenLife)
        /\ UNCHANGED <<now, claims, registrations, closing, restoredAt, reaping, toRestore>>
        /\ answer' = "none"
        /\ connected' = connected \/ (connected' = connected \cup {id} /\ sessions[id] # None)
    BY <1>5 DEF Connect, BridgeAlive, ClosingSocketAlive
  <2>2. /\ sessions' \in SessionMaps
        /\ \A i \in Ids : /\ sessions'[i] = None <=> sessions[i] = None
                          /\ sessions[i] # None => sessions'[i].owner = sessions[i].owner
                          /\ Bound(i) => Bound(i)'
        /\ sessions[id] # None => Bound(id)'
    BY <2>1, TouchedStore
  <2>3. TypeOK'
    BY <2>1, <2>2 DEF TypeOK, Answers
  <2>4. HolderMatchesClaim' /\ RestorableMatchesHolder'
    BY <2>1, <2>2, OwnersKept
  <2>5. SocketsAreBound'
    BY <2>1, <2>2 DEF SocketsAreBound, Bound, TypeOK
  <2>6. QED
    BY <2>3, <2>4, <2>5
<1>6. ASSUME NEW id \in Ids, LinkDrops(id) \/ ClosingEnds(id) PROVE IInv'
  <2>1. /\ UNCHANGED <<now, sessions, claims, registrations, restoredAt, reaping, toRestore>>
        /\ connected' \subseteq connected /\ closing' \subseteq closing
        /\ answer' = "none"
    BY <1>6 DEF LinkDrops, ClosingEnds
  <2>2. QED
    BY <2>1 DEF TypeOK, Answers, HolderMatchesClaim, RestorableMatchesHolder, SocketsAreBound, Bound
<1>7. ASSUME NEW id \in Ids, ViewerJoins(id) PROVE IInv'
  <2>1. sessions[id] \in Session /\ now \in Nat
    BY <1>7 DEF ViewerJoins, TypeOK
  <2>2. sessions' = [sessions EXCEPT ![id] = [sessions[id] EXCEPT !.last_seen = now]]
    BY <1>7 DEF ViewerJoins
  <2>3. [sessions[id] EXCEPT !.last_seen = now] \in Session
    BY <2>1 DEF Session
  <2>4. /\ sessions' \in SessionMaps
        /\ \A i \in Ids : /\ sessions'[i] = None <=> sessions[i] = None
                          /\ sessions[i] # None => sessions'[i].owner = sessions[i].owner
                          /\ Bound(i) => Bound(i)'
    BY <2>1, <2>2, <2>3, ConstantsAreApart DEF TypeOK, Bound, Session
  <2>5. TypeOK'
    BY <1>7, <2>4 DEF ViewerJoins, TypeOK, Answers
  <2>6. HolderMatchesClaim' /\ RestorableMatchesHolder'
    BY <1>7, <2>4, OwnersKept DEF ViewerJoins
  <2>7. SocketsAreBound'
    BY <1>7, <2>4 DEF ViewerJoins, SocketsAreBound, Bound, TypeOK
  <2>8. QED
    BY <2>5, <2>6, <2>7
<1>8. ASSUME NEW downtime \in 0..MaxNow, Restart(downtime) PROVE IInv'
  <2>1. sessions' \in SessionMaps /\ toRestore' \subseteq Restorable /\ RestorableMatchesHolder'
    BY <1>8, RestartedStore
  <2>2. now' \in Nat /\ restoredAt' \in Nat
    BY <1>8, Limits DEF Restart, TypeOK
  <2>3. TypeOK'
    BY <1>8, <2>1, <2>2 DEF Restart, TypeOK, Answers
  <2>4. HolderMatchesClaim' /\ SocketsAreBound'
    BY <1>8 DEF Restart, HolderMatchesClaim, SocketsAreBound
  <2>5. QED
    BY <2>1, <2>3, <2>4
<1>9. ASSUME NEW c \in toRestore, RestoreClaim(c) PROVE IInv'
  <2> DEFINE claim == [owner |-> c.owner, at |-> c.at, bucket |-> c.bucket]
  <2>1. c \in Restorable /\ c.id \in Ids
    BY DEF TypeOK, Restorable
  <2>2. claim \in Claim
    BY <2>1 DEF Restorable, Claim
  <2>3. /\ claims' \in ClaimMaps
        /\ \A i \in Ids : claims'[i] # None => claims'[i] = claims[i] \/ (i = c.id /\ claims'[i] = claim)
    <3>1. claims' = claims \/ claims' \in Inserted(claims, c.id, claim)
      BY <1>9 DEF RestoreClaim
    <3>2. claims \in ClaimMaps
      BY DEF TypeOK
    <3>3. QED
      BY <2>1, <2>2, <3>1, <3>2, InsertedAddsOne
  <2>4. TypeOK'
    BY <1>9, <2>3 DEF RestoreClaim, TypeOK, Answers
  <2>5. HolderMatchesClaim' /\ RestorableMatchesHolder' /\ SocketsAreBound'
    BY <1>9, <2>3 DEF RestoreClaim, HolderMatchesClaim, RestorableMatchesHolder, SocketsAreBound, Bound
  <2>6. QED
    BY <2>4, <2>5
<1>10. CASE Tick
  BY <1>10 DEF Tick, TypeOK, Answers, HolderMatchesClaim, RestorableMatchesHolder, SocketsAreBound, Bound
<1>11. CASE UNCHANGED vars
  BY <1>11 DEF vars, TypeOK, HolderMatchesClaim, RestorableMatchesHolder, SocketsAreBound, Bound
<1>12. QED
  BY <1>1, <1>2, <1>3, <1>4, <1>5, <1>6, <1>7, <1>8, <1>9, <1>10, <1>11,
     RegistrationIsRefusedOrGranted DEF Next

---------------------------------------------------------------------------
(* The limits *)

(* Sets of ids are finite, and a part of one is no larger. *)
LEMMA PartsAreSmaller ==
  ASSUME NEW S \in SUBSET Ids, NEW T \in SUBSET S
  PROVE  /\ IsFiniteSet(S) /\ IsFiniteSet(T)
         /\ Cardinality(S) \in Nat /\ Cardinality(T) \in Nat
         /\ Cardinality(T) <= Cardinality(S)
<1>1. IsFiniteSet(S)
  BY FS_Subset, LimitsAreNaturals
<1>2. QED
  BY <1>1, FS_Subset, FS_CardinalityType

(* One element more than a set below its limit still fits. *)
LEMMA OneMoreFits ==
  ASSUME NEW S \in SUBSET Ids, NEW x \in Ids, NEW T \in SUBSET (S \cup {x}), NEW n \in Nat,
         Cardinality(S) < n
  PROVE  Cardinality(T) <= n
<1>1. IsFiniteSet(S) /\ Cardinality(S) \in Nat
  BY PartsAreSmaller
<1>2. Cardinality(S \cup {x}) <= Cardinality(S) + 1 /\ Cardinality(S \cup {x}) \in Nat
  BY <1>1, FS_AddElement
<1>3. Cardinality(T) <= Cardinality(S \cup {x}) /\ Cardinality(T) \in Nat
  BY PartsAreSmaller
<1>4. QED
  BY <1>1, <1>2, <1>3

(* A set of ids that gives up an element has one less. *)
LEMMA OneLess ==
  ASSUME NEW S \in SUBSET Ids, NEW x \in S
  PROVE  Cardinality(S \ {x}) = Cardinality(S) - 1
BY PartsAreSmaller, FS_RemoveElement

(* What is present in a map of claims is a set of ids. *)
LEMMA PresentAreIds ==
  ASSUME NEW cl \in ClaimMaps
  PROVE  Present(cl) = {i \in Ids : cl[i] # None} /\ Present(cl) \in SUBSET Ids
BY DEF Present, ClaimMaps

(* The same of sessions. *)
LEMMA LiveAreIds ==
  ASSUME NEW ss \in SessionMaps
  PROVE  Present(ss) = {i \in Ids : ss[i] # None} /\ Present(ss) \in SUBSET Ids
BY DEF Present, SessionMaps

(* An inserted claim is there unless the map was full and stayed so; another *)
(* claim gives way only to one of its own block, in a full map, while that   *)
(* block holds two or more.                                                  *)
LEMMA InsertedKeeps ==
  ASSUME NEW cl \in ClaimMaps, NEW id \in Ids, NEW claim \in Claim,
         NEW r \in Inserted(cl, id, claim)
  PROVE  /\ \/ r[id] = claim
            \/ r = cl /\ cl[id] = None /\ Cardinality(Present(cl)) >= MaxTracking
         /\ \A i \in Ids \ {id} : cl[i] # None =>
              \/ r[i] = cl[i]
              \/ /\ cl[id] = None /\ Cardinality(Present(cl)) >= MaxTracking
                 /\ r[id] = claim
                 /\ cl[i].bucket = claim.bucket
                 /\ BlockSize(cl, claim.bucket) >= 2
<1>0. Cardinality(Present(cl)) \in Nat /\ MaxTracking \in Nat
  BY PresentAreIds, PartsAreSmaller, Limits
<1>1. CASE cl[id] # None \/ Cardinality(Present(cl)) < MaxTracking
  BY <1>1 DEF Inserted, ClaimMaps
<1>2. CASE ~(cl[id] # None \/ Cardinality(Present(cl)) < MaxTracking)
  <2>1. CASE r = cl
    BY <1>0, <1>2, <2>1
  <2>2. CASE r # cl
    <3>1. PICK victim \in Displaceable(cl, claim.bucket) :
            r = [cl EXCEPT ![victim] = None, ![id] = claim]
      BY <1>2, <2>2 DEF Inserted
    <3>2. victim \in InBlock(cl, claim.bucket) /\ BlockSize(cl, claim.bucket) >= 2
      BY <3>1, DisplacedFromOwnBlock
    <3>3. cl[victim].bucket = claim.bucket
      BY <3>2 DEF InBlock
    <3>4. r[id] = claim /\ \A i \in Ids \ {id} : i # victim => r[i] = cl[i]
      BY <3>1 DEF ClaimMaps
    <3>5. QED
      BY <1>0, <1>2, <3>2, <3>3, <3>4
  <2>3. QED
    BY <2>1, <2>2
<1>3. QED
  BY <1>1, <1>2

(* Inserting a claim respects the cap of the reservation map. *)
LEMMA InsertedFits ==
  ASSUME NEW cl \in ClaimMaps, NEW id \in Ids, NEW claim \in Claim,
         NEW r \in Inserted(cl, id, claim), Cardinality(Present(cl)) <= MaxTracking
  PROVE  Cardinality(Present(r)) <= MaxTracking
<1>1. r \in ClaimMaps /\ Present(cl) \in SUBSET Ids /\ Cardinality(Present(cl)) \in Nat
      /\ MaxTracking \in Nat
  BY InsertedAddsOne, PresentAreIds, PartsAreSmaller, Limits
<1>2. Present(r) \subseteq Present(cl) \cup {id}
  BY <1>1, InsertedAddsOne, PresentAreIds
<1>3. CASE cl[id] # None
  <2>1. Present(r) \subseteq Present(cl)
    BY <1>2, <1>3, PresentAreIds
  <2>2. QED
    BY <1>1, <2>1, PartsAreSmaller
<1>4. CASE Cardinality(Present(cl)) < MaxTracking
  BY <1>1, <1>2, <1>4, OneMoreFits
<1>5. CASE cl[id] = None /\ ~(Cardinality(Present(cl)) < MaxTracking) /\ r # cl
  <2>1. PICK victim \in Displaceable(cl, claim.bucket) :
          r = [cl EXCEPT ![victim] = None, ![id] = claim]
    BY <1>5 DEF Inserted
  <2>2. victim \in Present(cl)
    BY <2>1, DisplacedFromOwnBlock DEF InBlock
  <2>3. Cardinality(Present(cl) \ {victim}) < MaxTracking
    BY <1>1, <2>2, OneLess
  <2>4. victim # id
    BY <1>5, <2>2, PresentAreIds
  <2>5. r[victim] = None
    BY <1>1, <2>1, <2>2, <2>4 DEF ClaimMaps
  <2>6. Present(r) \subseteq (Present(cl) \ {victim}) \cup {id}
    BY <1>1, <1>2, <2>5, PresentAreIds
  <2>7. QED
    BY <1>1, <2>3, <2>6, OneMoreFits
<1>6. QED
  BY <1>3, <1>4, <1>5

(* recordClaim reserves the id of a share that was taken up and has a key,   *)
(* or finds the map full; no claim that lasts gives way but to its own block. *)
LEMMA RecordClaimKeeps ==
  ASSUME TypeOK, NEW cl \in ClaimMaps, NEW id \in Ids, NEW s \in Session,
         NEW r \in RecordClaim(cl, id, s), Cardinality(Present(cl)) <= MaxTracking
  PROVE  /\ Cardinality(Present(r)) <= MaxTracking
         /\ s.unbound_since = None /\ s.owner # NoOwner =>
              \/ r[id] # None /\ r[id].owner = s.owner
              \/ Cardinality(Present(r)) >= MaxTracking
         /\ \A i \in Ids : cl[i] # None /\ ~Lapsed(cl[i]) =>
              \/ r[i] = cl[i]
              \/ i = id /\ r[i] # None /\ r[i].owner = s.owner
              \/ /\ cl[id] = None /\ r[id] # None /\ r[id].bucket = cl[i].bucket
                 /\ BlockSize(PruneClaims(cl), cl[i].bucket) >= 2
<1> DEFINE claim  == [owner |-> s.owner, at |-> now, bucket |-> Block[s.addr]]
           pruned == PruneClaims(cl)
<1>1. CASE s.unbound_since # None \/ s.owner = NoOwner
  BY <1>1 DEF RecordClaim
<1>2. CASE s.unbound_since = None /\ s.owner # NoOwner
  <2>1. r \in Inserted(pruned, id, claim)
    BY <1>2 DEF RecordClaim
  <2>2. claim \in Claim /\ claim # None /\ claim.owner = s.owner
    BY <1>2, BlockIsTotal, ConstantsAreApart DEF Claim, Session, Buckets, TypeOK
  <2>3. /\ pruned \in ClaimMaps
        /\ \A i \in Ids : pruned[i] \in {None, cl[i]}
        /\ \A i \in Ids : cl[i] # None /\ ~Lapsed(cl[i]) => pruned[i] = cl[i]
    BY PruneOnlyDrops DEF PruneClaims
  <2> HIDE DEF claim, pruned
  <2>4. Present(pruned) \in SUBSET Present(cl) /\ Present(cl) \in SUBSET Ids
    BY <2>3, PresentAreIds
  <2>5. /\ Cardinality(Present(cl)) \in Nat /\ Cardinality(Present(pruned)) \in Nat
        /\ Cardinality(Present(pruned)) <= Cardinality(Present(cl)) /\ MaxTracking \in Nat
    BY <2>4, PartsAreSmaller, Limits
  <2>6. Cardinality(Present(r)) <= MaxTracking
    BY <2>1, <2>2, <2>3, <2>5, InsertedFits
  <2>7. Cardinality(Present(pruned)) >= MaxTracking => pruned = cl
    <3>1. ASSUME NEW i \in Ids, cl[i] # None, pruned[i] = None
          PROVE  Cardinality(Present(pruned)) < MaxTracking
      <4>1. Present(pruned) \in SUBSET (Present(cl) \ {i}) /\ i \in Present(cl)
        BY <2>3, <2>4, <3>1, PresentAreIds
      <4>2. Cardinality(Present(cl) \ {i}) = Cardinality(Present(cl)) - 1
        BY <2>4, <4>1, OneLess
      <4>3. Cardinality(Present(pruned)) <= Cardinality(Present(cl) \ {i})
        BY <2>4, <4>1, PartsAreSmaller
      <4>4. QED
        BY <2>5, <4>2, <4>3
    <3>2. Cardinality(Present(pruned)) >= MaxTracking => \A i \in Ids : pruned[i] = cl[i]
      BY <2>3, <2>5, <3>1
    <3>3. QED
      BY <2>3, <3>2 DEF ClaimMaps
  <2>8. \/ r[id] = claim
        \/ r = pruned /\ Cardinality(Present(pruned)) >= MaxTracking
    BY <2>1, <2>2, <2>3, InsertedKeeps
  <2>9. ASSUME NEW i \in Ids, cl[i] # None, ~Lapsed(cl[i])
        PROVE  \/ r[i] = cl[i]
               \/ i = id /\ r[i] # None /\ r[i].owner = s.owner
               \/ /\ cl[id] = None /\ r[id] # None /\ r[id].bucket = cl[i].bucket
                  /\ BlockSize(pruned, cl[i].bucket) >= 2
    <3>1. pruned[i] = cl[i]
      BY <2>3, <2>9
    <3>2. CASE i = id
      BY <2>2, <2>8, <3>1, <3>2
    <3>3. CASE i # id
      <4>1. \/ r[i] = pruned[i]
            \/ /\ pruned[id] = None /\ Cardinality(Present(pruned)) >= MaxTracking
               /\ r[id] = claim /\ pruned[i].bucket = claim.bucket
               /\ BlockSize(pruned, claim.bucket) >= 2
        BY <2>1, <2>2, <2>3, <2>9, <3>1, <3>3, InsertedKeeps
      <4>2. QED
        BY <2>2, <2>7, <3>1, <4>1
    <3>4. QED
      BY <3>2, <3>3
  <2>10. QED
    BY <2>2, <2>6, <2>8, <2>9 DEF pruned
<1>3. QED
  BY <1>1, <1>2

(* A lapsed claim that liveClaim drops is the only one it drops. *)
LEMMA ClaimsSeenKeeps ==
  ASSUME TypeOK, NEW ss, NEW id \in Ids
  PROVE  LET cl == ClaimsSeen(ss, id) IN
         /\ cl \in ClaimMaps
         /\ \A i \in Ids : cl[i] \in {None, claims[i]}
         /\ \A i \in Ids : claims[i] # None /\ ~Lapsed(claims[i]) => cl[i] = claims[i]
         /\ PruneClaims(cl) = PruneClaims(claims)
         /\ Cardinality(Present(cl)) <= Cardinality(Present(claims))
<1> DEFINE cl == ClaimsSeen(ss, id)
<1>1. /\ cl \in ClaimMaps
      /\ \A i \in Ids : cl[i] \in {None, claims[i]}
      /\ \A i \in Ids : claims[i] # None /\ ~Lapsed(claims[i]) => cl[i] = claims[i]
      /\ \A i \in Ids : cl[i] # claims[i] => Lapsed(claims[i])
  BY DEF ClaimsSeen, WithoutLapsed, ClaimMaps, TypeOK
<1>2. PruneClaims(cl) = PruneClaims(claims)
  BY <1>1 DEF PruneClaims
<1>3. Present(cl) \in SUBSET Present(claims) /\ Present(claims) \in SUBSET Ids
  BY <1>1, PresentAreIds DEF TypeOK
<1>4. QED
  BY <1>1, <1>2, <1>3, PartsAreSmaller

(* The new record replaces its id's; with room there is no other change, and *)
(* without it one departed share ends and records its claim.                 *)
LEMMA AcceptedRecords ==
  ASSUME TypeOK,
         NEW id \in Ids, NEW key \in Owners \cup {NoOwner}, NEW addr \in Addrs,
         NEW presentsCode \in BOOLEAN, AcceptRegistration(id, key, addr, presentsCode)
  PROVE  LET ss == UntakenReaped(id)
             cl == ClaimsSeen(ss, id)
         IN /\ /\ sessions'[id] # None
               /\ sessions'[id].owner = key
               /\ sessions'[id].addr = addr
               /\ sessions'[id].unbound_since # None
            /\ \/ /\ ~Full(ss, id)
                  /\ claims' \in Superseding(cl, ss, id)
                  /\ \A i \in Ids \ {id} : sessions'[i] = ss[i]
               \/ /\ Full(ss, id)
                  /\ ss[id] = None
                  /\ \E gone \in LongestDeparted(ss) :
                       /\ gone \in Ids \ {id}
                       /\ ss[gone] = sessions[gone]
                       /\ sessions[gone] \in Session
                       /\ sessions'[gone] = None
                       /\ claims' \in RecordClaim(cl, gone, sessions[gone])
                       /\ \A i \in Ids \ {id, gone} : sessions'[i] = ss[i]
<1> DEFINE ss == UntakenReaped(id)
           cl == ClaimsSeen(ss, id)
<1>1. PICK room \in RoomMade(id) :
        /\ claims' \in Superseding(room[2], room[1], id)
        /\ sessions' = [room[1] EXCEPT ![id] =
                           NewSession(room[1], id, key, addr, Resumes(room[1], id, presentsCode))]
  BY DEF AcceptRegistration
<1> DEFINE new == NewSession(room[1], id, key, addr, Resumes(room[1], id, presentsCode))
<1>2. /\ ss \in SessionMaps
      /\ room[1] \in SessionMaps
      /\ \A i \in Ids : ss[i] \in {None, sessions[i]}
  BY UntakenReapedDropsUnbound, RoomMadeDropsDeparted
<1>3. Resumes(room[1], id, presentsCode) => room[1][id] # None
  BY DEF Resumes
<1>4. Resumes(room[1], id, presentsCode) \in BOOLEAN
  <2>1. room[1][id] # None => room[1][id].code \in BOOLEAN
    BY <1>2 DEF SessionMaps, Session
  <2>2. QED
    BY <2>1 DEF Resumes
<1>5. new \in Session
  BY <1>2, <1>3, <1>4, NewSessionIsTyped
<1>6. /\ sessions'[id] = new
      /\ \A i \in Ids \ {id} : sessions'[i] = room[1][i]
      /\ new # None
  BY <1>1, <1>2, <1>5, ConstantsAreApart DEF SessionMaps
<1>7. /\ new.owner = key /\ new.addr = addr /\ new.unbound_since = now /\ now # None
  BY ConstantsAreApart DEF NewSession, TypeOK
<1>8. CASE ~Full(ss, id)
  <2>1. room[1] = ss /\ room[2] = cl
    BY <1>8 DEF RoomMade
  <2>2. QED
    BY <1>1, <1>6, <1>7, <1>8, <2>1
<1>9. CASE Full(ss, id)
  <2>0. PICK gone \in LongestDeparted(ss) :
          \E a \in RecordClaim(cl, gone, ss[gone]) : room = <<[ss EXCEPT ![gone] = None], a>>
    BY <1>9 DEF RoomMade
  <2>1. room[1] = [ss EXCEPT ![gone] = None] /\ room[2] \in RecordClaim(cl, gone, ss[gone])
    BY <2>0
  <2>2. gone \in Ids /\ ss[gone] # None /\ ss[gone] \in Session /\ ss[gone] = sessions[gone]
    BY <1>2, <2>0 DEF LongestDeparted, Departed, Present, SessionMaps
  <2>3. ss[id] = None /\ gone # id
    BY <1>9, <2>2 DEF Full
  <2>4. /\ room[1][id] = None
        /\ room[1][gone] = None
        /\ \A i \in Ids \ {gone} : room[1][i] = ss[i]
    BY <1>2, <2>1, <2>2, <2>3 DEF SessionMaps
  <2>5. claims' = room[2]
    BY <1>1, <2>4 DEF Superseding
  <2>6. claims' \in RecordClaim(cl, gone, sessions[gone])
    BY <2>1, <2>2, <2>5
  <2>7. /\ sessions'[gone] = None
        /\ \A i \in Ids \ {id, gone} : sessions'[i] = ss[i]
    BY <1>6, <2>2, <2>3, <2>4
  <2>8. QED
    BY <1>6, <1>7, <1>9, <2>0, <2>2, <2>3, <2>6, <2>7
<1>10. QED
  BY <1>8, <1>9

(* Which share's claim a granted registration records, if any: the one it    *)
(* supersedes or the one it evicts.                                          *)
LEMMA AcceptedClaims ==
  ASSUME TypeOK,
         NEW id \in Ids, NEW key \in Owners \cup {NoOwner}, NEW addr \in Addrs,
         NEW presentsCode \in BOOLEAN, AcceptRegistration(id, key, addr, presentsCode)
  PROVE  LET cl == ClaimsSeen(UntakenReaped(id), id) IN
         \/ /\ claims' = cl
            /\ ~Bound(id)
            /\ \A i \in Ids \ {id} : Bound(i) => sessions'[i] = sessions[i]
         \/ \E j \in Ids :
              /\ sessions[j] \in Session
              /\ claims' \in RecordClaim(cl, j, sessions[j])
              /\ cl[j] = claims[j]
              /\ j = id \/ ~Bound(id)
              /\ \A i \in Ids \ {id, j} : Bound(i) => sessions'[i] = sessions[i]
<1> DEFINE ss == UntakenReaped(id)
           cl == ClaimsSeen(ss, id)
<1>1. /\ ss \in SessionMaps
      /\ \A i \in Ids : ss[i] \in {None, sessions[i]}
      /\ \A i \in Ids : Bound(i) => ss[i] = sessions[i]
  BY UntakenReapedDropsUnbound
<1>2. ss[id] = None => ~Bound(id)
  BY <1>1 DEF Bound
<1> HIDE DEF ss, cl
<1>3. CASE /\ ~Full(ss, id)
           /\ claims' \in Superseding(cl, ss, id)
           /\ \A i \in Ids \ {id} : sessions'[i] = ss[i]
  <2>1. CASE ss[id] = None
    <3>1. claims' = cl
      BY <1>3, <2>1 DEF Superseding
    <3>2. QED
      BY <1>1, <1>2, <1>3, <2>1, <3>1 DEF ss, cl
  <2>2. CASE ss[id] # None
    <3>1. claims' \in RecordClaim(cl, id, sessions[id]) /\ sessions[id] \in Session
      BY <1>1, <1>3, <2>2 DEF Superseding, SessionMaps
    <3>2. cl[id] = claims[id]
      BY <2>2 DEF cl, ClaimsSeen
    <3>3. QED
      BY <1>1, <1>3, <3>1, <3>2 DEF ss, cl
  <2>3. QED
    BY <2>1, <2>2
<1>4. CASE /\ ss[id] = None
           /\ \E gone \in LongestDeparted(ss) :
                /\ gone \in Ids \ {id}
                /\ sessions[gone] \in Session
                /\ claims' \in RecordClaim(cl, gone, sessions[gone])
                /\ \A i \in Ids \ {id, gone} : sessions'[i] = ss[i]
  <2>1. \A j \in Ids \ {id} : cl[j] = claims[j]
    BY DEF cl, ClaimsSeen, WithoutLapsed, TypeOK
  <2>2. QED
    BY <1>1, <1>2, <1>4, <2>1 DEF ss, cl
<1>5. QED
  BY <1>3, <1>4, AcceptedRecords DEF ss, cl

(* A registration that gets through stays within its address's hourly count. *)
LEMMA CommittedFits ==
  ASSUME TypeOK, WithinLimits, NEW id \in Ids, NEW addr \in Addrs, NEW ss,
         ~RateLimited(ss, addr),
         NEW r \in Committed(CountersAfterReap(id), addr),
         NEW a \in Addrs, r[a] # None
  PROVE  r[a].count <= PerWindow
<1> DEFINE regs   == CountersAfterReap(id)
           pruned == PruneRegistrations(regs)
           first  == [count |-> 1, windowStart |-> now]
<1>1. PerWindow \in Nat \ {0}
  BY LimitsAreNaturals
<1>2. /\ pruned \in CounterMaps
      /\ \A b \in Addrs : pruned[b] # None => pruned[b] = registrations[b] /\ InWindow(registrations[b])
  BY DEF CountersAfterReap, PruneRegistrations, CounterMaps, TypeOK
<1>3. \A b \in Addrs : pruned[b] # None => pruned[b].count <= PerWindow
  BY <1>2 DEF WithinLimits
<1> HIDE DEF pruned, regs
<1>4. CASE pruned[addr] # None
  <2>1. r = [pruned EXCEPT ![addr].count = @ + 1]
    BY <1>4 DEF Committed, pruned, regs
  <2>2. pruned[addr] \in Counter /\ ~(pruned[addr].count >= PerWindow)
    BY <1>2, <1>4 DEF RateLimited, CounterMaps
  <2>3. pruned[addr].count \in Nat /\ pruned[addr].count + 1 <= PerWindow
    BY <1>1, <2>2 DEF Counter
  <2>4. r[addr].count = pruned[addr].count + 1
    BY <1>2, <2>1, <2>2 DEF CounterMaps, Counter
  <2>5. a # addr => r[a] = pruned[a]
    BY <1>2, <2>1 DEF CounterMaps
  <2>6. QED
    BY <1>3, <2>3, <2>4, <2>5
<1>5. CASE pruned[addr] = None
  <2>1. r = [pruned EXCEPT ![addr] = first] \/ \E b : r = [pruned EXCEPT ![b] = None, ![addr] = first]
    BY <1>5 DEF Committed, pruned, regs
  <2>2. r[a] \in {None, pruned[a], first}
    BY <1>2, <2>1 DEF CounterMaps
  <2>3. first.count = 1
    OBVIOUS
  <2>4. QED
    BY <1>1, <1>3, <2>2, <2>3
<1>6. QED
  BY <1>4, <1>5

(* Where no session is added and none changes its address, the caps on       *)
(* sessions go on holding.                                                   *)
LEMMA FewerSharesFit ==
  ASSUME WithinLimits, sessions \in SessionMaps, sessions' \in SessionMaps,
         \A i \in Ids : sessions'[i] # None =>
           sessions[i] # None /\ sessions'[i].addr \in {sessions[i].addr, NoAddr}
  PROVE  /\ Cardinality(Live') <= MaxSessions
         /\ \A a \in Addrs : Cardinality(ActiveFrom(sessions', a)) <= MaxActive
<1>0. {MaxSessions, MaxActive} \subseteq Nat
  BY LimitsAreNaturals
<1>1. Live' \in SUBSET Live /\ Live \in SUBSET Ids
  BY DEF Live, Present
<1>2. \A a \in Addrs : /\ ActiveFrom(sessions', a) \in SUBSET ActiveFrom(sessions, a)
                       /\ ActiveFrom(sessions, a) \in SUBSET Ids
  BY ConstantsAreApart DEF ActiveFrom, Present
<1>3. QED
  BY <1>0, <1>1, <1>2, PartsAreSmaller DEF WithinLimits

(* A granted registration keeps the caps on sessions. *)
LEMMA AcceptedFits ==
  ASSUME IInv, WithinLimits, sessions' \in SessionMaps,
         NEW id \in Ids, NEW key \in Owners \cup {NoOwner}, NEW addr \in Addrs,
         NEW presentsCode \in BOOLEAN, AcceptRegistration(id, key, addr, presentsCode)
  PROVE  /\ Cardinality(Live') <= MaxSessions
         /\ \A a \in Addrs : Cardinality(ActiveFrom(sessions', a)) <= MaxActive
<1> DEFINE ss == UntakenReaped(id)
<1>0. TypeOK
  BY DEF IInv
<1>1. /\ ss \in SessionMaps
      /\ \A i \in Ids : ss[i] \in {None, sessions[i]}
  BY <1>0, UntakenReapedDropsUnbound
<1>2. ~RateLimited(ss, addr)
  BY DEF AcceptRegistration, Allowed
<1> HIDE DEF ss
<1>3. /\ sessions'[id].addr = addr
      /\ \/ ~Full(ss, id) /\ \A i \in Ids \ {id} : sessions'[i] = ss[i]
         \/ /\ Full(ss, id)
            /\ \E gone \in Ids \ {id} :
                 /\ ss[gone] = sessions[gone] /\ sessions[gone] \in Session
                 /\ sessions'[gone] = None
                 /\ \A i \in Ids \ {id, gone} : sessions'[i] = ss[i]
  BY <1>0, AcceptedRecords DEF ss
<1>4. {MaxSessions, MaxActive} \subseteq Nat
  BY LimitsAreNaturals
<1>5. /\ Present(ss) \in SUBSET Present(sessions)
      /\ Present(sessions) \in SUBSET Ids
      /\ Present(sessions') \in SUBSET (Present(ss) \cup {id})
      /\ \A i \in Ids : i \in Present(ss) <=> ss[i] # None
      /\ \A i \in Ids : i \in Present(sessions') <=> sessions'[i] # None
  BY <1>0, <1>1, <1>3 DEF Present, TypeOK
<1>6. /\ Cardinality(Present(ss)) <= MaxSessions
      /\ Cardinality(Present(ss)) \in Nat
  BY <1>4, <1>5, PartsAreSmaller DEF WithinLimits, Live
<1>7. Cardinality(Present(sessions')) <= MaxSessions
  <2>1. CASE ~Full(ss, id) /\ ss[id] # None
    <3>1. Present(sessions') \in SUBSET Present(ss)
      BY <1>5, <2>1
    <3>2. QED
      BY <1>4, <1>5, <1>6, <3>1, PartsAreSmaller
  <2>2. CASE ~Full(ss, id) /\ ss[id] = None
    <3>1. Cardinality(Present(ss)) < MaxSessions
      BY <1>4, <1>6, <2>2 DEF Full
    <3>2. QED
      BY <1>4, <1>5, <3>1, OneMoreFits
  <2>3. CASE Full(ss, id)
    <3>1. PICK gone \in Ids \ {id} :
            /\ ss[gone] = sessions[gone] /\ sessions[gone] \in Session
            /\ sessions'[gone] = None
      BY <1>3, <2>3
    <3>2. gone \in Present(ss) /\ gone \notin Present(sessions')
      BY <1>5, <3>1, ConstantsAreApart
    <3>3. Cardinality(Present(ss) \ {gone}) < MaxSessions
      BY <1>4, <1>5, <1>6, <3>2, OneLess
    <3>4. Present(sessions') \in SUBSET ((Present(ss) \ {gone}) \cup {id})
      BY <1>5, <3>2
    <3>5. QED
      BY <1>4, <1>5, <3>3, <3>4, OneMoreFits
  <2>4. QED
    BY <2>1, <2>2, <2>3
<1>8. ASSUME NEW a \in Addrs
      PROVE  Cardinality(ActiveFrom(sessions', a)) <= MaxActive
  <2>1. /\ ActiveFrom(ss, a) \in SUBSET ActiveFrom(sessions, a)
        /\ ActiveFrom(sessions, a) \in SUBSET Ids
        /\ ActiveFrom(sessions', a) \in SUBSET (ActiveFrom(ss, a) \cup (IF a = addr THEN {id} ELSE {}))
    BY <1>1, <1>3, <1>5 DEF ActiveFrom, Present
  <2>2. Cardinality(ActiveFrom(ss, a)) <= MaxActive /\ Cardinality(ActiveFrom(ss, a)) \in Nat
    BY <1>4, <2>1, PartsAreSmaller DEF WithinLimits
  <2>3. CASE a = addr
    <3>1. Cardinality(ActiveFrom(ss, a)) < MaxActive
      BY <1>2, <1>4, <2>2, <2>3 DEF RateLimited
    <3>2. QED
      BY <1>4, <2>1, <2>3, <3>1, OneMoreFits
  <2>4. CASE a # addr
    BY <1>4, <2>1, <2>2, <2>4, PartsAreSmaller
  <2>5. QED
    BY <2>3, <2>4
<1>9. QED
  BY <1>7, <1>8 DEF Live

(* No step takes the relay beyond a cap. *)
LEMMA StepKeepsLimits == IInv /\ WithinLimits /\ [Next]_vars => WithinLimits'
<1> SUFFICES ASSUME IInv, WithinLimits, [Next]_vars PROVE WithinLimits'
  OBVIOUS
<1>1. IInv'
  BY StepPreserves
<1>2. sessions \in SessionMaps /\ sessions' \in SessionMaps /\ claims \in ClaimMaps /\ claims' \in ClaimMaps
  BY <1>1 DEF IInv, TypeOK
<1>3. PerWindow \in Nat /\ MaxTracking \in Nat
  BY LimitsAreNaturals
<1> DEFINE SharesFit   == /\ Cardinality(Live') <= MaxSessions
                          /\ \A a \in Addrs : Cardinality(ActiveFrom(sessions', a)) <= MaxActive
           CountersFit == \A a \in Addrs : registrations'[a] # None => registrations'[a].count <= PerWindow
           ClaimsFit   == Cardinality(Present(claims')) <= MaxTracking
<1>4. SharesFit /\ CountersFit /\ ClaimsFit => WithinLimits'
  BY DEF WithinLimits
<1>5. UNCHANGED registrations => CountersFit
  BY DEF WithinLimits
<1>6. UNCHANGED claims => ClaimsFit
  BY DEF WithinLimits
<1>7. ASSUME NEW id \in Ids, NEW key \in Owners \cup {NoOwner}, NEW addr \in Addrs,
             RefuseRegistration(id, key, addr)
      PROVE  WithinLimits'
  <2>1. /\ sessions' = UntakenReaped(id)
        /\ registrations' = CountersAfterReap(id)
        /\ claims' = claims \/ claims' = WithoutLapsed(claims, id)
    BY <1>7 DEF RefuseRegistration
  <2>2. SharesFit
    BY <1>2, <2>1, UntakenReapedDropsUnbound, FewerSharesFit DEF IInv
  <2>3. \A a \in Addrs : registrations'[a] \in {None, registrations[a]}
    BY <2>1 DEF CountersAfterReap, PruneRegistrations, IInv, TypeOK
  <2>4. CountersFit
    BY <2>3 DEF WithinLimits
  <2>5. Present(claims') \in SUBSET Present(claims) /\ Present(claims) \in SUBSET Ids
    BY <1>2, <2>1 DEF Present, WithoutLapsed
  <2>6. ClaimsFit
    BY <1>3, <2>5, PartsAreSmaller DEF WithinLimits
  <2>7. QED
    BY <1>4, <2>2, <2>4, <2>6
<1>8. ASSUME NEW id \in Ids, NEW key \in Owners \cup {NoOwner}, NEW addr \in Addrs,
             NEW presentsCode \in BOOLEAN, AcceptRegistration(id, key, addr, presentsCode)
      PROVE  WithinLimits'
  <2> DEFINE cl == ClaimsSeen(UntakenReaped(id), id)
  <2>0. TypeOK
    BY DEF IInv
  <2>1. SharesFit
    BY <1>2, <1>8, AcceptedFits
  <2>2. CountersFit
    <3>1. registrations' \in Committed(CountersAfterReap(id), addr) /\ ~RateLimited(UntakenReaped(id), addr)
      BY <1>8 DEF AcceptRegistration, Allowed
    <3>2. QED
      BY <2>0, <3>1, CommittedFits
  <2>3. cl \in ClaimMaps /\ Cardinality(Present(cl)) <= MaxTracking
    <3>1. cl \in ClaimMaps /\ Cardinality(Present(cl)) <= Cardinality(Present(claims))
      BY <2>0, ClaimsSeenKeeps
    <3>2. Cardinality(Present(cl)) \in Nat /\ Cardinality(Present(claims)) \in Nat
      BY <1>2, <3>1, PresentAreIds, PartsAreSmaller
    <3>3. QED
      BY <1>3, <3>1, <3>2 DEF WithinLimits
  <2>4. \/ claims' = cl
        \/ \E j \in Ids : sessions[j] \in Session /\ claims' \in RecordClaim(cl, j, sessions[j])
    BY <1>8, <2>0, AcceptedClaims
  <2> HIDE DEF cl
  <2>5. ClaimsFit
    BY <2>0, <2>3, <2>4, RecordClaimKeeps
  <2>6. QED
    BY <1>4, <2>1, <2>2, <2>5
<1>9. ASSUME NEW id \in Ids, Delete(id) \/ Reap(id) PROVE WithinLimits'
  <2>1. /\ sessions[id] # None
        /\ sessions' = [sessions EXCEPT ![id] = None]
        /\ claims' \in RecordClaim(claims, id, sessions[id])
        /\ registrations' \in {registrations, PruneRegistrations(registrations)}
    BY <1>9 DEF Delete, Reap, ExpiredIn, Present
  <2>2. SharesFit
    BY <1>2, <2>1, FewerSharesFit
  <2>3. CountersFit
    BY <2>1 DEF WithinLimits, PruneRegistrations
  <2>4. ClaimsFit
    BY <1>2, <2>1, RecordClaimKeeps DEF WithinLimits, IInv
  <2>5. QED
    BY <1>4, <2>2, <2>3, <2>4
<1>10. ASSUME NEW id \in Ids, NEW provenLife \in BOOLEAN, TouchSession(id, provenLife),
              UNCHANGED <<claims, registrations>>
       PROVE  WithinLimits'
  <2>1. \A i \in Ids : sessions'[i] # None =>
          sessions[i] # None /\ sessions'[i].addr = sessions[i].addr
    BY <1>2, <1>10 DEF TouchSession, Touched, Session
  <2>2. QED
    BY <1>2, <1>4, <1>5, <1>6, <1>10, <2>1, FewerSharesFit
<1>11. ASSUME NEW id \in Ids, ViewerJoins(id) PROVE WithinLimits'
  <2>1. \A i \in Ids : sessions'[i] # None =>
          sessions[i] # None /\ sessions'[i].addr = sessions[i].addr
    BY <1>2, <1>11 DEF ViewerJoins, Session
  <2>2. QED
    BY <1>2, <1>4, <1>5, <1>6, <1>11, <2>1, FewerSharesFit DEF ViewerJoins
<1>12. ASSUME NEW downtime \in 0..MaxNow, Restart(downtime) PROVE WithinLimits'
  <2>1. \A i \in Ids : sessions'[i] # None =>
          sessions[i] # None /\ sessions'[i].addr \in {sessions[i].addr, NoAddr}
    BY <1>2, <1>12 DEF Restart, RestoredFrom, Restored, Live, Present, Session
  <2>2. SharesFit
    BY <1>2, <2>1, FewerSharesFit
  <2>3. CountersFit
    BY <1>12 DEF Restart
  <2>4. Present(claims') = {}
    BY <1>12 DEF Restart, Present
  <2>5. ClaimsFit
    BY <1>3, <2>4, FS_EmptySet
  <2>6. QED
    BY <1>4, <2>2, <2>3, <2>5
<1>13. ASSUME NEW c \in toRestore, RestoreClaim(c) PROVE WithinLimits'
  <2> DEFINE claim == [owner |-> c.owner, at |-> c.at, bucket |-> c.bucket]
  <2>1. UNCHANGED <<sessions, registrations>> /\ (claims' = claims \/ claims' \in Inserted(claims, c.id, claim))
    BY <1>13 DEF RestoreClaim
  <2>2. c.id \in Ids /\ claim \in Claim
    BY DEF IInv, TypeOK, Restorable, Claim
  <2> HIDE DEF claim
  <2>3. ClaimsFit
    BY <1>2, <1>6, <2>1, <2>2, InsertedFits DEF WithinLimits
  <2>4. QED
    BY <1>4, <1>5, <2>1, <2>3 DEF WithinLimits, Live
<1>14. UNCHANGED <<sessions, claims, registrations>> => WithinLimits'
  BY DEF WithinLimits, Live
<1>15. QED
  BY <1>7, <1>8, <1>9, <1>10, <1>11, <1>12, <1>13, <1>14, RegistrationIsRefusedOrGranted
     DEF Next, Connect, BridgeAlive, ClosingSocketAlive, LinkDrops, ClosingEnds, Tick, vars

(* What restore() still has in hand: claims that have not lapsed, of one     *)
(* owner for each id, and of the owner of the claim the id already has; and  *)
(* no claim lapses while it runs.                                            *)
Restoring ==
  /\ \A c \in toRestore : /\ now - c.at <= ClaimTtl
                          /\ claims[c.id] # None => claims[c.id].owner = c.owner
  /\ \A c, d \in toRestore : c.id = d.id => c.owner = d.owner
  /\ toRestore # {} => \A id \in Ids : claims[id] # None => ~Lapsed(claims[id])

LEMMA StepKeepsRestoring == IInv /\ Restoring /\ [Next]_vars => Restoring'
<1> SUFFICES ASSUME IInv, Restoring, [Next]_vars PROVE Restoring'
  OBVIOUS
<1>1. CASE toRestore' = {}
  BY <1>1 DEF Restoring
<1>2. ASSUME NEW downtime \in 0..MaxNow, Restart(downtime) PROVE Restoring'
  <2> DEFINE t == now + downtime
  <2>1. now' = t /\ toRestore' = FileClaims(t) \cup IdleClaims(t) /\ \A id \in Ids : claims'[id] = None
    BY <1>2 DEF Restart
  <2>2. ASSUME NEW c \in FileClaims(t)
        PROVE  c.id \in Ids /\ t - c.at <= ClaimTtl /\ claims[c.id] # None /\ c.owner = claims[c.id].owner
    BY <2>2 DEF FileClaims, Present, IInv, TypeOK
  <2>3. ASSUME NEW c \in IdleClaims(t)
        PROVE  c.id \in Ids /\ t - c.at <= ClaimTtl /\ sessions[c.id] # None /\ c.owner = sessions[c.id].owner
    BY <2>3 DEF IdleClaims, Live, Present, IInv, TypeOK
  <2>4. \A c \in toRestore' : c.id \in Ids /\ now' - c.at <= ClaimTtl
    BY <2>1, <2>2, <2>3
  <2>5. \A c, d \in toRestore' : c.id = d.id => c.owner = d.owner
    BY <2>1, <2>2, <2>3 DEF IInv, HolderMatchesClaim
  <2>6. QED
    BY <2>1, <2>4, <2>5 DEF Restoring
<1>3. ASSUME NEW c \in toRestore, RestoreClaim(c) PROVE Restoring'
  <2> DEFINE claim == [owner |-> c.owner, at |-> c.at, bucket |-> c.bucket]
  <2>1. /\ toRestore' = toRestore \ {c} /\ now' = now
        /\ \/ claims' = claims
           \/ claims[c.id] = None /\ claims' \in Inserted(claims, c.id, claim)
    BY <1>3 DEF RestoreClaim
  <2>2. c.id \in Ids /\ claim \in Claim /\ claims \in ClaimMaps
    BY DEF IInv, TypeOK, Restorable, Claim
  <2>3. claim.owner = c.owner /\ claim.at = c.at
    OBVIOUS
  <2> HIDE DEF claim
  <2>4. \A i \in Ids : claims'[i] # None => claims'[i] = claims[i] \/ (i = c.id /\ claims'[i] = claim)
    BY <2>1, <2>2, InsertedAddsOne
  <2>5. \A d \in toRestore : d.id \in Ids
    BY DEF IInv, TypeOK, Restorable
  <2>6. \A d \in toRestore' : /\ now' - d.at <= ClaimTtl
                              /\ claims'[d.id] # None => claims'[d.id].owner = d.owner
    BY <2>1, <2>3, <2>4, <2>5 DEF Restoring
  <2>7. \A d, e \in toRestore' : d.id = e.id => d.owner = e.owner
    BY <2>1 DEF Restoring
  <2>8. now - c.at <= ClaimTtl /\ \A i \in Ids : claims[i] # None => now - claims[i].at <= ClaimTtl
    <3>1. \A i \in Ids : claims[i] # None => claims[i].at \in Nat
      BY <2>2 DEF Claim
    <3>2. QED
      BY <3>1, Limits DEF Restoring, Lapsed, IInv, TypeOK
  <2>9. \A i \in Ids : claims'[i] # None => ~(now' - claims'[i].at > ClaimTtl)
    <3>1. c.at \in Nat /\ \A i \in Ids : claims[i] # None => claims[i].at \in Nat
      BY <2>2 DEF Claim, IInv, TypeOK, Restorable
    <3>2. QED
      BY <2>1, <2>3, <2>4, <2>8, <3>1, Limits DEF IInv, TypeOK
  <2>10. QED
    BY <2>6, <2>7, <2>9 DEF Restoring, Lapsed
<1>4. CASE UNCHANGED vars
  BY <1>4 DEF vars, Restoring, Lapsed
<1>5. QED
  BY <1>1, <1>2, <1>3, <1>4, RegistrationIsRefusedOrGranted
     DEF Next, RefuseRegistration, AcceptRegistration, Delete, Connect, BridgeAlive,
         ClosingSocketAlive, LinkDrops, ClosingEnds, ViewerJoins, Reap, Tick, Idle

---------------------------------------------------------------------------
(* What a step may do *)

(* The live registration of an id that is held is one of its holders'. *)
LEMMA HolderHolds ==
  ASSUME IInv, NEW id \in Ids, sessions[id] # None, HeldBy(id) # {}
  PROVE  sessions[id].owner \in HeldBy(id)
BY DEF IInv, HeldBy, KeptFor, HolderMatchesClaim, RestorableMatchesHolder

(* A granted registration has the key its id was kept for. *)
LEMMA GrantedToAHolder ==
  ASSUME IInv, NEW id \in Ids, NEW key \in Owners \cup {NoOwner}, NEW addr \in Addrs,
         Idle, Allowed(id, key, addr), HeldBy(id) # {}
  PROVE  key \in HeldBy(id)
<1> DEFINE ss == UntakenReaped(id)
<1>1. ss[id] \in {None, sessions[id]} /\ (Bound(id) => ss[id] # None)
  BY UntakenReapedDropsUnbound DEF IInv, Bound
<1>2. CASE ss[id] # None
  <2>1. sessions[id] # None /\ sessions[id].owner = key
    BY <1>1, <1>2 DEF Allowed, OwnerKeyMatches
  <2>2. QED
    BY <2>1, HolderHolds
<1>3. CASE ss[id] = None
  <2>1. HeldBy(id) = KeptFor(id) /\ toRestore = {}
    BY <1>1, <1>3 DEF HeldBy, Idle
  <2>2. claims[id] # None /\ ~Lapsed(claims[id]) /\ HeldBy(id) = {claims[id].owner}
    BY <2>1 DEF KeptFor
  <2>3. ~ReservedAgainst(claims, id, key)
    BY <1>3 DEF Allowed
  <2>4. QED
    BY <2>2, <2>3 DEF ReservedAgainst, OwnerKeyMatches
<1>4. QED
  BY <1>2, <1>3

(* Every step but a granted registration leaves an id's record with the      *)
(* owner it has, or without a record.                                        *)
LEMMA OwnersStay ==
  ASSUME IInv, Next,
         NEW i \in Ids, sessions'[i] # None,
         ~(sessions[i] # None /\ sessions'[i].owner = sessions[i].owner)
  PROVE  \E key \in Owners \cup {NoOwner}, addr \in Addrs, presentsCode \in BOOLEAN :
           AcceptRegistration(i, key, addr, presentsCode)
<1> DEFINE Kept == sessions[i] # None /\ sessions'[i].owner = sessions[i].owner
<1>0. TypeOK /\ sessions \in SessionMaps
  BY DEF IInv, TypeOK
<1>1. ASSUME NEW id \in Ids, NEW key \in Owners \cup {NoOwner}, NEW addr \in Addrs,
             RefuseRegistration(id, key, addr)
      PROVE  Kept
  BY <1>0, <1>1, UntakenReapedDropsUnbound DEF RefuseRegistration
<1>2. ASSUME NEW id \in Ids, NEW key \in Owners \cup {NoOwner}, NEW addr \in Addrs,
             NEW presentsCode \in BOOLEAN, AcceptRegistration(id, key, addr, presentsCode), i # id
      PROVE  Kept
  <2>1. PICK room \in RoomMade(id) : \E new : sessions' = [room[1] EXCEPT ![id] = new]
    BY <1>2 DEF AcceptRegistration
  <2>2. room[1] \in SessionMaps /\ room[1][i] \in {None, sessions[i]}
    BY <1>0, RoomMadeDropsDeparted
  <2>3. QED
    BY <1>2, <2>1, <2>2
<1>3. ASSUME NEW id \in Ids, Delete(id) \/ Reap(id) PROVE Kept
  BY <1>0, <1>3 DEF Delete, Reap
<1>4. ASSUME NEW id \in Ids, NEW provenLife \in BOOLEAN, TouchSession(id, provenLife) PROVE Kept
  BY <1>4, TouchedStore
<1>5. ASSUME NEW id \in Ids, ViewerJoins(id) PROVE Kept
  BY <1>0, <1>5 DEF ViewerJoins, Session
<1>6. ASSUME NEW downtime \in 0..MaxNow, Restart(downtime) PROVE Kept
  BY <1>0, <1>6 DEF Restart, RestoredFrom, Restored, Live, Present, Session
<1>7. UNCHANGED sessions => Kept
  OBVIOUS
<1>8. QED
  BY <1>1, <1>2, <1>3, <1>4, <1>5, <1>6, <1>7, RegistrationIsRefusedOrGranted
     DEF Next, Connect, BridgeAlive, ClosingSocketAlive, LinkDrops, ClosingEnds,
         RestoreClaim, Tick

(* A share that ends in a step was ended by a registration, a stop, the      *)
(* reaper or a restart, and its claim is recorded or in hand.                *)
LEMMA EndIsRecorded ==
  ASSUME IInv, WithinLimits, Next, NEW i \in Ids, ShareEnds(i), sessions[i].owner # NoOwner
  PROVE  \/ Recorded(i, sessions[i].owner)
         \/ Cardinality(Present(claims')) >= MaxTracking
         \/ now' - sessions[i].last_seen > ClaimTtl
<1> DEFINE Kept == \/ Recorded(i, sessions[i].owner)
                   \/ Cardinality(Present(claims')) >= MaxTracking
                   \/ now' - sessions[i].last_seen > ClaimTtl
<1>0. TypeOK /\ sessions \in SessionMaps /\ sessions[i] \in Session /\ claims \in ClaimMaps
  BY ConstantsAreApart DEF IInv, TypeOK, ShareEnds, Bound
<1>1. Bound(i) /\ ~Bound(i)' /\ sessions[i].unbound_since = None /\ sessions[i] # None
  BY DEF ShareEnds, Bound
<1>2. ASSUME NEW id \in Ids, NEW key \in Owners \cup {NoOwner}, NEW addr \in Addrs,
             RefuseRegistration(id, key, addr)
      PROVE  FALSE
  BY <1>0, <1>1, <1>2, UntakenReapedDropsUnbound DEF RefuseRegistration, Bound
<1>3. ASSUME NEW id \in Ids, NEW key \in Owners \cup {NoOwner}, NEW addr \in Addrs,
             NEW presentsCode \in BOOLEAN, AcceptRegistration(id, key, addr, presentsCode)
      PROVE  Kept
  <2> DEFINE cl == ClaimsSeen(UntakenReaped(id), id)
  <2>1. cl \in ClaimMaps /\ Cardinality(Present(cl)) <= Cardinality(Present(claims))
    BY <1>0, ClaimsSeenKeeps
  <2>2. Cardinality(Present(cl)) <= MaxTracking
    <3>1. /\ Cardinality(Present(cl)) \in Nat /\ Cardinality(Present(claims)) \in Nat
          /\ MaxTracking \in Nat
      BY <1>0, <2>1, PresentAreIds, PartsAreSmaller, Limits
    <3>2. QED
      BY <2>1, <3>1 DEF WithinLimits
  <2>3. PICK j \in Ids : /\ sessions[j] \in Session
                         /\ claims' \in RecordClaim(cl, j, sessions[j])
                         /\ j = id \/ ~Bound(id)
                         /\ \A k \in Ids \ {id, j} : Bound(k) => sessions'[k] = sessions[k]
    BY <1>0, <1>1, <1>3, AcceptedClaims DEF Bound
  <2>4. i = j
    BY <1>1, <2>3 DEF Bound
  <2> HIDE DEF cl
  <2>5. QED
    BY <1>0, <1>1, <2>1, <2>2, <2>3, <2>4, RecordClaimKeeps DEF Recorded
<1>4. ASSUME NEW id \in Ids, Delete(id) \/ Reap(id) PROVE Kept
  <2>1. sessions' = [sessions EXCEPT ![id] = None] /\ claims' \in RecordClaim(claims, id, sessions[id])
    BY <1>4 DEF Delete, Reap
  <2>2. i = id
    BY <1>0, <1>1, <2>1 DEF Bound
  <2>3. QED
    BY <1>0, <1>1, <2>1, <2>2, RecordClaimKeeps DEF Recorded, WithinLimits
<1>5. ASSUME NEW id \in Ids, NEW provenLife \in BOOLEAN, TouchSession(id, provenLife) PROVE FALSE
  BY <1>1, <1>5, TouchedStore
<1>6. ASSUME NEW id \in Ids, ViewerJoins(id) PROVE FALSE
  <2>1. [sessions[id] EXCEPT !.last_seen = now] \in Session
    BY <1>0, <1>6 DEF ViewerJoins, Session, TypeOK
  <2>2. QED
    BY <1>0, <1>1, <1>6, <2>1, ConstantsAreApart DEF ViewerJoins, Bound, Session
<1>7. ASSUME NEW downtime \in 0..MaxNow, Restart(downtime) PROVE Kept
  <2> DEFINE t == now + downtime
             r == [id |-> i, owner |-> sessions[i].owner, at |-> sessions[i].last_seen,
                   bucket |-> IF Encrypted /\ sessions[i].addr # NoAddr
                              THEN Block[sessions[i].addr]
                              ELSE RestoredBucket(i)]
  <2>1. /\ now' = t /\ toRestore' = FileClaims(t) \cup IdleClaims(t)
        /\ sessions' = [id \in Ids |-> IF id \in RestoredFrom(t) THEN Restored(sessions[id], t) ELSE None]
    BY <1>7 DEF Restart
  <2>2. t \in Nat
    BY <1>0, Limits DEF TypeOK
  <2>3. i \notin RestoredFrom(t)
    <3>1. i \in RestoredFrom(t) => Restored(sessions[i], t) \in Session
                                   /\ Restored(sessions[i], t).unbound_since = None
      BY <1>0, <1>1, <2>2 DEF Restored, Session
    <3>2. QED
      BY <1>1, <2>1, <3>1, ConstantsAreApart DEF Bound
  <2>4. i \in Live
    BY <1>0, <1>1 DEF Live, Present
  <2>5. CASE t - sessions[i].last_seen <= ClaimTtl
    <3>1. r \in IdleClaims(t)
      BY <1>1, <2>3, <2>4, <2>5 DEF IdleClaims
    <3>2. r.id = i /\ r.owner = sessions[i].owner
      OBVIOUS
    <3>3. QED
      BY <2>1, <3>1, <3>2 DEF Recorded
  <2>6. CASE ~(t - sessions[i].last_seen <= ClaimTtl)
    BY <1>0, <2>1, <2>2, <2>6, Limits DEF Session
  <2>7. QED
    BY <2>5, <2>6
<1>8. UNCHANGED sessions => FALSE
  BY <1>1 DEF Bound
<1>9. QED
  BY <1>2, <1>3, <1>4, <1>5, <1>6, <1>7, <1>8, RegistrationIsRefusedOrGranted
     DEF Next, Connect, BridgeAlive, ClosingSocketAlive, LinkDrops, ClosingEnds,
         RestoreClaim, Tick

(* A claim that has not lapsed goes only to another claim of its own block. *)
LEMMA ClaimsLast ==
  ASSUME IInv, WithinLimits, Restoring, Next, NEW i \in Ids,
         claims[i] # None, now' - claims[i].at <= ClaimTtl
  PROVE  \/ Recorded(i, claims[i].owner)
         \/ /\ OwnBlockInserted(claims[i].bucket)
            /\ BlockSize(PruneClaims(claims), claims[i].bucket) >= 2
<1> DEFINE Kept == \/ Recorded(i, claims[i].owner)
                   \/ /\ OwnBlockInserted(claims[i].bucket)
                      /\ BlockSize(PruneClaims(claims), claims[i].bucket) >= 2
<1>0. TypeOK /\ sessions \in SessionMaps /\ claims \in ClaimMaps /\ claims[i] \in Claim
  BY DEF IInv, TypeOK
<1>1. UNCHANGED now => ~Lapsed(claims[i])
  BY <1>0, Limits DEF Lapsed, Claim, TypeOK
<1>2. UNCHANGED claims => Kept
  BY DEF Recorded
<1>3. ASSUME NEW cl \in ClaimMaps, NEW j \in Ids, sessions[j] # None,
             claims' \in RecordClaim(cl, j, sessions[j]),
             Cardinality(Present(cl)) <= MaxTracking,
             PruneClaims(cl) = PruneClaims(claims),
             cl[i] = claims[i], cl[j] = claims[j], ~Lapsed(claims[i])
      PROVE  Kept
  <2>1. sessions[j] \in Session
    BY <1>0, <1>3
  <2>2. \/ claims'[i] = cl[i]
        \/ i = j /\ claims'[i] # None /\ claims'[i].owner = sessions[j].owner
        \/ /\ cl[j] = None /\ claims'[j] # None /\ claims'[j].bucket = cl[i].bucket
           /\ BlockSize(PruneClaims(cl), cl[i].bucket) >= 2
    BY <1>0, <1>3, <2>1, RecordClaimKeeps
  <2>3. i = j => claims[i].owner = sessions[j].owner
    BY <1>3 DEF IInv, HolderMatchesClaim
  <2>4. QED
    BY <1>3, <2>2, <2>3 DEF Recorded, OwnBlockInserted
<1>4. ASSUME NEW id \in Ids, NEW key \in Owners \cup {NoOwner}, NEW addr \in Addrs,
             RefuseRegistration(id, key, addr)
      PROVE  Kept
  <2>1. claims' = claims \/ claims' = WithoutLapsed(claims, id)
    BY <1>4 DEF RefuseRegistration
  <2>2. claims'[i] = claims[i]
    BY <1>0, <1>1, <1>4, <2>1 DEF WithoutLapsed, RefuseRegistration
  <2>3. QED
    BY <2>2 DEF Recorded
<1>5. ASSUME NEW id \in Ids, NEW key \in Owners \cup {NoOwner}, NEW addr \in Addrs,
             NEW presentsCode \in BOOLEAN, AcceptRegistration(id, key, addr, presentsCode)
      PROVE  Kept
  <2> DEFINE cl == ClaimsSeen(UntakenReaped(id), id)
  <2>0. ~Lapsed(claims[i])
    BY <1>1, <1>5 DEF AcceptRegistration
  <2>1. /\ cl \in ClaimMaps /\ cl[i] = claims[i]
        /\ PruneClaims(cl) = PruneClaims(claims)
        /\ Cardinality(Present(cl)) <= Cardinality(Present(claims))
    BY <1>0, <2>0, ClaimsSeenKeeps
  <2>2. Cardinality(Present(cl)) <= MaxTracking
    <3>1. /\ Cardinality(Present(cl)) \in Nat /\ Cardinality(Present(claims)) \in Nat
          /\ MaxTracking \in Nat
      BY <1>0, <2>1, PresentAreIds, PartsAreSmaller, Limits
    <3>2. QED
      BY <2>1, <3>1 DEF WithinLimits
  <2>3. \/ claims' = cl
        \/ \E j \in Ids : /\ sessions[j] \in Session
                          /\ claims' \in RecordClaim(cl, j, sessions[j])
                          /\ cl[j] = claims[j]
    BY <1>0, <1>5, AcceptedClaims
  <2> HIDE DEF cl
  <2>4. CASE claims' = cl
    BY <2>1, <2>4 DEF Recorded
  <2>5. CASE claims' # cl
    <3>1. PICK j \in Ids : /\ sessions[j] # None
                           /\ claims' \in RecordClaim(cl, j, sessions[j])
                           /\ cl[j] = claims[j]
      BY <2>3, <2>5, ConstantsAreApart
    <3>2. QED
      BY <1>3, <2>0, <2>1, <2>2, <3>1
  <2>6. QED
    BY <2>4, <2>5
<1>6. ASSUME NEW id \in Ids, Delete(id) \/ Reap(id) PROVE Kept
  <2>1. sessions[id] # None /\ claims' \in RecordClaim(claims, id, sessions[id]) /\ now' = now
    BY <1>6 DEF Delete, Reap, ExpiredIn, Present
  <2>2. QED
    BY <1>0, <1>1, <1>3, <2>1 DEF WithinLimits
<1>7. ASSUME NEW downtime \in 0..MaxNow, Restart(downtime) PROVE Kept
  <2> DEFINE t == now + downtime
             r == [id |-> i, owner |-> claims[i].owner, at |-> claims[i].at,
                   bucket |-> IF Encrypted THEN claims[i].bucket ELSE RestoredBucket(i)]
  <2>1. now' = t /\ toRestore' = FileClaims(t) \cup IdleClaims(t)
    BY <1>7 DEF Restart
  <2>2. r \in FileClaims(t)
    BY <1>0, <2>1 DEF FileClaims, Present
  <2>3. r.id = i /\ r.owner = claims[i].owner
    OBVIOUS
  <2>4. QED
    BY <2>1, <2>2, <2>3 DEF Recorded
<1>8. ASSUME NEW c \in toRestore, RestoreClaim(c) PROVE Kept
  <2> DEFINE claim == [owner |-> c.owner, at |-> c.at, bucket |-> c.bucket]
  <2>1. \/ claims' = claims
        \/ claims[c.id] = None /\ claims' \in Inserted(claims, c.id, claim)
    BY <1>8 DEF RestoreClaim
  <2>2. c.id \in Ids /\ claim \in Claim
    BY DEF IInv, TypeOK, Restorable, Claim
  <2>3. PruneClaims(claims) = claims
    BY <1>0 DEF Restoring, PruneClaims
  <2>4. claim # None
    BY <2>2, ConstantsAreApart
  <2> HIDE DEF claim
  <2>5. CASE claims' # claims
    <3>1. claims[c.id] = None /\ claims' \in Inserted(claims, c.id, claim) /\ i # c.id
      BY <2>1, <2>5
    <3>2. \/ claims'[i] = claims[i]
          \/ /\ claims'[c.id] = claim /\ claims[i].bucket = claim.bucket
             /\ BlockSize(claims, claim.bucket) >= 2
      BY <1>0, <2>2, <3>1, InsertedKeeps
    <3>3. QED
      BY <2>2, <2>3, <2>4, <3>1, <3>2 DEF Recorded, OwnBlockInserted
  <2>6. QED
    BY <1>2, <2>5
<1>9. QED
  BY <1>2, <1>4, <1>5, <1>6, <1>7, <1>8, RegistrationIsRefusedOrGranted
     DEF Next, Connect, BridgeAlive, ClosingSocketAlive, LinkDrops, ClosingEnds,
         ViewerJoins, Tick

(* A claim that restore() has in hand gets into the map unless it is full. *)
LEMMA RestoredOrFull ==
  ASSUME IInv, Restoring, Next, NEW c \in toRestore, c \notin toRestore'
  PROVE  Recorded(c.id, c.owner) \/ Cardinality(Present(claims')) >= MaxTracking
<1>1. RestoreClaim(c)
  <2>1. PICK d \in toRestore : RestoreClaim(d)
    BY RegistrationIsRefusedOrGranted
       DEF Next, RefuseRegistration, AcceptRegistration, Delete, Connect, BridgeAlive,
           ClosingSocketAlive, LinkDrops, ClosingEnds, ViewerJoins, Reap, Restart, Tick, Idle
  <2>2. d = c
    BY <2>1 DEF RestoreClaim
  <2>3. QED
    BY <2>1, <2>2
<1> DEFINE claim == [owner |-> c.owner, at |-> c.at, bucket |-> c.bucket]
<1>2. c.id \in Ids /\ claim \in Claim /\ claims \in ClaimMaps /\ claim.owner = c.owner
  BY DEF IInv, TypeOK, Restorable, Claim
<1>3. claim # None
  BY <1>2, ConstantsAreApart
<1>4. claims' \in IF claims[c.id] # None THEN {claims} ELSE Inserted(claims, c.id, claim)
  BY <1>1 DEF RestoreClaim
<1> HIDE DEF claim
<1>5. CASE claims[c.id] # None
  BY <1>4, <1>5 DEF Restoring, Recorded
<1>6. CASE claims[c.id] = None
  BY <1>2, <1>3, <1>4, <1>6, InsertedKeeps DEF Recorded
<1>7. QED
  BY <1>5, <1>6

(* The share that a granted registration ends is the longest departed one. *)
LEMMA EndedIsDeparted ==
  ASSUME IInv, NEW id \in Ids, NEW key \in Owners \cup {NoOwner}, NEW addr \in Addrs,
         NEW presentsCode \in BOOLEAN, AcceptRegistration(id, key, addr, presentsCode)
  PROVE  \E gone \in Ids :
           /\ EndedNow \subseteq {gone}
           /\ EndedNow # {} => gone \in LongestDeparted(UntakenReaped(id))
<1> DEFINE ss == UntakenReaped(id)
<1>0. TypeOK
  BY DEF IInv
<1>1. \A i \in Ids : Bound(i) => sessions[i] # None /\ ss[i] = sessions[i]
  BY <1>0, UntakenReapedDropsUnbound DEF Bound
<1> HIDE DEF ss
<1>2. sessions'[id] # None
  BY <1>0, AcceptedRecords
<1>3. \/ \A i \in Ids \ {id} : sessions'[i] = ss[i]
      \/ \E gone \in LongestDeparted(ss) : /\ gone \in Ids
                                           /\ \A i \in Ids \ {id, gone} : sessions'[i] = ss[i]
  BY <1>0, AcceptedRecords DEF ss
<1>4. CASE \A i \in Ids \ {id} : sessions'[i] = ss[i]
  <2>1. EndedNow = {}
    BY <1>1, <1>2, <1>4 DEF EndedNow
  <2>2. QED
    BY <2>1 DEF ss
<1>5. ASSUME NEW gone \in LongestDeparted(ss), gone \in Ids,
             \A i \in Ids \ {id, gone} : sessions'[i] = ss[i]
      PROVE  EndedNow \subseteq {gone}
  BY <1>1, <1>2, <1>5 DEF EndedNow
<1>6. QED
  BY <1>3, <1>4, <1>5 DEF ss

(* What LongestDeparted says of a bridged share. *)
LEMMA DepartedIsSilent ==
  ASSUME IInv, NEW id \in Ids, NEW gone \in LongestDeparted(UntakenReaped(id)), Bound(gone),
         NEW life, life = IF sessions[gone].bridge_alive_at = None THEN 0 ELSE sessions[gone].bridge_alive_at
  PROVE  /\ gone \notin connected
         /\ now - restoredAt > DepartedAfter
         /\ now - life > DepartedAfter
         /\ \A other \in Ids \ connected :
              Bound(other) /\ now - SeenAt(sessions[other]) > DepartedAfter
                => SeenAt(sessions[gone]) <= SeenAt(sessions[other])
<1> DEFINE ss == UntakenReaped(id)
<1>0. TypeOK
  BY DEF IInv
<1>1. /\ ss \in SessionMaps
      /\ \A i \in Ids : Bound(i) => ss[i] = sessions[i]
  BY <1>0, UntakenReapedDropsUnbound
<1> HIDE DEF ss
<1>2. gone \in Departed(ss) /\ \A other \in Departed(ss) : SeenAt(ss[gone]) <= SeenAt(ss[other])
  BY DEF ss, LongestDeparted
<1>3. gone \in Ids /\ gone \notin connected /\ now - SeenAt(ss[gone]) > DepartedAfter
  BY <1>1, <1>2 DEF Departed, Present
<1>4. ss[gone] = sessions[gone] /\ sessions[gone] \in Session
  BY <1>0, <1>1, <1>3 DEF Bound, TypeOK
<1>5. now - restoredAt > DepartedAfter /\ now - life > DepartedAfter
  <2>1. now \in Nat /\ restoredAt \in Nat /\ DepartedAfter \in Nat /\ None \notin Nat
    BY <1>0, Limits, ConstantsAreApart DEF TypeOK
  <2>2. /\ sessions[gone].created_at \in Nat
        /\ sessions[gone].bridge_alive_at # None => sessions[gone].bridge_alive_at \in Nat
    BY <1>4 DEF Session
  <2>3. now - SeenAt(sessions[gone]) > DepartedAfter
    BY <1>3, <1>4
  <2>4. SeenAt(sessions[gone]) \in Nat /\ restoredAt <= SeenAt(sessions[gone]) /\ life <= SeenAt(sessions[gone])
        /\ life \in Nat
    BY <2>1, <2>2 DEF SeenAt, Max2
  <2>5. QED
    BY <2>1, <2>3, <2>4
<1>6. ASSUME NEW other \in Ids \ connected, Bound(other), now - SeenAt(sessions[other]) > DepartedAfter
      PROVE  SeenAt(sessions[gone]) <= SeenAt(sessions[other])
  <2>1. other \in Departed(ss) /\ ss[other] = sessions[other]
    BY <1>1, <1>6 DEF Departed, Present, Bound
  <2>2. QED
    BY <1>2, <1>4, <2>1
<1>7. QED
  BY <1>3, <1>5, <1>6

---------------------------------------------------------------------------
(* Theorems *)

(* The state of the store is well typed, for any constants. *)
THEOREM TypeCorrect == Spec => []TypeOK
<1>1. IInv => TypeOK
  BY DEF IInv
<1>2. QED
  BY <1>1, InitEstablishes, StepPreserves, PTL DEF Spec

(* A reservation and a live registration of one id never name two installs: *)
(* createSession, recordClaim, the reaper and restore() keep it so.         *)
THEOREM ReservationNamesTheHolder == Spec => []HolderMatchesClaim
<1>1. IInv => HolderMatchesClaim
  BY DEF IInv
<1>2. QED
  BY <1>1, InitEstablishes, StepPreserves, PTL DEF Spec

(* An open bridge socket always belongs to a live registration that is      *)
(* taken up: the unbound sweep, the eviction, the reaper and every replaced *)
(* registration close the socket with the share.                            *)
THEOREM SocketsBelongToShares == Spec => []SocketsAreBound
<1>1. IInv => SocketsAreBound
  BY DEF IInv
<1>2. QED
  BY <1>1, InitEstablishes, StepPreserves, PTL DEF Spec

(* The store's records, reservations and sockets are well typed and agree. *)
THEOREM StoreSound == Spec => []StoreIsSound
<1>1. IInv => StoreIsSound
  BY DEF IInv, StoreIsSound
<1>2. QED
  BY <1>1, InitEstablishes, StepPreserves, PTL DEF Spec

(* A refused registration has ended no share and closed no socket. *)
THEOREM RefusalsAreHarmless == Spec => RefusalEndsNoShare
<1> DEFINE A == answer' \in Refusals =>
                  /\ connected' = connected
                  /\ \A id \in Ids : Bound(id) => sessions'[id] = sessions[id]
<1>1. IInv /\ [Next]_vars => [A]_vars
  <2> SUFFICES ASSUME IInv, Next, answer' \in Refusals PROVE A
    OBVIOUS
  <2>1. ASSUME NEW id \in Ids, NEW key \in Owners \cup {NoOwner}, NEW addr \in Addrs,
               RefuseRegistration(id, key, addr)
        PROVE  A
    BY <2>1, UntakenReapedDropsUnbound DEF RefuseRegistration, IInv
  <2>2. ASSUME NEW id \in Ids, NEW key \in Owners \cup {NoOwner}, NEW addr \in Addrs,
               NEW presentsCode \in BOOLEAN, AcceptRegistration(id, key, addr, presentsCode)
        PROVE  FALSE
    BY <2>2 DEF AcceptRegistration, Refusals
  <2>3. QED
    BY <2>1, <2>2, RegistrationIsRefusedOrGranted
       DEF Next, Refusals, Delete, Connect, BridgeAlive, ClosingSocketAlive,
           LinkDrops, ClosingEnds, ViewerJoins, Reap, Restart, RestoreClaim, Tick
<1>2. QED
  BY <1>1, InitEstablishes, StepPreserves, PTL DEF Spec, RefusalEndsNoShare

(* The caps on sessions, registrations and reservations hold for any limits, *)
(* through registrations, evictions, reaps and restarts.                     *)
THEOREM LimitsHold == Spec => []WithinLimits
<1>1. Init => WithinLimits
  <2> SUFFICES ASSUME Init PROVE WithinLimits
    OBVIOUS
  <2>1. sessions \in SessionMaps /\ claims \in ClaimMaps
    BY DEF Init
  <2>2. /\ \A i \in Ids : sessions[i] = None /\ claims[i] = None
        /\ \A a \in Addrs : registrations[a] = None
    BY DEF Init
  <2>3. Present(sessions) = {} /\ Present(claims) = {}
    BY <2>1, <2>2, PresentAreIds, LiveAreIds
  <2>4. /\ Live = {} /\ Present(claims) = {} /\ \A a \in Addrs : ActiveFrom(sessions, a) = {}
        /\ \A a \in Addrs : registrations[a] = None
    BY <2>2, <2>3 DEF Live, ActiveFrom
  <2>5. Cardinality({}) = 0
    BY FS_EmptySet
  <2>6. 0 <= MaxSessions /\ 0 <= MaxActive /\ 0 <= MaxTracking
    BY LimitsAreNaturals
  <2>7. QED
    BY <2>4, <2>5, <2>6 DEF WithinLimits
<1>2. QED
  BY <1>1, InitEstablishes, StepPreserves, StepKeepsLimits, PTL DEF Spec

(* All of this at every moment, with what restore() has in hand. *)
LEMMA StoreInvariant == Spec => [](IInv /\ WithinLimits /\ Restoring)
<1>1. Init => Restoring
  BY DEF Init, Restoring
<1>2. QED
  BY <1>1, InitEstablishes, StepPreserves, StepKeepsRestoring, LimitsHold, PTL DEF Spec

(* An id whose share has a key, or is reserved, is registered by no other    *)
(* install, whatever evictions, reaps and restarts come between.             *)
THEOREM NobodyTakesAnId == Spec => IdStaysWithItsInstall
<1> DEFINE A == \A id \in Ids : HeldBy(id) # {} /\ sessions'[id] # None
                                  => sessions'[id].owner \in HeldBy(id)
<1>1. IInv /\ [Next]_vars => [A]_vars
  <2> SUFFICES ASSUME IInv, Next, NEW i \in Ids, HeldBy(i) # {}, sessions'[i] # None
               PROVE  sessions'[i].owner \in HeldBy(i)
    OBVIOUS
  <2>1. CASE sessions[i] # None /\ sessions'[i].owner = sessions[i].owner
    BY <2>1, HolderHolds
  <2>2. CASE ~(sessions[i] # None /\ sessions'[i].owner = sessions[i].owner)
    <3>1. PICK key \in Owners \cup {NoOwner}, addr \in Addrs, presentsCode \in BOOLEAN :
            AcceptRegistration(i, key, addr, presentsCode)
      BY <2>2, OwnersStay
    <3>2. sessions'[i].owner = key
      BY <3>1, AcceptedRecords DEF IInv
    <3>3. key \in HeldBy(i)
      BY <3>1, GrantedToAHolder DEF AcceptRegistration
    <3>4. QED
      BY <3>2, <3>3
  <2>3. QED
    BY <2>1, <2>2
<1>2. QED
  BY <1>1, StoreInvariant, PTL DEF Spec, IdStaysWithItsInstall

(* However a bridged share with a key ends, its id stays its owner's, but    *)
(* for a full reservation map or a silence longer than a reservation.        *)
THEOREM EndsAreReserved == Spec => EndedShareStaysReserved
<1> DEFINE A == \A id \in Ids :
                  ShareEnds(id) /\ sessions[id].owner # NoOwner
                    => \/ Recorded(id, sessions[id].owner)
                       \/ Cardinality(Present(claims')) >= MaxTracking
                       \/ now' - sessions[id].last_seen > ClaimTtl
<1>1. IInv /\ WithinLimits /\ [Next]_vars => [A]_vars
  BY EndIsRecorded
<1>2. QED
  BY <1>1, StoreInvariant, PTL DEF Spec, EndedShareStaysReserved

(* A reservation goes before its term only to its own address block, and a   *)
(* restart loses one only to a full map.                                     *)
THEOREM FloodsDisplaceTheirOwn == Spec => ClaimKeptForItsTerm
<1> DEFINE A == /\ \A id \in Ids :
                     claims[id] # None /\ now' - claims[id].at <= ClaimTtl
                       => \/ Recorded(id, claims[id].owner)
                          \/ /\ OwnBlockInserted(claims[id].bucket)
                             /\ BlockSize(PruneClaims(claims), claims[id].bucket) >= 2
                /\ \A c \in toRestore \ toRestore' :
                     \/ Recorded(c.id, c.owner)
                     \/ Cardinality(Present(claims')) >= MaxTracking
<1>1. IInv /\ WithinLimits /\ Restoring /\ [Next]_vars => [A]_vars
  BY ClaimsLast, RestoredOrFull
<1>2. QED
  BY <1>1, StoreInvariant, PTL DEF Spec, ClaimKeptForItsTerm

(* A granted registration ends at most one other share, the one whose bridge *)
(* has been away the longest.                                                *)
THEOREM OnlyTheLongestDepartedGoes == Spec => RoomComesFromOneDepartedShare
<1> DEFINE A == answer' \in {"created", "resumed"} =>
       /\ Cardinality(EndedNow) <= 1
       /\ \A id \in EndedNow :
            LET life(i) == IF sessions[i].bridge_alive_at = None THEN 0 ELSE sessions[i].bridge_alive_at
            IN /\ id \notin connected
               /\ now - restoredAt > DepartedAfter
               /\ now - life(id) > DepartedAfter
               /\ \A other \in Ids \ connected :
                    Bound(other) /\ now - SeenAt(sessions[other]) > DepartedAfter
                      => SeenAt(sessions[id]) <= SeenAt(sessions[other])
<1>1. IInv /\ [Next]_vars => [A]_vars
  <2> SUFFICES ASSUME IInv, Next, answer' \in {"created", "resumed"} PROVE A
    OBVIOUS
  <2>1. PICK id \in Ids, key \in Owners \cup {NoOwner}, addr \in Addrs, presentsCode \in BOOLEAN :
          AcceptRegistration(id, key, addr, presentsCode)
    BY RegistrationIsRefusedOrGranted
       DEF Next, RefuseRegistration, Delete, Connect, BridgeAlive, ClosingSocketAlive,
           LinkDrops, ClosingEnds, ViewerJoins, Reap, Restart, RestoreClaim, Tick
  <2>2. PICK gone \in Ids :
          /\ EndedNow \subseteq {gone}
          /\ EndedNow # {} => gone \in LongestDeparted(UntakenReaped(id))
    BY <2>1, EndedIsDeparted
  <2>3. Cardinality(EndedNow) <= 1
    <3>1. EndedNow = {} \/ EndedNow = {gone}
      BY <2>2
    <3>2. QED
      BY <3>1, FS_EmptySet, FS_Singleton
  <2>4. ASSUME NEW i \in EndedNow
        PROVE  i \in LongestDeparted(UntakenReaped(id)) /\ Bound(i)
    BY <2>2, <2>4 DEF EndedNow
  <2>5. QED
    BY <2>3, <2>4, DepartedIsSilent
<1>2. QED
  BY <1>1, StoreInvariant, PTL DEF Spec, RoomComesFromOneDepartedShare


=============================================================================
