-------------------------- MODULE StateFileProofs --------------------------
(***************************************************************************)
(* What holds of the relay's process for any keys, any number of changes   *)
(* and restarts, any environment and any requests: its state file never    *)
(* gives way to something worse, its limits fit each other, and what it    *)
(* holds in memory is exactly charged.                                     *)
(*                                                                         *)
(* The file's argument follows versions: the store is never older than the *)
(* file, a write that may still land is never newer than the store, and a  *)
(* store without sessions is either in the file or on its way there.  The  *)
(* memory's follows requests: each step of one moves the counters by what  *)
(* that request has more or less, and only small bodies of shares that     *)
(* hold next to nothing eat into the reserve.                              *)
(***************************************************************************)
EXTENDS StateFile, RelaySettings, RelayBudgets, FiniteSetTheorems, TLAPS

---------------------------------------------------------------------------
(* What requests make the relay hold, for any requests, shares and limits *)

LEMMA BudgetLimits ==
  /\ Limit \in Nat /\ MaxInbound \in Nat /\ ShareInbound \in Nat /\ Reserve \in Nat /\ Small \in Nat
  /\ MaxPosts \in Nat /\ PerCheck \in Nat /\ Strikes \in Nat /\ MaxBuffered \in Nat /\ ShareBuffered \in Nat
  /\ Limit > 0 /\ PerCheck > 0 /\ Strikes > 0
  /\ Reserve <= MaxInbound /\ Small <= ShareInbound
<1>1. {Limit, MaxInbound, ShareInbound, Reserve, Small, MaxPosts, PerCheck, Strikes,
       MaxBuffered, ShareBuffered} \subseteq Nat \ {0}
  BY LimitsAreNatural
<1> QED BY SMT, <1>1, LimitsAreNatural

(* Sums of what requests have, counted one by one *)

Units(bytes, R) == UNION {{<<r, i>> : i \in 1..bytes[r]} : r \in R}

LEMMA UnitsOfOne ==
  ASSUME NEW bytes, NEW r, bytes[r] \in Nat
  PROVE  /\ IsFiniteSet({<<r, i>> : i \in 1..bytes[r]})
         /\ Cardinality({<<r, i>> : i \in 1..bytes[r]}) = bytes[r]
<1>1. {<<r, i>> : i \in 1..bytes[r]} = {r} \X (1..bytes[r])
  OBVIOUS
<1>2. IsFiniteSet({r}) /\ Cardinality({r}) = 1
  BY FS_Singleton
<1>3. IsFiniteSet(1..bytes[r]) /\ Cardinality(1..bytes[r]) = bytes[r]
  BY FS_Interval
<1>4. IsFiniteSet({r} \X (1..bytes[r])) /\ Cardinality({r} \X (1..bytes[r])) = 1 * bytes[r]
  BY FS_Product, <1>2, <1>3
<1> QED BY <1>1, <1>4

LEMMA UnitsAreFinite ==
  ASSUME NEW bytes \in [Requests -> Nat], NEW R, R \subseteq Requests
  PROVE  IsFiniteSet(Units(bytes, R))
<1> DEFINE S == {{<<r, i>> : i \in 1..bytes[r]} : r \in R}
           f == [r \in R |-> {<<r, i>> : i \in 1..bytes[r]}]
<1>1. IsFiniteSet(R)
  BY FS_Subset, RequestsAreFinite
<1>2. f \in Surjection(R, S)
  BY DEF Surjection
<1>3. IsFiniteSet(S)
  BY ONLY FS_Surjection, <1>1, <1>2
<1>4. \A T \in S : IsFiniteSet(T)
  BY UnitsOfOne
<1> QED BY FS_UNION, <1>3, <1>4 DEF Units

LEMMA SumMoves ==
  ASSUME NEW f \in [Requests -> Nat], NEW g \in [Requests -> Nat], NEW r \in Requests,
         \A o \in Requests \ {r} : g[o] = f[o]
  PROVE  Sum(f) \in Nat /\ Sum(g) \in Nat /\ Sum(g) = Sum(f) + g[r] - f[r]
<1> DEFINE Rest == Requests \ {r}
           One(h) == {<<r, i>> : i \in 1..h[r]}
<1>1. ASSUME NEW h \in [Requests -> Nat]
      PROVE  Sum(h) \in Nat /\ Cardinality(Units(h, Rest)) \in Nat /\ Sum(h) = h[r] + Cardinality(Units(h, Rest))
  <2>1. Units(h, Requests) = One(h) \cup Units(h, Rest)
    BY DEF Units
  <2>2. One(h) \cap Units(h, Rest) = {}
    BY DEF Units
  <2>3. IsFiniteSet(One(h)) /\ Cardinality(One(h)) = h[r]
    BY UnitsOfOne
  <2>4. IsFiniteSet(Units(h, Rest)) /\ Cardinality(Units(h, Rest)) \in Nat
    BY UnitsAreFinite, FS_CardinalityType
  <2>5. Cardinality(One(h) \cup Units(h, Rest)) = h[r] + Cardinality(Units(h, Rest))
    <3>1. Cardinality(One(h) \cup Units(h, Rest))
            = Cardinality(One(h)) + Cardinality(Units(h, Rest)) - Cardinality(One(h) \cap Units(h, Rest))
      BY FS_Union, <2>3, <2>4
    <3>2. Cardinality(One(h) \cap Units(h, Rest)) = 0
      BY <2>2, FS_EmptySet
    <3> QED BY SMT, <3>1, <3>2, <2>3, <2>4
  <2>6. Sum(h) = Cardinality(Units(h, Requests))
    BY DEF Sum, Units
  <2> QED BY SMT, <2>1, <2>4, <2>5, <2>6
<1>2. Units(f, Rest) = Units(g, Rest)
  BY DEF Units
<1>3. f[r] \in Nat /\ g[r] \in Nat
  OBVIOUS
<1> HIDE DEF Rest
<1> QED BY SMT, <1>1, <1>2, <1>3

LEMMA SumIsAtMost ==
  ASSUME NEW f \in [Requests -> Nat], NEW g \in [Requests -> Nat], \A r \in Requests : f[r] <= g[r]
  PROVE  Sum(f) <= Sum(g)
<1>1. Units(f, Requests) \subseteq Units(g, Requests)
  BY DEF Units
<1>2. IsFiniteSet(Units(g, Requests))
  BY UnitsAreFinite
<1> QED BY FS_Subset, <1>1, <1>2 DEF Sum, Units

LEMMA SumIsShared ==
  ASSUME NEW f \in [Requests -> Nat], NEW g \in [Requests -> Nat], NEW h \in [Requests -> Nat],
         \A r \in Requests : h[r] <= f[r] \/ h[r] <= g[r]
  PROVE  Sum(h) <= Sum(f) + Sum(g)
<1>1. Units(h, Requests) \subseteq Units(f, Requests) \cup Units(g, Requests)
  <2> SUFFICES ASSUME NEW r \in Requests, NEW i \in 1..h[r] PROVE i \in 1..f[r] \/ i \in 1..g[r]
    BY DEF Units
  <2> QED OBVIOUS
<1>2. /\ IsFiniteSet(Units(f, Requests)) /\ IsFiniteSet(Units(g, Requests))
      /\ IsFiniteSet(Units(f, Requests) \cup Units(g, Requests))
  BY UnitsAreFinite, FS_Union
<1>3. Cardinality(Units(f, Requests) \cup Units(g, Requests))
        <= Cardinality(Units(f, Requests)) + Cardinality(Units(g, Requests))
  <2>1. IsFiniteSet(Units(f, Requests) \cap Units(g, Requests))
    BY <1>2, FS_Intersection
  <2>2. Cardinality(Units(f, Requests) \cap Units(g, Requests)) \in Nat
    BY <2>1, FS_CardinalityType
  <2>3. Cardinality(Units(f, Requests)) \in Nat /\ Cardinality(Units(g, Requests)) \in Nat
    BY <1>2, FS_CardinalityType
  <2>4. Cardinality(Units(f, Requests) \cup Units(g, Requests)) =
          Cardinality(Units(f, Requests)) + Cardinality(Units(g, Requests))
            - Cardinality(Units(f, Requests) \cap Units(g, Requests))
    BY <1>2, FS_Union
  <2> QED BY SMT, <2>2, <2>3, <2>4
<1>4. Cardinality(Units(h, Requests)) <= Cardinality(Units(f, Requests) \cup Units(g, Requests))
  BY FS_Subset, <1>1, <1>2
<1>5. /\ Cardinality(Units(h, Requests)) \in Nat
      /\ Cardinality(Units(f, Requests)) \in Nat /\ Cardinality(Units(g, Requests)) \in Nat
      /\ Cardinality(Units(f, Requests) \cup Units(g, Requests)) \in Nat
  BY UnitsAreFinite, <1>2, FS_CardinalityType
<1>6. Sum(h) = Cardinality(Units(h, Requests)) /\ Sum(f) = Cardinality(Units(f, Requests))
      /\ Sum(g) = Cardinality(Units(g, Requests))
  BY DEF Sum, Units
<1> QED BY SMT, <1>3, <1>4, <1>5, <1>6

LEMMA SumOfNothing ==
  ASSUME NEW f, \A r \in Requests : f[r] = 0
  PROVE  Sum(f) = 0
<1>1. \A r \in Requests : 1..f[r] = {}
  BY SMT
<1>2. UNION {{<<r, i>> : i \in 1..f[r]} : r \in Requests} = {}
  BY <1>1
<1> QED BY <1>2, FS_EmptySet DEF Sum

(* What is kept *)

\* What a request has is charged while it is counted, and no more than it claimed; one
\* that still arrives has paid for its checks.
Kept(q) ==
  /\ q.phase = "idle" <=> q.share = None
  /\ q.phase = "idle" => ~q.counted
  /\ ~q.counted => q.charged = 0
  /\ q.claim <= Limit
  /\ q.counted /\ q.phase \in {"reading", "parsing"} => q.charged = q.claim
  /\ q.phase # "sending" => q.len = 0
  /\ q.phase = "reading" => q.counted
  /\ q.fired # {} => ~q.counted
  /\ q.watched => q.phase = "reading"

Pays(q) ==
  q.watched => /\ q.moved <= q.read
               /\ q.checks * PerCheck + q.moved <= q.owed + q.read
               /\ q.owed < Strikes * PerCheck

\* Only what quiet shares hold is held in the reserve.
ReserveIsKept == Sum(ChargedTo(Shares \ Quiet)) <= MaxInbound - Reserve

BudgetsInv ==
  /\ BudgetsTypeOK /\ ChargesAreExact /\ ReserveIsKept
  /\ \A r \in Requests : Kept(req[r]) /\ Pays(req[r])

LEMMA SumsAreTyped ==
  ASSUME BudgetsTypeOK, NEW S
  PROVE  ChargedTo(S) \in [Requests -> Nat] /\ HeldFor(S) \in [Requests -> Nat]
<1>1. \A r \in Requests : req[r].charged \in Nat /\ req[r].len \in Nat
  BY DEF BudgetsTypeOK, Request
<1> QED BY <1>1 DEF ChargedTo, HeldFor

\* What a request has in one share.
Charge(q, s) == IF q.share = s THEN q.charged ELSE 0
Held(q, s)   == IF q.share = s THEN q.len ELSE 0
Post(q, s)   == IF q.share = s /\ q.counted THEN 1 ELSE 0

\* A request becomes p, and the counters follow.
Becomes(r, p) ==
  /\ p \in Request
  /\ req' = [req EXCEPT ![r] = p]
  /\ inbound' = inbound + p.charged - req[r].charged
  /\ buffered' = buffered + p.len - req[r].len
  /\ inboundOf' \in [Shares -> Int] /\ bufferedOf' \in [Shares -> Int] /\ posts' \in [Shares -> Int]
  /\ \A s \in Shares : inboundOf'[s] = inboundOf[s] + Charge(p, s) - Charge(req[r], s)
  /\ \A s \in Shares : bufferedOf'[s] = bufferedOf[s] + Held(p, s) - Held(req[r], s)
  /\ \A s \in Shares : posts'[s] = posts[s] + Post(p, s) - Post(req[r], s)

LEMMA TypesGoOn ==
  ASSUME BudgetsTypeOK, NEW r \in Requests, NEW p, Becomes(r, p), squeezed' \subseteq Shares
  PROVE  BudgetsTypeOK' /\ req'[r] = p /\ \A o \in Requests \ {r} : req'[o] = req[o]
<1>1. req' \in [Requests -> Request]
  BY DEF BudgetsTypeOK, Becomes
<1>2. req'[r] = p /\ \A o \in Requests \ {r} : req'[o] = req[o]
  BY DEF BudgetsTypeOK, Becomes
<1>3. p.charged \in Nat /\ req[r].charged \in Nat /\ p.len \in Nat /\ req[r].len \in Nat
  BY DEF BudgetsTypeOK, Becomes, Request
<1>4. inbound' \in Int /\ buffered' \in Int
  BY SMT, <1>3 DEF BudgetsTypeOK, Becomes
<1> QED BY <1>1, <1>2, <1>4 DEF BudgetsTypeOK, Becomes

LEMMA PostsMove ==
  ASSUME BudgetsTypeOK, NEW r \in Requests, NEW p, Becomes(r, p), squeezed' \subseteq Shares, NEW s \in Shares,
         posts[s] = Cardinality({o \in Requests : req[o].share = s /\ req[o].counted})
  PROVE  posts'[s] = Cardinality({o \in Requests : req'[o].share = s /\ req'[o].counted})
<1> DEFINE P == {o \in Requests : req[o].share = s /\ req[o].counted}
           N == {o \in Requests : req'[o].share = s /\ req'[o].counted}
<1>1. BudgetsTypeOK' /\ req'[r] = p /\ \A o \in Requests \ {r} : req'[o] = req[o]
  BY TypesGoOn
<1>2. IsFiniteSet(P) /\ Cardinality(P) \in Nat
  BY FS_Subset, FS_CardinalityType, RequestsAreFinite
<1>3. posts'[s] = posts[s] + Post(p, s) - Post(req[r], s)
  BY DEF Becomes
<1>4. r \in P <=> Post(req[r], s) = 1
  BY DEF Post
<1>5. r \in N <=> Post(p, s) = 1
  BY <1>1 DEF Post
<1>6. Post(p, s) \in {0, 1} /\ Post(req[r], s) \in {0, 1}
  BY DEF Post
<1>7. posts[s] \in Int
  BY DEF BudgetsTypeOK
<1>8. posts[s] = Cardinality(P)
  OBVIOUS
<1>9. CASE r \in P /\ r \notin N
  <2>1. N = P \ {r}
    BY <1>1, <1>9
  <2>2. Cardinality(P \ {r}) = Cardinality(P) - 1
    BY <1>9, <1>2, FS_RemoveElement
  <2>3. Post(p, s) = 0 /\ Post(req[r], s) = 1
    BY <1>4, <1>5, <1>6, <1>9
  <2>4. posts'[s] = posts[s] - 1
    BY SMT, <1>3, <1>7, <2>3
  <2> QED BY <1>8, <2>1, <2>2, <2>4
<1>10. CASE r \notin P /\ r \in N
  <2>1. N = P \cup {r}
    BY <1>1, <1>10
  <2>2. Cardinality(P \cup {r}) = Cardinality(P) + 1
    BY <1>10, <1>2, FS_AddElement
  <2>3. Post(p, s) = 1 /\ Post(req[r], s) = 0
    BY <1>4, <1>5, <1>6, <1>10
  <2>4. posts'[s] = posts[s] + 1
    BY SMT, <1>3, <1>7, <2>3
  <2> QED BY <1>8, <2>1, <2>2, <2>4
<1>11. CASE r \in P <=> r \in N
  <2>1. N = P
    BY <1>1, <1>11
  <2>3. Post(p, s) = Post(req[r], s)
    BY <1>4, <1>5, <1>6, <1>11
  <2>4. posts'[s] = posts[s]
    BY SMT, <1>3, <1>6, <1>7, <2>3
  <2> QED BY <1>8, <2>1, <2>4
<1> QED BY <1>9, <1>10, <1>11

LEMMA SharesStay ==
  ASSUME BudgetsTypeOK, NEW r \in Requests, Kept(req[r]), NEW S, S \subseteq Shares
  PROVE  /\ req[r].share \in Shares \cup {None}
         /\ req[r].share \notin Shares => req[r].charged = 0 /\ req[r].len = 0
<1>1. req[r] \in Request
  BY DEF BudgetsTypeOK
<1> QED BY <1>1, NoneIsNoShare DEF Kept, Request

\* The counters stay exact.
LEMMA ExactnessStays ==
  ASSUME BudgetsInv, NEW r \in Requests, NEW p, Becomes(r, p), Kept(p), squeezed' \subseteq Shares
  PROVE  ChargesAreExact'
<1>1. BudgetsTypeOK /\ BudgetsTypeOK' /\ req'[r] = p /\ \A o \in Requests \ {r} : req'[o] = req[o]
  BY TypesGoOn DEF BudgetsInv
<1>2. p.share \notin Shares => p.charged = 0 /\ p.len = 0
  BY NoneIsNoShare DEF Becomes, Request, Kept
<1>3. req[r].share \notin Shares => req[r].charged = 0 /\ req[r].len = 0
  BY SharesStay DEF BudgetsInv
<1>4. ASSUME NEW S
      PROVE  /\ Sum(ChargedTo(S)) \in Nat /\ Sum(ChargedTo(S)') \in Nat
             /\ Sum(ChargedTo(S)') = Sum(ChargedTo(S)) + ChargedTo(S)'[r] - ChargedTo(S)[r]
             /\ Sum(HeldFor(S)) \in Nat /\ Sum(HeldFor(S)') \in Nat
             /\ Sum(HeldFor(S)') = Sum(HeldFor(S)) + HeldFor(S)'[r] - HeldFor(S)[r]
  <2>1. ChargedTo(S) \in [Requests -> Nat] /\ HeldFor(S) \in [Requests -> Nat]
    BY <1>1, SumsAreTyped
  <2>2. ChargedTo(S)' \in [Requests -> Nat] /\ HeldFor(S)' \in [Requests -> Nat]
    <3>1. \A o \in Requests : req'[o].charged \in Nat /\ req'[o].len \in Nat
      BY <1>1 DEF BudgetsTypeOK, Request
    <3> QED BY <3>1 DEF ChargedTo, HeldFor
  <2>3. \A o \in Requests \ {r} : ChargedTo(S)'[o] = ChargedTo(S)[o] /\ HeldFor(S)'[o] = HeldFor(S)[o]
    BY <1>1 DEF ChargedTo, HeldFor
  <2> QED BY <2>1, <2>2, <2>3, SumMoves
<1>5. ASSUME NEW S
      PROVE  /\ ChargedTo(S)[r] = (IF req[r].share \in S THEN req[r].charged ELSE 0)
             /\ ChargedTo(S)'[r] = (IF p.share \in S THEN p.charged ELSE 0)
             /\ HeldFor(S)[r] = (IF req[r].share \in S THEN req[r].len ELSE 0)
             /\ HeldFor(S)'[r] = (IF p.share \in S THEN p.len ELSE 0)
  BY <1>1 DEF ChargedTo, HeldFor
<1>6. p.charged \in Nat /\ req[r].charged \in Nat /\ p.len \in Nat /\ req[r].len \in Nat
  BY <1>1 DEF BudgetsTypeOK, Becomes, Request
<1>7. inbound' = Sum(ChargedTo(Shares)') /\ buffered' = Sum(HeldFor(Shares)')
  <2>1. inbound = Sum(ChargedTo(Shares)) /\ buffered = Sum(HeldFor(Shares))
    BY DEF BudgetsInv, ChargesAreExact
  <2>2. inbound' = inbound + p.charged - req[r].charged /\ buffered' = buffered + p.len - req[r].len
    BY DEF Becomes
  <2>3. ChargedTo(Shares)[r] = req[r].charged /\ ChargedTo(Shares)'[r] = p.charged
    BY <1>2, <1>3, <1>5
  <2>4. HeldFor(Shares)[r] = req[r].len /\ HeldFor(Shares)'[r] = p.len
    BY <1>2, <1>3, <1>5
  <2> QED BY SMT, <1>4, <1>6, <2>1, <2>2, <2>3, <2>4
<1>8. ASSUME NEW s \in Shares
      PROVE  inboundOf'[s] = Sum(ChargedTo({s})') /\ bufferedOf'[s] = Sum(HeldFor({s})')
  <2>1. inboundOf[s] = Sum(ChargedTo({s})) /\ bufferedOf[s] = Sum(HeldFor({s}))
    BY DEF BudgetsInv, ChargesAreExact
  <2>2. /\ inboundOf'[s] = inboundOf[s] + Charge(p, s) - Charge(req[r], s)
        /\ bufferedOf'[s] = bufferedOf[s] + Held(p, s) - Held(req[r], s)
    BY DEF Becomes
  <2>3. ChargedTo({s})[r] = Charge(req[r], s) /\ ChargedTo({s})'[r] = Charge(p, s)
    BY <1>5 DEF Charge
  <2>4. HeldFor({s})[r] = Held(req[r], s) /\ HeldFor({s})'[r] = Held(p, s)
    BY <1>5 DEF Held
  <2>5. Charge(p, s) \in Nat /\ Charge(req[r], s) \in Nat /\ Held(p, s) \in Nat /\ Held(req[r], s) \in Nat
    BY <1>6 DEF Charge, Held
  <2> QED BY SMT, <1>4, <2>1, <2>2, <2>3, <2>4, <2>5
<1>9. ASSUME NEW s \in Shares
      PROVE  posts'[s] = Cardinality({o \in Requests : req'[o].share = s /\ req'[o].counted})
  BY PostsMove DEF BudgetsInv, ChargesAreExact
<1>10. Sum(ChargedTo(Shares))' = Sum(ChargedTo(Shares)') /\ Sum(HeldFor(Shares))' = Sum(HeldFor(Shares)')
       /\ \A s \in Shares : Sum(ChargedTo({s}))' = Sum(ChargedTo({s})') /\ Sum(HeldFor({s}))' = Sum(HeldFor({s})')
  BY DEF Sum
<1> QED BY <1>7, <1>8, <1>9, <1>10 DEF ChargesAreExact

\* One that has nothing more than before leaves the reserve to quiet shares.
LEMMA ReserveStays ==
  ASSUME BudgetsInv, NEW r \in Requests, NEW p, Becomes(r, p), Kept(p), squeezed' \subseteq Shares,
         p.charged <= req[r].charged, p.charged = 0 \/ p.share = req[r].share
  PROVE  ReserveIsKept'
<1>1. BudgetsTypeOK /\ BudgetsTypeOK' /\ req'[r] = p /\ \A o \in Requests \ {r} : req'[o] = req[o]
  BY TypesGoOn DEF BudgetsInv
<1>2. p.charged \in Nat /\ req[r].charged \in Nat
  BY <1>1 DEF BudgetsTypeOK, Becomes, Request
<1>3. \A s \in Shares : inboundOf[s] \in Int /\ inboundOf'[s] \in Int /\ inboundOf'[s] <= inboundOf[s]
  <2> SUFFICES ASSUME NEW s \in Shares
               PROVE  inboundOf[s] \in Int /\ inboundOf'[s] \in Int /\ inboundOf'[s] <= inboundOf[s]
    OBVIOUS
  <2>1. inboundOf[s] \in Int /\ inboundOf'[s] \in Int
    BY <1>1 DEF BudgetsTypeOK
  <2>2. inboundOf'[s] = inboundOf[s] + Charge(p, s) - Charge(req[r], s)
    BY DEF Becomes
  <2>3. Charge(p, s) \in Nat /\ Charge(req[r], s) \in Nat /\ Charge(p, s) <= Charge(req[r], s)
    BY <1>2 DEF Charge
  <2> QED BY SMT, <2>1, <2>2, <2>3
<1>4. Quiet \subseteq Quiet' /\ Small \in Nat
  BY SMT, <1>3, BudgetLimits DEF Quiet
<1> DEFINE F == ChargedTo(Shares \ Quiet)
           G == ChargedTo(Shares \ Quiet)'
<1>5. F \in [Requests -> Nat]
  BY <1>1, SumsAreTyped
<1>6. G \in [Requests -> Nat]
  <2>1. \A o \in Requests : req'[o].charged \in Nat
    BY <1>1 DEF BudgetsTypeOK, Request
  <2> QED BY <2>1 DEF ChargedTo
<1>7. ASSUME NEW o \in Requests PROVE G[o] <= F[o]
  <2>1. req[o].charged \in Nat /\ req'[o].charged \in Nat /\ req'[o].charged <= req[o].charged
    BY <1>1, <1>2 DEF BudgetsTypeOK, Request
  <2>2. req'[o].charged = 0 \/ req'[o].share = req[o].share
    BY <1>1
  <2>3. F[o] = (IF req[o].share \in Shares \ Quiet THEN req[o].charged ELSE 0)
    BY DEF ChargedTo
  <2>4. G[o] = (IF req'[o].share \in Shares \ Quiet' THEN req'[o].charged ELSE 0)
    BY DEF ChargedTo
  <2>5. req'[o].share \in Shares \ Quiet' /\ req'[o].share = req[o].share => req[o].share \in Shares \ Quiet
    BY <1>4
  <2> QED BY SMT, <2>1, <2>2, <2>3, <2>4, <2>5
<1>8. Sum(G) <= Sum(F)
  BY <1>5, <1>6, <1>7, SumIsAtMost
<1>9. Sum(F) \in Nat /\ Sum(G) \in Nat
  BY <1>5, <1>6, SumMoves
<1>10. Sum(F) <= MaxInbound - Reserve
  BY DEF BudgetsInv, ReserveIsKept
<1>11. ReserveIsKept' <=> Sum(G) <= MaxInbound - Reserve
  BY DEF ReserveIsKept, Sum
<1> HIDE DEF F, G
<1> QED BY SMT, <1>8, <1>9, <1>10, <1>11, BudgetLimits

LEMMA GoesOn ==
  ASSUME BudgetsInv, NEW r \in Requests, NEW p, Becomes(r, p), Kept(p), Pays(p), squeezed' \subseteq Shares,
         p.charged <= req[r].charged, p.charged = 0 \/ p.share = req[r].share
  PROVE  BudgetsInv'
<1>1. BudgetsTypeOK' /\ req'[r] = p /\ \A o \in Requests \ {r} : req'[o] = req[o]
  BY TypesGoOn DEF BudgetsInv
<1>2. ChargesAreExact' /\ ReserveIsKept'
  BY ExactnessStays, ReserveStays
<1>3. \A o \in Requests : Kept(req'[o]) /\ Pays(req'[o])
  BY <1>1 DEF BudgetsInv
<1> QED BY <1>1, <1>2, <1>3 DEF BudgetsInv

\* A request that is charged as before.
Alike(p, q) ==
  /\ p.charged = q.charged /\ p.len = q.len /\ p.counted = q.counted
  /\ p.share = q.share \/ (p.charged = 0 /\ p.len = 0 /\ ~p.counted)

LEMMA AlikeGoesOn ==
  ASSUME BudgetsInv, NEW r \in Requests, NEW p \in Request, Alike(p, req[r]), Kept(p), Pays(p),
         req' = [req EXCEPT ![r] = p], UNCHANGED <<inVars, buffered, bufferedOf>>, squeezed' \subseteq Shares
  PROVE  BudgetsInv'
<1>1. BudgetsTypeOK /\ req[r] \in Request
  BY DEF BudgetsInv, BudgetsTypeOK
<1>2. p.charged \in Nat /\ p.len \in Nat /\ p.charged = req[r].charged /\ p.len = req[r].len
  BY DEF Alike, Request
<1>3. inbound \in Int /\ buffered \in Int /\ inboundOf \in [Shares -> Int] /\ bufferedOf \in [Shares -> Int]
      /\ posts \in [Shares -> Int]
  BY <1>1 DEF BudgetsTypeOK
<1>4. /\ inbound' = inbound /\ inboundOf' = inboundOf /\ posts' = posts
      /\ buffered' = buffered /\ bufferedOf' = bufferedOf
  BY DEF inVars
<1>5. inbound' = inbound + p.charged - req[r].charged /\ buffered' = buffered + p.len - req[r].len
  BY SMT, <1>2, <1>3, <1>4
<1>6. ASSUME NEW s \in Shares
      PROVE  /\ inboundOf'[s] = inboundOf[s] + Charge(p, s) - Charge(req[r], s)
             /\ bufferedOf'[s] = bufferedOf[s] + Held(p, s) - Held(req[r], s)
             /\ posts'[s] = posts[s] + Post(p, s) - Post(req[r], s)
  <2>1. Charge(p, s) = Charge(req[r], s) /\ Charge(p, s) \in Nat
    BY <1>2 DEF Alike, Charge
  <2>2. Held(p, s) = Held(req[r], s) /\ Held(p, s) \in Nat
    BY <1>2 DEF Alike, Held
  <2>3. Post(p, s) = Post(req[r], s) /\ Post(p, s) \in Nat
    BY DEF Alike, Post
  <2>4. inboundOf[s] \in Int /\ bufferedOf[s] \in Int /\ posts[s] \in Int
    BY <1>3
  <2> QED BY SMT, <1>4, <2>1, <2>2, <2>3, <2>4
<1>7. Becomes(r, p)
  BY <1>3, <1>4, <1>5, <1>6 DEF Becomes
<1>8. p.charged <= req[r].charged /\ (p.charged = 0 \/ p.share = req[r].share)
  BY <1>2 DEF Alike
<1> QED BY <1>7, <1>8, GoesOn

LEMMA RequestsAreKept ==
  ASSUME BudgetsInv, NEW r \in Requests
  PROVE  req[r] \in Request /\ Kept(req[r]) /\ Pays(req[r]) /\ BudgetsTypeOK /\ squeezed \subseteq Shares
BY DEF BudgetsInv, BudgetsTypeOK

\* Zenon takes a Boolean field that is not true for FALSE.
LEMMA CountedOrNot ==
  ASSUME NEW q \in Request
  PROVE  q.counted = TRUE \/ q.counted = FALSE
<1>1. q.counted \in BOOLEAN
  BY DEF Request
<1> QED BY <1>1

LEMMA ReadersMove ==
  ASSUME NEW q \in Request, NEW a \in Nat, NEW b \in Nat, NEW c \in Nat
  PROVE  /\ [q EXCEPT !.read = a, !.moved = b] \in Request
         /\ [q EXCEPT !.checks = a, !.moved = b, !.owed = c] \in Request
BY DEF Request

LEMMA FreshIsARequest == Fresh \in Request /\ Kept(Fresh) /\ Pays(Fresh)
<1>1. "idle" \in Phases
  BY DEF Phases
<1> QED BY <1>1, BudgetLimits DEF Fresh, Request, Kept, Pays

(* The body's charge *)

LEMMA GetGoesOn ==
  ASSUME BudgetsInv, NEW r \in Requests, NEW s \in Shares, Get(r, s)
  PROVE  BudgetsInv'
<1> DEFINE p == [Fresh EXCEPT !.phase = "waiting", !.share = s]
<1>1. req[r].phase = "idle" /\ req' = [req EXCEPT ![r] = p] /\ UNCHANGED <<inVars, outVars>>
  BY DEF Get
<1>2. p \in Request
  BY FreshIsARequest DEF Request, Phases
<1>3. Kept(p) /\ Pays(p)
  BY NoneIsNoShare, BudgetLimits DEF Kept, Pays, Fresh
<1>4. Alike(p, req[r])
  BY <1>1, RequestsAreKept, CountedOrNot DEF Alike, Kept, Fresh
<1>5. UNCHANGED <<inVars, buffered, bufferedOf>> /\ squeezed' \subseteq Shares
  BY <1>1, RequestsAreKept DEF outVars
<1> QED BY <1>1, <1>2, <1>3, <1>4, <1>5, AlikeGoesOn

LEMMA ReceiveGoesOn ==
  ASSUME BudgetsInv, NEW r \in Requests, Receive(r)
  PROVE  BudgetsInv'
<1> DEFINE q == req[r]
           p == [q EXCEPT !.read = @ + 1, !.moved = @ + 1]
<1>1. req' = [req EXCEPT ![r] = p] /\ UNCHANGED <<inVars, outVars>>
  BY DEF Receive
<1>2. q \in Request /\ Kept(q) /\ Pays(q)
  BY RequestsAreKept
<1>3. p \in Request
  <2>1. q.read + 1 \in Nat /\ q.moved + 1 \in Nat
    BY <1>2 DEF Request
  <2> QED BY <1>2, <2>1, ReadersMove
<1>4. /\ p.phase = q.phase /\ p.share = q.share /\ p.claim = q.claim /\ p.charged = q.charged
      /\ p.counted = q.counted /\ p.len = q.len /\ p.watched = q.watched /\ p.checks = q.checks
      /\ p.owed = q.owed /\ p.read = q.read + 1 /\ p.moved = q.moved + 1
  BY <1>2 DEF Request
<1>5. Kept(p) /\ Alike(p, q)
  BY <1>2, <1>4 DEF Kept, Alike
<1>6. Pays(p)
  <2>1. q.read \in Nat /\ q.moved \in Nat /\ q.owed \in Nat /\ q.checks \in Nat
    BY <1>2 DEF Request
  <2>2. q.checks * PerCheck \in Nat
    BY <2>1, BudgetLimits
  <2> QED BY <1>2, <1>4, <2>1, <2>2 DEF Pays
<1>7. UNCHANGED <<inVars, buffered, bufferedOf>> /\ squeezed' \subseteq Shares
  BY <1>1, RequestsAreKept DEF outVars
<1> HIDE DEF p
<1> QED BY <1>1, <1>3, <1>5, <1>6, <1>7, AlikeGoesOn

LEMMA CompleteGoesOn ==
  ASSUME BudgetsInv, NEW r \in Requests, Complete(r)
  PROVE  BudgetsInv'
<1> DEFINE q == req[r]
           p == [Fresh EXCEPT !.phase = "parsing", !.share = q.share, !.claim = q.claim,
                              !.charged = q.charged, !.counted = TRUE]
<1>1. q.phase = "reading" /\ req' = [req EXCEPT ![r] = p] /\ UNCHANGED <<inVars, outVars>>
  BY DEF Complete
<1>2. q \in Request /\ Kept(q)
  BY RequestsAreKept
<1>3. p \in Request
  BY <1>2, FreshIsARequest DEF Request, Phases
<1>4. q.counted
  BY <1>1, <1>2 DEF Kept
<1>5. Kept(p) /\ Pays(p) /\ Alike(p, q)
  BY <1>1, <1>2, <1>4 DEF Kept, Pays, Alike, Fresh
<1>6. UNCHANGED <<inVars, buffered, bufferedOf>> /\ squeezed' \subseteq Shares
  BY <1>1, RequestsAreKept DEF outVars
<1> QED BY <1>1, <1>3, <1>5, <1>6, AlikeGoesOn

LEMMA BodyCheckGoesOn ==
  ASSUME BudgetsInv, NEW r \in Requests, BodyCheck(r)
  PROVE  BudgetsInv'
<1> DEFINE q == req[r]
           due == Owed(q)
           Done == [q EXCEPT !.watched = FALSE]
           On == [q EXCEPT !.checks = @ + 1, !.moved = 0, !.owed = due]
           Out == [Fresh EXCEPT !.phase = "sending", !.share = q.share, !.charged = q.charged,
                                !.counted = TRUE]
<1>1. q.watched /\ UNCHANGED <<inVars, outVars>>
  BY DEF BodyCheck
<1>2. q \in Request /\ Kept(q) /\ Pays(q)
  BY RequestsAreKept
<1>3. /\ q.read \in Nat /\ q.moved \in Nat /\ q.owed \in Nat /\ q.checks \in Nat
      /\ q.checks * PerCheck \in Nat /\ Strikes * PerCheck \in Nat /\ PerCheck \in Nat
  BY <1>2, BudgetLimits DEF Request
<1>4. due \in Nat
  BY <1>3 DEF Owed
<1>5. UNCHANGED <<inVars, buffered, bufferedOf>> /\ squeezed' \subseteq Shares
  BY <1>1, RequestsAreKept DEF outVars
<1>6. q.phase = "reading" /\ q.counted
  BY <1>1, <1>2 DEF Kept
<1>7. CASE req' = [req EXCEPT ![r] = Done]
  <2>1. Done \in Request
    BY <1>2 DEF Request
  <2>2. Kept(Done) /\ Pays(Done) /\ Alike(Done, q)
    BY <1>2 DEF Request, Kept, Pays, Alike
  <2> QED BY <1>5, <1>7, <2>1, <2>2, AlikeGoesOn
<1>8. CASE due < Strikes * PerCheck /\ req' = [req EXCEPT ![r] = On]
  <2>1. On \in Request
    <3>1. q.checks + 1 \in Nat /\ 0 \in Nat
      BY <1>3
    <3> QED BY <1>2, <1>4, <3>1, ReadersMove
  <2>2. /\ On.phase = q.phase /\ On.share = q.share /\ On.claim = q.claim /\ On.charged = q.charged
        /\ On.counted = q.counted /\ On.len = q.len /\ On.watched = q.watched /\ On.checks = q.checks + 1
        /\ On.owed = due /\ On.read = q.read /\ On.moved = 0
    BY <1>2 DEF Request
  <2>3. Kept(On) /\ Alike(On, q)
    BY <1>2, <2>2 DEF Kept, Alike
  <2>4. (q.checks + 1) * PerCheck = q.checks * PerCheck + PerCheck
    BY <1>3
  <2>5. q.checks * PerCheck + q.moved <= q.owed + q.read
    BY <1>1, <1>2 DEF Pays
  <2>6. q.checks * PerCheck + PerCheck <= due + q.read
    BY <1>3, <2>5 DEF Owed
  <2>7. Pays(On)
    BY <1>3, <1>8, <2>2, <2>4, <2>6 DEF Pays
  <2> HIDE DEF On
  <2> QED BY <1>5, <1>8, <2>1, <2>3, <2>7, AlikeGoesOn
<1>9. CASE req' = [req EXCEPT ![r] = Out]
  <2>1. Out \in Request
    BY <1>2, FreshIsARequest DEF Request, Phases
  <2>2. q.len = 0 /\ q.share # None
    BY <1>2, <1>6 DEF Kept
  <2>3. Kept(Out) /\ Pays(Out) /\ Alike(Out, q)
    BY <1>6, <2>2, BudgetLimits DEF Kept, Pays, Alike, Fresh
  <2> QED BY <1>5, <1>9, <2>1, <2>3, AlikeGoesOn
<1> QED BY <1>7, <1>8, <1>9 DEF BodyCheck

LEMMA ReuseGoesOn ==
  ASSUME BudgetsInv, NEW r \in Requests, Reuse(r)
  PROVE  BudgetsInv'
<1>1. /\ req[r].len = 0 /\ req[r].fired # {}
      /\ req' = [req EXCEPT ![r] = Fresh] /\ UNCHANGED <<inVars, outVars>>
  BY DEF Reuse
<1>2. Alike(Fresh, req[r])
  BY <1>1, RequestsAreKept, CountedOrNot DEF Kept, Alike, Fresh
<1>3. UNCHANGED <<inVars, buffered, bufferedOf>> /\ squeezed' \subseteq Shares
  BY <1>1, RequestsAreKept DEF outVars
<1> QED BY <1>1, <1>2, <1>3, FreshIsARequest, AlikeGoesOn

LEMMA DrainGoesOn ==
  ASSUME BudgetsInv, NEW r \in Requests, Drain(r)
  PROVE  BudgetsInv'
<1> DEFINE q == req[r]
           p == [q EXCEPT !.left = @ - 1, !.taken = TRUE]
<1>1. q.left > 0 /\ req' = [req EXCEPT ![r] = p] /\ UNCHANGED <<inVars, outVars>>
  BY DEF Drain
<1>2. q \in Request /\ Kept(q) /\ Pays(q)
  BY RequestsAreKept
<1>3. q.left \in Nat /\ q.left - 1 \in Nat
  BY <1>1, <1>2 DEF Request
<1>4. p \in Request
  BY <1>2, <1>3 DEF Request
<1>5. Kept(p) /\ Pays(p) /\ Alike(p, q)
  BY <1>2 DEF Request, Kept, Pays, Alike
<1>6. UNCHANGED <<inVars, buffered, bufferedOf>> /\ squeezed' \subseteq Shares
  BY <1>1, RequestsAreKept DEF outVars
<1> QED BY <1>1, <1>4, <1>5, <1>6, AlikeGoesOn

LEMMA AdmitGoesOn ==
  ASSUME BudgetsInv, NEW r \in Requests, NEW s \in Shares, NEW claim \in 0..Limit, Admit(r, s, claim)
  PROVE  BudgetsInv'
<1> DEFINE q == req[r]
           p == [Fresh EXCEPT !.phase = "reading", !.share = s, !.claim = claim,
                              !.charged = claim, !.counted = TRUE, !.watched = TRUE]
<1>1. /\ q.phase = "idle" /\ Admits(s, claim) /\ req' = [req EXCEPT ![r] = p]
      /\ inbound' = inbound + claim /\ inboundOf' = [inboundOf EXCEPT ![s] = @ + claim]
      /\ posts' = [posts EXCEPT ![s] = @ + 1] /\ UNCHANGED outVars
  BY DEF Admit
<1>2. q \in Request /\ Kept(q) /\ BudgetsTypeOK
  BY RequestsAreKept
<1>3. claim \in Nat /\ claim <= Limit
  BY BudgetLimits
<1>4. p \in Request
  BY <1>3, FreshIsARequest DEF Request, Phases
<1>5. /\ p.phase = "reading" /\ p.share = s /\ p.claim = claim /\ p.charged = claim /\ p.counted /\ p.watched
      /\ p.len = 0 /\ p.read = 0 /\ p.moved = 0 /\ p.owed = 0 /\ p.checks = 0 /\ p.fired = {}
  BY DEF Fresh
<1>6. Kept(p)
  BY <1>3, <1>5, NoneIsNoShare DEF Kept
<1>7. Pays(p)
  <2>1. 0 * PerCheck = 0 /\ 0 < Strikes * PerCheck
    BY BudgetLimits
  <2> QED BY <1>5, <2>1 DEF Pays
<1>8. q.share = None /\ ~q.counted /\ q.charged = 0 /\ q.len = 0
  BY <1>1, <1>2 DEF Kept
<1> HIDE DEF p
<1>9. Becomes(r, p)
  <2>1. /\ inbound \in Int /\ buffered \in Int /\ inboundOf \in [Shares -> Int]
        /\ bufferedOf \in [Shares -> Int] /\ posts \in [Shares -> Int]
    BY <1>2 DEF BudgetsTypeOK
  <2>2. buffered' = buffered /\ bufferedOf' = bufferedOf
    BY <1>1 DEF outVars
  <2>3. inbound' = inbound + p.charged - q.charged /\ buffered' = buffered + p.len - q.len
    BY SMT, <1>1, <1>3, <1>5, <1>8, <2>1, <2>2
  <2>4. inboundOf' \in [Shares -> Int] /\ bufferedOf' \in [Shares -> Int] /\ posts' \in [Shares -> Int]
    BY <1>1, <1>3, <2>1, <2>2
  <2>5. ASSUME NEW t \in Shares
        PROVE  /\ inboundOf'[t] = inboundOf[t] + Charge(p, t) - Charge(q, t)
               /\ bufferedOf'[t] = bufferedOf[t] + Held(p, t) - Held(q, t)
               /\ posts'[t] = posts[t] + Post(p, t) - Post(q, t)
    <3>1. Charge(q, t) = 0 /\ Held(q, t) = 0 /\ Post(q, t) = 0
      BY <1>8 DEF Charge, Held, Post
    <3>2. Charge(p, t) = (IF t = s THEN claim ELSE 0) /\ Held(p, t) = 0 /\ Post(p, t) = (IF t = s THEN 1 ELSE 0)
      BY <1>5 DEF Charge, Held, Post
    <3>3. inboundOf'[t] = inboundOf[t] + (IF t = s THEN claim ELSE 0)
      BY <1>1, <1>3, <2>1
    <3>4. posts'[t] = posts[t] + (IF t = s THEN 1 ELSE 0)
      BY <1>1, <2>1
    <3>5. inboundOf[t] \in Int /\ bufferedOf[t] \in Int /\ posts[t] \in Int
      BY <2>1
    <3> QED BY SMT, <1>3, <2>2, <3>1, <3>2, <3>3, <3>4, <3>5
  <2> QED BY <1>1, <1>4, <2>3, <2>4, <2>5 DEF Becomes
<1>10. squeezed' \subseteq Shares
  BY <1>1, RequestsAreKept DEF outVars
<1>11. BudgetsTypeOK' /\ req'[r] = p /\ \A o \in Requests \ {r} : req'[o] = req[o]
  BY <1>2, <1>9, <1>10, TypesGoOn
<1>12. ChargesAreExact'
  BY <1>6, <1>9, <1>10, ExactnessStays
<1>13. \A o \in Requests : Kept(req'[o]) /\ Pays(req'[o])
  BY <1>6, <1>7, <1>11 DEF BudgetsInv
<1> DEFINE F == ChargedTo(Shares \ Quiet)
           G == ChargedTo(Shares \ Quiet)'
           H == ChargedTo(Shares)'
<1>14. \A o \in Requests : req'[o].charged \in Nat /\ req[o].charged \in Nat
  BY <1>2, <1>11 DEF BudgetsTypeOK, Request
<1>15. F \in [Requests -> Nat] /\ G \in [Requests -> Nat] /\ H \in [Requests -> Nat]
  BY <1>14 DEF ChargedTo
<1>16. Sum(F) \in Nat /\ Sum(G) \in Nat /\ Sum(H) \in Nat
  BY <1>15, SumMoves
<1>17. ReserveIsKept' <=> Sum(G) <= MaxInbound - Reserve
  BY DEF ReserveIsKept, Sum
<1>18. CASE inboundOf[s] + claim <= Small
  \* A small body of a quiet share: what the others hold is as before.
  <2>1. \A t \in Shares : t # s => inboundOf'[t] = inboundOf[t]
    BY <1>1, <1>2 DEF BudgetsTypeOK
  <2>2. inboundOf'[s] = inboundOf[s] + claim /\ inboundOf[s] \in Int
    BY <1>1, <1>2, <1>3 DEF BudgetsTypeOK
  <2>3. s \in Quiet /\ s \in Quiet'
    BY SMT, <1>3, <1>18, <2>2, BudgetLimits DEF Quiet
  <2>4. Quiet' = Quiet
    BY <2>1, <2>3 DEF Quiet
  <2>5. ASSUME NEW o \in Requests PROVE G[o] <= F[o]
    <3>1. CASE o = r
      <4>1. G[o] = 0
        BY <1>5, <1>11, <2>3, <3>1 DEF ChargedTo
      <4> QED BY <1>15, <4>1
    <3>2. CASE o # r
      <4>1. req'[o] = req[o]
        BY <1>11, <3>2
      <4>2. G[o] = F[o]
        BY <2>4, <4>1 DEF ChargedTo
      <4>3. F[o] \in Nat
        BY <1>15
      <4> HIDE DEF F, G
      <4> QED BY <4>2, <4>3
    <3> QED BY <3>1, <3>2
  <2>6. Sum(G) <= Sum(F)
    BY <1>15, <2>5, SumIsAtMost
  <2>7. Sum(F) <= MaxInbound - Reserve
    BY DEF BudgetsInv, ReserveIsKept
  <2>8. ReserveIsKept'
    <3> HIDE DEF F, G
    <3> QED BY SMT, <1>16, <1>17, <2>6, <2>7, BudgetLimits
  <2> QED BY <1>11, <1>12, <1>13, <2>8 DEF BudgetsInv
<1>19. CASE ~(inboundOf[s] + claim <= Small)
  \* A large one, or one of a share that holds much: the reserve was left.
  <2>1. inbound + claim <= MaxInbound - Reserve
    BY <1>1, <1>19 DEF Admits, Ceiling
  <2>2. inbound' <= MaxInbound - Reserve
    BY <1>1, <2>1
  <2>3. inbound' = Sum(H)
    BY <1>12 DEF ChargesAreExact, Sum
  <2>4. ASSUME NEW o \in Requests PROVE G[o] <= H[o]
    BY <1>14 DEF ChargedTo
  <2>5. Sum(G) <= Sum(H)
    BY <1>15, <2>4, SumIsAtMost
  <2>6. ReserveIsKept'
    <3> HIDE DEF H, G
    <3> QED BY SMT, <1>16, <1>17, <2>2, <2>3, <2>5, BudgetLimits
  <2> QED BY <1>11, <1>12, <1>13, <2>6 DEF BudgetsInv
<1> QED BY <1>18, <1>19

LEMMA ParsedGoesOn ==
  ASSUME BudgetsInv, NEW r \in Requests, NEW actual \in 0..Limit, Parsed(r, actual)
  PROVE  BudgetsInv'
<1> DEFINE q == req[r]
           p == [q EXCEPT !.phase = "waiting", !.claim = 0, !.charged = actual]
           o == [q EXCEPT !.phase = "waiting", !.claim = 0]
<1>1. /\ q.phase = "parsing" /\ (q.claim < Limit => actual \in {0, q.claim})
      /\ UNCHANGED <<posts, outVars>>
  BY DEF Parsed
<1>2. q \in Request /\ Kept(q) /\ BudgetsTypeOK
  BY RequestsAreKept
<1>3. actual \in Nat /\ actual <= Limit
  BY BudgetLimits
<1>4. p \in Request /\ o \in Request
  BY <1>2, <1>3 DEF Request, Phases
<1>5. squeezed' \subseteq Shares
  BY <1>1, RequestsAreKept DEF outVars
<1>6. ~q.watched /\ q.len = 0 /\ q.share # None /\ q.claim <= Limit
  BY <1>1, <1>2 DEF Kept
<1>7. CASE q.counted
  <2>1. q.charged = q.claim /\ q.charged \in Nat
    BY <1>1, <1>2, <1>7 DEF Kept, Request
  <2>2. actual <= q.charged
    BY SMT, <1>1, <1>3, <1>6, <2>1, BudgetLimits
  <2>3. /\ inbound' = inbound + (actual - q.charged)
        /\ inboundOf' = [inboundOf EXCEPT ![q.share] = @ + (actual - q.charged)]
        /\ req' = [req EXCEPT ![r] = p]
    BY <1>7 DEF Parsed, Settles, Recharge
  <2>4. /\ p.phase = "waiting" /\ p.share = q.share /\ p.charged = actual /\ p.len = q.len /\ p.counted = q.counted
        /\ p.watched = q.watched /\ p.claim = 0 /\ p.fired = q.fired
    BY <1>2 DEF Request
  <2>5. Kept(p) /\ Pays(p)
    BY <1>2, <1>6, <1>7, <2>4, BudgetLimits DEF Kept, Pays
  <2> HIDE DEF p
  <2>6. Becomes(r, p)
    <3>1. /\ inbound \in Int /\ buffered \in Int /\ inboundOf \in [Shares -> Int]
          /\ bufferedOf \in [Shares -> Int] /\ posts \in [Shares -> Int]
      BY <1>2 DEF BudgetsTypeOK
    <3>2. buffered' = buffered /\ bufferedOf' = bufferedOf /\ posts' = posts
      BY <1>1 DEF outVars
    <3>3. inbound' = inbound + p.charged - q.charged /\ buffered' = buffered + p.len - q.len
      BY SMT, <1>3, <1>6, <2>1, <2>3, <2>4, <3>1, <3>2
    <3>4. inboundOf' \in [Shares -> Int]
      <4>1. actual - q.charged \in Int /\ q.share \in Shares
        BY <1>2, <1>3, <1>6, <2>1 DEF Request
      <4>2. inboundOf[q.share] + (actual - q.charged) \in Int
        BY <3>1, <4>1
      <4> QED BY <2>3, <3>1, <4>2
    <3>5. ASSUME NEW t \in Shares
          PROVE  /\ inboundOf'[t] = inboundOf[t] + Charge(p, t) - Charge(q, t)
                 /\ bufferedOf'[t] = bufferedOf[t] + Held(p, t) - Held(q, t)
                 /\ posts'[t] = posts[t] + Post(p, t) - Post(q, t)
      <4>1. Held(p, t) = Held(q, t) /\ Held(q, t) \in Nat /\ Post(p, t) = Post(q, t) /\ Post(q, t) \in Nat
        BY <1>6, <2>4 DEF Held, Post
      <4>2. Charge(p, t) = (IF q.share = t THEN actual ELSE 0)
            /\ Charge(q, t) = (IF q.share = t THEN q.charged ELSE 0)
        BY <2>4 DEF Charge
      <4>3. inboundOf'[t] = inboundOf[t] + (IF q.share = t THEN actual - q.charged ELSE 0)
        BY <1>3, <2>1, <2>3, <3>1
      <4>4. inboundOf[t] \in Int /\ bufferedOf[t] \in Int /\ posts[t] \in Int
        BY <3>1
      <4> QED BY SMT, <1>3, <2>1, <3>2, <4>1, <4>2, <4>3, <4>4
    <3> QED BY <1>4, <2>3, <3>1, <3>2, <3>3, <3>4, <3>5 DEF Becomes
  <2> QED BY <1>5, <2>2, <2>4, <2>5, <2>6, GoesOn
<1>8. CASE ~q.counted
  <2>1. req' = [req EXCEPT ![r] = o] /\ UNCHANGED <<inbound, inboundOf>>
    BY <1>8 DEF Parsed, Settles
  <2>2. UNCHANGED <<inVars, buffered, bufferedOf>>
    BY <1>1, <2>1 DEF inVars, outVars
  <2>3. Kept(o) /\ Pays(o) /\ Alike(o, q)
    BY <1>2, <1>6, <1>8, BudgetLimits DEF Request, Kept, Pays, Alike
  <2> QED BY <1>4, <1>5, <2>1, <2>2, <2>3, AlikeGoesOn
<1> QED BY <1>7, <1>8

(* The answer's charge, and the end of a request *)

\* A request of a share that has no more of its body's charge than before: the
\* counters of that share move by what it has less, or more.
LEMMA MovesOn ==
  ASSUME BudgetsInv, NEW r \in Requests, NEW p \in Request, Kept(p), Pays(p), squeezed' \subseteq Shares,
         p.share = req[r].share, p.charged <= req[r].charged,
         req' = [req EXCEPT ![r] = p],
         inbound' = inbound + p.charged - req[r].charged,
         buffered' = buffered + p.len - req[r].len,
         inboundOf' \in [Shares -> Int], bufferedOf' \in [Shares -> Int], posts' \in [Shares -> Int],
         \A s \in Shares : inboundOf'[s] = inboundOf[s] + (IF s = p.share THEN p.charged - req[r].charged ELSE 0),
         \A s \in Shares : bufferedOf'[s] = bufferedOf[s] + (IF s = p.share THEN p.len - req[r].len ELSE 0),
         \A s \in Shares : posts'[s] = posts[s] + Post(p, s) - Post(req[r], s)
  PROVE  BudgetsInv'
<1>1. req[r] \in Request /\ BudgetsTypeOK
  BY RequestsAreKept
<1>2. p.charged \in Nat /\ p.len \in Nat /\ req[r].charged \in Nat /\ req[r].len \in Nat
  BY <1>1 DEF Request
<1>3. ASSUME NEW s \in Shares
      PROVE  /\ inboundOf'[s] = inboundOf[s] + Charge(p, s) - Charge(req[r], s)
             /\ bufferedOf'[s] = bufferedOf[s] + Held(p, s) - Held(req[r], s)
  <2>1. inboundOf[s] \in Int /\ bufferedOf[s] \in Int
    BY <1>1 DEF BudgetsTypeOK
  <2>2. CASE s = p.share
    <3>1. /\ Charge(p, s) = p.charged /\ Charge(req[r], s) = req[r].charged
          /\ Held(p, s) = p.len /\ Held(req[r], s) = req[r].len
      BY <2>2 DEF Charge, Held
    <3> QED BY SMT, <1>2, <2>1, <2>2, <3>1
  <2>3. CASE s # p.share
    <3>1. Charge(p, s) = 0 /\ Charge(req[r], s) = 0 /\ Held(p, s) = 0 /\ Held(req[r], s) = 0
      BY <2>3 DEF Charge, Held
    <3> QED BY SMT, <2>1, <2>3, <3>1
  <2> QED BY <2>2, <2>3
<1>4. Becomes(r, p)
  BY <1>3 DEF Becomes
<1> QED BY <1>4, GoesOn

LEMMA AnswerGoesOn ==
  ASSUME BudgetsInv, NEW r \in Requests, NEW len \in Lengths, Answer(r, len)
  PROVE  BudgetsInv'
<1> DEFINE q == req[r]
           p == [q EXCEPT !.phase = "sending", !.len = len, !.left = len]
           o == [q EXCEPT !.phase = "sending"]
<1>1. q.phase = "waiting" /\ UNCHANGED inVars
  BY DEF Answer
<1>2. q \in Request /\ Kept(q) /\ BudgetsTypeOK /\ squeezed \subseteq Shares
  BY RequestsAreKept
<1>3. len \in Nat
  BY LimitsAreNatural
<1>4. p \in Request /\ o \in Request
  BY <1>2, <1>3 DEF Request, Phases
<1>5. ~q.watched /\ q.len = 0 /\ q.share \in Shares
  BY <1>1, <1>2 DEF Kept, Request
<1>6. CASE Holds(q.share, len)
  <2>1. /\ req' = [req EXCEPT ![r] = p] /\ buffered' = buffered + len
        /\ bufferedOf' = [bufferedOf EXCEPT ![q.share] = @ + len] /\ squeezed' = squeezed
    BY <1>6 DEF Answer
  <2>2. /\ p.phase = "sending" /\ p.share = q.share /\ p.charged = q.charged /\ p.len = len
        /\ p.counted = q.counted /\ p.watched = q.watched /\ p.claim = q.claim /\ p.fired = q.fired
    BY <1>2 DEF Request
  <2>3. Kept(p) /\ Pays(p)
    BY <1>1, <1>2, <1>5, <2>2 DEF Kept, Pays
  <2>4. /\ inbound \in Int /\ buffered \in Int /\ inboundOf \in [Shares -> Int]
        /\ bufferedOf \in [Shares -> Int] /\ posts \in [Shares -> Int] /\ q.charged \in Nat
    BY <1>2 DEF BudgetsTypeOK, Request
  <2>5. inbound' = inbound /\ inboundOf' = inboundOf /\ posts' = posts
    BY <1>1 DEF inVars
  <2> HIDE DEF p
  <2>6. /\ inbound' = inbound + p.charged - q.charged /\ buffered' = buffered + p.len - q.len
        /\ p.charged <= q.charged
    BY SMT, <1>3, <1>5, <2>1, <2>2, <2>4, <2>5
  <2>7. bufferedOf' \in [Shares -> Int]
    <3>1. bufferedOf[q.share] + len \in Int
      BY <1>3, <1>5, <2>4
    <3> QED BY <2>1, <2>4, <3>1
  <2>8. ASSUME NEW s \in Shares
        PROVE  /\ inboundOf'[s] = inboundOf[s] + (IF s = p.share THEN p.charged - q.charged ELSE 0)
               /\ bufferedOf'[s] = bufferedOf[s] + (IF s = p.share THEN p.len - q.len ELSE 0)
               /\ posts'[s] = posts[s] + Post(p, s) - Post(q, s)
    <3>1. inboundOf[s] \in Int /\ bufferedOf[s] \in Int /\ posts[s] \in Int
      BY <2>4
    <3>2. Post(p, s) = Post(q, s) /\ Post(q, s) \in Nat
      BY <2>2 DEF Post
    <3>3. bufferedOf'[s] = bufferedOf[s] + (IF s = q.share THEN len ELSE 0)
      BY <1>3, <2>1, <2>4
    <3> QED BY SMT, <1>3, <1>5, <2>2, <2>4, <2>5, <3>1, <3>2, <3>3
  <2> QED BY <1>2, <1>4, <2>1, <2>2, <2>3, <2>4, <2>5, <2>6, <2>7, <2>8, MovesOn
<1>7. CASE ~Holds(q.share, len)
  <2>1. /\ req' = [req EXCEPT ![r] = o] /\ UNCHANGED <<buffered, bufferedOf>>
        /\ squeezed' = IF bufferedOf[q.share] > 0 THEN squeezed \cup {q.share} ELSE squeezed
    BY <1>7 DEF Answer
  <2>2. squeezed' \subseteq Shares
    BY <1>2, <1>5, <2>1
  <2>3. Kept(o) /\ Pays(o) /\ Alike(o, q)
    BY <1>1, <1>2, <1>5 DEF Request, Kept, Pays, Alike
  <2> QED BY <1>1, <1>4, <2>1, <2>2, <2>3, AlikeGoesOn
<1> QED BY <1>6, <1>7

\* What GiveBack leaves.
LEMMA GivenBack ==
  ASSUME BudgetsTypeOK, NEW s \in Shares, NEW len \in Nat, GiveBack(s, len)
  PROVE  /\ buffered' = buffered + 0 - len /\ bufferedOf' \in [Shares -> Int]
         /\ \A t \in Shares : bufferedOf'[t] = bufferedOf[t] + (IF t = s THEN 0 - len ELSE 0)
         /\ squeezed' \subseteq Shares
<1>1. buffered \in Int /\ bufferedOf \in [Shares -> Int] /\ squeezed \subseteq Shares
  BY DEF BudgetsTypeOK
<1>2. buffered' = buffered - len /\ bufferedOf' = [bufferedOf EXCEPT ![s] = @ - len]
  BY DEF GiveBack
<1>3. squeezed' \subseteq squeezed
  BY DEF GiveBack
<1>4. bufferedOf[s] - len \in Int
  BY <1>1
<1>5. bufferedOf' \in [Shares -> Int]
  BY <1>1, <1>2, <1>4
<1>6. ASSUME NEW t \in Shares
      PROVE  bufferedOf'[t] = bufferedOf[t] + (IF t = s THEN 0 - len ELSE 0)
  BY <1>1, <1>2
<1> QED BY <1>1, <1>2, <1>3, <1>5, <1>6

LEMMA PaidIsARequest ==
  ASSUME NEW q \in Request
  PROVE  /\ Paid(q) \in Request
         /\ Paid(q).phase = q.phase /\ Paid(q).share = q.share /\ Paid(q).claim = q.claim
         /\ Paid(q).charged = q.charged /\ Paid(q).counted = q.counted /\ Paid(q).watched = q.watched
         /\ Paid(q).fired = q.fired /\ Paid(q).len = 0
BY DEF Paid, Request

LEMMA AnswerCheckGoesOn ==
  ASSUME BudgetsInv, NEW r \in Requests, AnswerCheck(r)
  PROVE  BudgetsInv'
<1> DEFINE q == req[r]
           p == Paid(q)
           strikes == IF q.taken THEN 0 ELSE IF q.strikes < Strikes THEN q.strikes + 1 ELSE q.strikes
           cut == ~q.taken /\ q.strikes + 1 >= StrikeLimit(q.share)
           o == [q EXCEPT !.taken = FALSE, !.strikes = strikes, !.cut = cut]
<1>1. q.len > 0 /\ UNCHANGED inVars
  BY DEF AnswerCheck
<1>2. q \in Request /\ Kept(q) /\ Pays(q) /\ BudgetsTypeOK /\ squeezed \subseteq Shares
  BY RequestsAreKept
<1>3. q.phase = "sending" /\ ~q.watched /\ q.share \in Shares /\ q.len \in Nat
  BY <1>1, <1>2 DEF Kept, Request
<1>4. CASE IsDone(q)
  <2>1. req' = [req EXCEPT ![r] = p] /\ GiveBack(q.share, q.len)
    BY <1>4 DEF AnswerCheck
  <2>2. /\ p \in Request
        /\ p.phase = q.phase /\ p.share = q.share /\ p.claim = q.claim /\ p.charged = q.charged
        /\ p.counted = q.counted /\ p.watched = q.watched /\ p.fired = q.fired /\ p.len = 0
    BY <1>2, PaidIsARequest
  <2>3. Kept(p) /\ Pays(p)
    BY <1>2, <1>3, <2>2 DEF Kept, Pays
  <2>4. /\ inbound \in Int /\ inboundOf \in [Shares -> Int] /\ posts \in [Shares -> Int] /\ q.charged \in Nat
    BY <1>2 DEF BudgetsTypeOK, Request
  <2>5. inbound' = inbound /\ inboundOf' = inboundOf /\ posts' = posts
    BY <1>1 DEF inVars
  <2>6. /\ buffered' = buffered + 0 - q.len /\ bufferedOf' \in [Shares -> Int]
        /\ \A t \in Shares : bufferedOf'[t] = bufferedOf[t] + (IF t = q.share THEN 0 - q.len ELSE 0)
        /\ squeezed' \subseteq Shares
    BY <1>2, <1>3, <2>1, GivenBack
  <2> HIDE DEF p
  <2>7. /\ inbound' = inbound + p.charged - q.charged /\ p.charged <= q.charged
        /\ buffered' = buffered + p.len - q.len
    BY SMT, <2>2, <2>4, <2>5, <2>6
  <2>8. ASSUME NEW s \in Shares
        PROVE  /\ inboundOf'[s] = inboundOf[s] + (IF s = p.share THEN p.charged - q.charged ELSE 0)
               /\ bufferedOf'[s] = bufferedOf[s] + (IF s = p.share THEN p.len - q.len ELSE 0)
               /\ posts'[s] = posts[s] + Post(p, s) - Post(q, s)
    <3>1. inboundOf[s] \in Int /\ posts[s] \in Int
      BY <2>4
    <3>2. Post(p, s) = Post(q, s) /\ Post(q, s) \in Nat
      BY <2>2 DEF Post
    <3> QED BY SMT, <2>2, <2>4, <2>5, <2>6, <3>1, <3>2
  <2> QED BY <1>2, <2>1, <2>2, <2>3, <2>4, <2>5, <2>6, <2>7, <2>8, MovesOn
<1>5. CASE ~IsDone(q)
  <2>1. req' = [req EXCEPT ![r] = o] /\ UNCHANGED outVars
    BY <1>5 DEF AnswerCheck
  <2>2. strikes \in Nat /\ cut \in BOOLEAN
    BY <1>2 DEF Request
  <2> HIDE DEF strikes, cut
  <2>3. o \in Request
    BY <1>2, <2>2 DEF Request
  <2>4. Kept(o) /\ Pays(o) /\ Alike(o, q)
    BY <1>2 DEF Request, Kept, Pays, Alike
  <2>5. UNCHANGED <<inVars, buffered, bufferedOf>> /\ squeezed' \subseteq Shares
    BY <1>1, <1>2, <2>1 DEF outVars
  <2> QED BY <2>1, <2>3, <2>4, <2>5, AlikeGoesOn
<1> QED BY <1>4, <1>5

LEMMA EndsGoesOn ==
  ASSUME BudgetsInv, NEW r \in Requests, NEW event \in {"finish", "close", "socket"}, Ends(r, event)
  PROVE  BudgetsInv'
<1> DEFINE q == req[r]
           m == IF event = "socket" THEN q ELSE Paid(q)
           now == IF m.phase = "reading" THEN "parsing" ELSE m.phase
           p == [m EXCEPT !.fired = @ \cup {event}, !.charged = 0, !.counted = FALSE, !.watched = FALSE,
                          !.read = 0, !.moved = 0, !.owed = 0, !.checks = 0, !.phase = now]
<1>1. /\ q.phase # "idle" /\ ReleaseBody(r)
      /\ IF event = "socket" THEN UNCHANGED outVars ELSE ReleaseAnswer(r)
      /\ req' = [req EXCEPT ![r] = p]
  BY DEF Ends
<1>2. q \in Request /\ Kept(q) /\ BudgetsTypeOK /\ squeezed \subseteq Shares
  BY RequestsAreKept
<1>3. q.share \in Shares /\ q.charged \in Nat /\ q.len \in Nat
  BY <1>1, <1>2 DEF Kept, Request
<1>4. /\ m \in Request /\ m.phase = q.phase /\ m.share = q.share /\ m.claim = q.claim
      /\ m.len = (IF event = "socket" THEN q.len ELSE 0)
  BY <1>2, PaidIsARequest
<1>5. now \in Phases /\ m.fired \cup {event} \in SUBSET {"finish", "close", "socket"}
  BY <1>4 DEF Request, Phases
<1>6. now # "reading" /\ (now = "sending" <=> q.phase = "sending") /\ now # "idle"
  BY <1>1, <1>4
<1> HIDE DEF m, now
<1>7. p \in Request
  BY <1>4, <1>5 DEF Request
<1>8. /\ p.phase = now /\ p.share = q.share /\ p.claim = q.claim /\ p.charged = 0 /\ p.counted = FALSE
      /\ p.watched = FALSE /\ p.len = (IF event = "socket" THEN q.len ELSE 0)
  BY <1>4 DEF Request
<1> HIDE DEF p
<1>9. Kept(p) /\ Pays(p)
  BY <1>1, <1>2, <1>6, <1>8 DEF Kept, Pays
<1>10. /\ inbound \in Int /\ buffered \in Int /\ inboundOf \in [Shares -> Int]
       /\ bufferedOf \in [Shares -> Int] /\ posts \in [Shares -> Int]
  BY <1>2 DEF BudgetsTypeOK
\* The body's charge is given back, or was.
<1>11. /\ inbound' = inbound + 0 - q.charged /\ inboundOf' \in [Shares -> Int] /\ posts' \in [Shares -> Int]
       /\ \A s \in Shares : inboundOf'[s] = inboundOf[s] + (IF s = q.share THEN 0 - q.charged ELSE 0)
       /\ \A s \in Shares : posts'[s] = posts[s] + Post(p, s) - Post(q, s)
  <2>1. CASE q.counted
    <3>1. /\ inbound' = inbound + (0 - q.charged)
          /\ inboundOf' = [inboundOf EXCEPT ![q.share] = @ + (0 - q.charged)]
          /\ posts' = [posts EXCEPT ![q.share] = @ - 1]
      BY <1>1, <2>1 DEF ReleaseBody, ReleasesOnce, Recharge
    <3>2. inbound' = inbound + 0 - q.charged
      BY SMT, <1>3, <1>10, <3>1
    <3>3. inboundOf' \in [Shares -> Int] /\ posts' \in [Shares -> Int]
      <4>1. inboundOf[q.share] + (0 - q.charged) \in Int /\ posts[q.share] - 1 \in Int
        BY <1>3, <1>10
      <4> QED BY <1>10, <3>1, <4>1
    <3>4. ASSUME NEW s \in Shares
          PROVE  /\ inboundOf'[s] = inboundOf[s] + (IF s = q.share THEN 0 - q.charged ELSE 0)
                 /\ posts'[s] = posts[s] + Post(p, s) - Post(q, s)
      <4>1. inboundOf'[s] = inboundOf[s] + (IF s = q.share THEN 0 - q.charged ELSE 0)
        BY <1>3, <1>10, <3>1
      <4>2. posts'[s] = (IF s = q.share THEN posts[s] - 1 ELSE posts[s])
        BY <1>10, <3>1
      <4>3. Post(p, s) = 0 /\ Post(q, s) = (IF s = q.share THEN 1 ELSE 0)
        BY <1>8, <2>1 DEF Post
      <4>4. posts[s] \in Int
        BY <1>10
      <4> QED BY SMT, <4>1, <4>2, <4>3, <4>4
    <3> QED BY <3>2, <3>3, <3>4
  <2>2. CASE ~q.counted
    <3>1. inbound' = inbound /\ inboundOf' = inboundOf /\ posts' = posts /\ q.charged = 0
      BY <1>1, <1>2, <2>2 DEF ReleaseBody, ReleasesOnce, inVars, Kept
    <3>2. \A s \in Shares : Post(p, s) = 0 /\ Post(q, s) = 0 /\ posts[s] \in Int /\ inboundOf[s] \in Int
      BY <1>8, <1>10, <2>2 DEF Post
    <3> QED BY SMT, <1>10, <3>1, <3>2
  <2> QED BY <2>1, <2>2
\* So is the answer's, unless only the socket told.
<1>12. /\ buffered' = buffered + p.len - q.len /\ bufferedOf' \in [Shares -> Int]
       /\ \A s \in Shares : bufferedOf'[s] = bufferedOf[s] + (IF s = q.share THEN p.len - q.len ELSE 0)
       /\ squeezed' \subseteq Shares
  <2>1. CASE event # "socket" /\ q.len > 0
    <3>1. GiveBack(q.share, q.len) /\ p.len = 0
      BY <1>1, <1>8, <2>1 DEF ReleaseAnswer
    <3> QED BY <1>2, <1>3, <3>1, GivenBack
  <2>2. CASE ~(event # "socket" /\ q.len > 0)
    <3>1. buffered' = buffered /\ bufferedOf' = bufferedOf /\ squeezed' = squeezed
      BY <1>1, <2>2 DEF ReleaseAnswer, outVars
    <3>2. p.len = q.len
      BY SMT, <1>3, <1>8, <2>2
    <3>3. \A s \in Shares : bufferedOf[s] \in Int
      BY <1>10
    <3> QED BY SMT, <1>2, <1>3, <1>10, <3>1, <3>2, <3>3
  <2> QED BY <2>1, <2>2
<1>13. /\ p.charged <= q.charged /\ inbound' = inbound + p.charged - q.charged
       /\ \A s \in Shares : inboundOf'[s] = inboundOf[s] + (IF s = p.share THEN p.charged - q.charged ELSE 0)
       /\ \A s \in Shares : bufferedOf'[s] = bufferedOf[s] + (IF s = p.share THEN p.len - q.len ELSE 0)
  BY SMT, <1>3, <1>8, <1>11, <1>12
<1> QED BY <1>1, <1>7, <1>8, <1>9, <1>11, <1>12, <1>13, MovesOn

LEMMA OnlySqueezed ==
  ASSUME BudgetsInv, UNCHANGED <<req, inbound, inboundOf, posts, buffered, bufferedOf>>,
         squeezed' \subseteq Shares
  PROVE  BudgetsInv'
<1>1. BudgetsTypeOK'
  BY DEF BudgetsInv, BudgetsTypeOK
<1>2. ChargesAreExact'
  <2>1. ChargesAreExact
    BY DEF BudgetsInv
  <2>2. Sum(ChargedTo(Shares))' = Sum(ChargedTo(Shares)) /\ Sum(HeldFor(Shares))' = Sum(HeldFor(Shares))
    BY DEF ChargedTo, HeldFor, Sum
  <2>3. ASSUME NEW s \in Shares
        PROVE  Sum(ChargedTo({s}))' = Sum(ChargedTo({s})) /\ Sum(HeldFor({s}))' = Sum(HeldFor({s}))
    BY DEF ChargedTo, HeldFor, Sum
  <2> QED BY <2>1, <2>2, <2>3 DEF ChargesAreExact
<1>3. ReserveIsKept'
  <2>1. ReserveIsKept
    BY DEF BudgetsInv
  <2> QED BY <2>1 DEF ReserveIsKept, Quiet, ChargedTo, Sum
<1>4. (\A r \in Requests : Kept(req[r]) /\ Pays(req[r]))'
  BY DEF BudgetsInv
<1> QED BY <1>1, <1>2, <1>3, <1>4 DEF BudgetsInv

LEMMA UnsqueezeGoesOn ==
  ASSUME BudgetsInv, NEW s \in Shares, Unsqueeze(s)
  PROVE  BudgetsInv'
<1>1. /\ UNCHANGED <<req, inbound, inboundOf, posts, buffered, bufferedOf>>
      /\ squeezed' \subseteq squeezed
  BY DEF Unsqueeze, inVars
<1>2. squeezed \subseteq Shares
  BY DEF BudgetsInv, BudgetsTypeOK
<1> QED BY <1>1, <1>2, OnlySqueezed

(* What follows *)

LEMMA BudgetsStart == BudgetsInit => BudgetsInv
<1> SUFFICES ASSUME BudgetsInit PROVE BudgetsInv
  OBVIOUS
<1>1. \A r \in Requests : req[r] = Fresh
  BY DEF BudgetsInit
<1>2. \A r \in Requests : req[r].charged = 0 /\ req[r].len = 0 /\ req[r].counted = FALSE
  BY <1>1 DEF Fresh
<1>3. BudgetsTypeOK
  BY FreshIsARequest DEF BudgetsInit, BudgetsTypeOK
<1>4. ASSUME NEW S PROVE Sum(ChargedTo(S)) = 0 /\ Sum(HeldFor(S)) = 0
  <2>1. \A r \in Requests : ChargedTo(S)[r] = 0 /\ HeldFor(S)[r] = 0
    BY <1>2 DEF ChargedTo, HeldFor
  <2> QED BY <2>1, SumOfNothing
<1>5. ASSUME NEW s \in Shares PROVE Cardinality({r \in Requests : req[r].share = s /\ req[r].counted}) = 0
  <2>1. {r \in Requests : req[r].share = s /\ req[r].counted} = {}
    BY <1>2
  <2> QED BY <2>1, FS_EmptySet
<1>6. ChargesAreExact
  BY <1>4, <1>5 DEF ChargesAreExact, BudgetsInit
<1>7. ReserveIsKept
  BY <1>4, BudgetLimits DEF ReserveIsKept
<1>8. \A r \in Requests : Kept(req[r]) /\ Pays(req[r])
  BY <1>1, FreshIsARequest
<1> QED BY <1>3, <1>6, <1>7, <1>8 DEF BudgetsInv

LEMMA BudgetsGoOn == BudgetsInv /\ [BudgetsNext]_budgetsVars => BudgetsInv'
<1> SUFFICES ASSUME BudgetsInv, [BudgetsNext]_budgetsVars PROVE BudgetsInv'
  OBVIOUS
<1>1. ASSUME NEW r \in Requests, Viewer(r) PROVE BudgetsInv'
  <2>1. ASSUME NEW s \in Shares, Get(r, s) PROVE BudgetsInv'
    BY <2>1, GetGoesOn
  <2>2. ASSUME NEW s \in Shares, NEW claim \in 0..Limit, Admit(r, s, claim) PROVE BudgetsInv'
    BY <2>2, AdmitGoesOn
  <2>3. CASE HangUp(r)
    BY <2>3, EndsGoesOn DEF HangUp
  <2> QED BY <1>1, <2>1, <2>2, <2>3, ReceiveGoesOn, CompleteGoesOn, DrainGoesOn DEF Viewer
<1>2. ASSUME NEW r \in Requests, Relay(r) PROVE BudgetsInv'
  <2>1. ASSUME NEW actual \in 0..Limit, Parsed(r, actual) PROVE BudgetsInv'
    BY <2>1, ParsedGoesOn
  <2>2. ASSUME NEW len \in Lengths, Answer(r, len) PROVE BudgetsInv'
    BY <2>2, AnswerGoesOn
  <2>3. CASE Finish(r) \/ ArrivalTimeout(r) \/ CutCloses(r)
    BY <2>3, EndsGoesOn DEF Finish, ArrivalTimeout, CutCloses
  <2> QED BY <1>2, <2>1, <2>2, <2>3, BodyCheckGoesOn, AnswerCheckGoesOn, ReuseGoesOn DEF Relay
<1>3. CASE UNCHANGED budgetsVars
  <2>1. UNCHANGED <<req, inbound, inboundOf, posts, buffered, bufferedOf, squeezed>>
    BY <1>3 DEF budgetsVars
  <2>2. squeezed \subseteq Shares
    BY DEF BudgetsInv, BudgetsTypeOK
  <2> QED BY <2>1, <2>2, OnlySqueezed
<1> QED BY <1>1, <1>2, <1>3, UnsqueezeGoesOn DEF BudgetsNext

LEMMA QuietSharesGetIn ==
  ASSUME BudgetsInv
  PROVE  QuietShareGetsIn
<1> SUFFICES ASSUME NEW s \in Shares, NEW claim \in 0..Small,
                    posts[s] < MaxPosts, inboundOf[s] + claim <= Small,
                    Sum(ChargedTo(Quiet)) + claim <= Reserve
             PROVE  Admits(s, claim)
  BY DEF QuietShareGetsIn
<1> DEFINE A == ChargedTo(Shares)
           F == ChargedTo(Quiet)
           G == ChargedTo(Shares \ Quiet)
<1>1. A \in [Requests -> Nat] /\ F \in [Requests -> Nat] /\ G \in [Requests -> Nat]
  BY SumsAreTyped DEF BudgetsInv
<1>2. Sum(A) \in Nat /\ Sum(F) \in Nat /\ Sum(G) \in Nat
  <2>1. ASSUME NEW h \in [Requests -> Nat] PROVE Sum(h) \in Nat
    BY <1>1, UnitsAreFinite, FS_CardinalityType DEF Sum, Units
  <2> QED BY <1>1, <2>1
<1>3. ASSUME NEW r \in Requests PROVE A[r] <= F[r] \/ A[r] <= G[r]
  <2>1. req[r].charged \in Nat
    BY DEF BudgetsInv, BudgetsTypeOK, Request
  <2> QED BY <2>1 DEF ChargedTo
<1>4. Sum(A) <= Sum(F) + Sum(G)
  BY <1>1, <1>3, SumIsShared
<1>5. inbound = Sum(A) /\ Sum(G) <= MaxInbound - Reserve
  BY DEF BudgetsInv, ChargesAreExact, ReserveIsKept
<1>6. claim \in Nat
  BY BudgetLimits
<1> HIDE DEF A, F, G
<1>7. Sum(F) + claim <= Reserve
  BY DEF F
<1>8. inbound + claim <= MaxInbound
  BY SMT, <1>2, <1>4, <1>5, <1>6, <1>7, BudgetLimits
<1>9. inboundOf[s] + claim <= ShareInbound
  <2>1. inboundOf[s] \in Int
    BY DEF BudgetsInv, BudgetsTypeOK
  <2> QED BY SMT, <2>1, <1>6, BudgetLimits
<1> QED BY <1>8, <1>9 DEF Admits, Ceiling

LEMMA ArrivingBodiesPay ==
  ASSUME BudgetsInv
  PROVE  ArrivingBodyPays
<1> SUFFICES ASSUME NEW r \in Requests, req[r].watched
             PROVE  req[r].checks * PerCheck - req[r].read < Strikes * PerCheck
  BY DEF ArrivingBodyPays
<1>1. req[r] \in Request /\ Pays(req[r])
  BY RequestsAreKept
<1>2. /\ req[r].read \in Nat /\ req[r].moved \in Nat /\ req[r].owed \in Nat /\ req[r].checks \in Nat
      /\ req[r].checks * PerCheck \in Nat /\ Strikes * PerCheck \in Nat
  BY <1>1, BudgetLimits DEF Request
<1> QED BY <1>1, <1>2 DEF Pays

\* What requests are charged is exact, paid for while a body arrives and leaves quiet
\* shares the reserve, whatever viewers do and in whichever order parser, answer,
\* watches and sockets end (proxy/adapter.ts:842).
THEOREM ChargesStaySound == BudgetsSpec => []ChargesAreSound
<1>1. BudgetsInv => ChargesAreSound
  BY QuietSharesGetIn, ArrivingBodiesPay DEF ChargesAreSound, BudgetsInv
<1> QED BY <1>1, BudgetsStart, BudgetsGoOn, PTL DEF BudgetsSpec

---------------------------------------------------------------------------
(* The state file: the inductive invariant *)

\* A background write that no flush has overtaken.
Landing == writing # Absent /\ ~Overtaken(writing)

\* The file is not newer than the store, nor is a write that may land older
\* than the file.
VersionsAgree ==
  /\ file # Absent => 1 <= file.v /\ file.v <= changes
  /\ store.v <= changes
  /\ phase # "down" /\ store.v # 0 => FileVersion <= store.v
  /\ Landing => /\ writing.v # 0
                /\ FileVersion <= writing.v
                /\ writing.v <= store.v

\* A process that has had no session yet has nothing queued, and one that has
\* not been told to stop has overtaken nothing.
QuietIsQuiet ==
  /\ store.v = 0 => store.empty /\ ~pending /\ writing = Absent
  /\ phase = "down" => store = NothingYet
  /\ phase = "up" => (writing # Absent => ~Overtaken(writing))

\* persistNow may leave an empty store unsaved only because it is saved already.
NothingIsForgotten ==
  phase \in {"up", "stopping"} /\ ~pending /\ store.empty =>
    IF Landing THEN writing.v = store.v ELSE lost \/ store.v <= FileVersion

SignalIsCovered ==
  phase \in {"stopping", "closed"} =>
    /\ atSignal <= store.v
    /\ Landing => atSignal <= writing.v

UnreadableIsKnown ==
  /\ unreadable => file # Absent
  /\ phase # "down" /\ file # Absent /\ ~Usable(file, key) => unreadable \/ covered

IInv == /\ TypeOK /\ VersionsAgree /\ QuietIsQuiet /\ NothingIsForgotten
        /\ SignalIsCovered /\ UnreadableIsKnown /\ SignalledStateIsSaved

---------------------------------------------------------------------------
(* The steps of a write *)

Writes == [v : Nat, empty : BOOLEAN, overtaken : BOOLEAN]

USE AbsentIsNoRecord, DamagedIsNoKey

(* What a rename, made or failed, can leave: the file as it was, the         *)
(* snapshot, or none when the old file was moved aside and the rename failed. *)
LEMMA RenamedLeaves ==
  ASSUME TypeOK, UnreadableIsKnown, NEW s, s.v \in Nat, s.empty \in BOOLEAN, Renamed(s)
  PROVE  /\ {unreadable', covered', lost'} \subseteq BOOLEAN
         /\ file' \in Files \cup {Absent}
         /\ aside' \subseteq Files
         /\ \/ file' = file
            \/ file' = Absent
            \/ file' # Absent /\ file'.key = key /\ file'.v = s.v
         /\ ~lost' => file' # Absent /\ file'.key = key /\ file'.v = s.v
         /\ covered => covered'
         /\ unreadable /\ file' # file => file \in aside' \/ covered'
         /\ unreadable' => unreadable /\ file' = file
         /\ unreadable /\ file' = file /\ ~Usable(file, key) => unreadable' \/ covered'
<1> DEFINE new == [key |-> key, v |-> s.v, empty |-> s.empty]
<1>1. new \in Files /\ new # Absent
  BY DEF TypeOK, Files
<1>2. CASE lost' = TRUE /\ UNCHANGED <<unreadable, disk, covered>>
  BY <1>2 DEF TypeOK, disk
<1>3. ASSUME NEW moved \in BOOLEAN, NEW landed \in BOOLEAN,
             unreadable' = FALSE,
             aside' = IF unreadable /\ moved THEN aside \cup {file} ELSE aside,
             covered' = (covered \/ (unreadable /\ ~moved)),
             lost' = ~landed,
             file' = CASE landed -> new
                       [] ~landed /\ unreadable /\ moved -> Absent
                       [] OTHER -> file
      PROVE  /\ {unreadable', covered', lost'} \subseteq BOOLEAN
             /\ file' \in Files \cup {Absent}
             /\ aside' \subseteq Files
             /\ file' \in {file, Absent, new}
             /\ ~lost' => file' = new
             /\ covered => covered'
             /\ unreadable /\ file' # file => file \in aside' \/ covered'
             /\ ~unreadable'
             /\ unreadable /\ file' = file /\ ~Usable(file, key) => covered'
  <2>1. file' = IF landed THEN new ELSE IF unreadable /\ moved THEN Absent ELSE file
    BY <1>3
  <2>2. unreadable => file \in Files
    BY DEF UnreadableIsKnown, TypeOK
  <2>3. ~Usable(new, key) => FALSE
    BY <1>1 DEF Usable
  <2>4. unreadable => file # Absent
    BY DEF UnreadableIsKnown
  <2> HIDE DEF new
  <2>5. unreadable /\ file' = file /\ ~Usable(file, key) => ~moved
    BY <2>1, <2>3, <2>4
  <2>6. {unreadable', covered', lost'} \subseteq BOOLEAN /\ aside' \subseteq Files
    BY <1>3, <2>2 DEF TypeOK
  <2>7. file' \in Files \cup {Absent} /\ file' \in {file, Absent, new} /\ (~lost' => file' = new)
    BY <1>1, <1>3, <2>1 DEF TypeOK
  <2>8. unreadable /\ file' # file => file \in aside' \/ covered'
    BY <1>3
  <2>9. QED
    BY <1>3, <2>5, <2>6, <2>7, <2>8
<1>4. CASE ~(lost' = TRUE /\ UNCHANGED <<unreadable, disk, covered>>)
  <2>1. PICK moved \in BOOLEAN, landed \in BOOLEAN :
          /\ unreadable' = FALSE
          /\ aside' = IF unreadable /\ moved THEN aside \cup {file} ELSE aside
          /\ covered' = (covered \/ (unreadable /\ ~moved))
          /\ lost' = ~landed
          /\ file' = CASE landed -> new
                       [] ~landed /\ unreadable /\ moved -> Absent
                       [] OTHER -> file
    BY <1>4 DEF Renamed
  <2>2. new.key = key /\ new.v = s.v
    OBVIOUS
  <2> HIDE DEF new
  <2>3. QED
    BY <1>1, <1>3, <2>1, <2>2
<1>5. QED
  BY <1>2, <1>4

(* What a flush leaves: the store saved, or the write lost, and nothing of an *)
(* earlier write still to land.                                              *)
LEMMA FlushedStore ==
  ASSUME IInv, phase \in {"up", "stopping"}, PersistNow, Overtake, UNCHANGED <<key, store>>
  PROVE  /\ {unreadable', covered', lost'} \subseteq BOOLEAN
         /\ pending' = FALSE /\ timer' = FALSE
         /\ file' \in Files \cup {Absent}
         /\ aside' \subseteq Files
         /\ writing' \in Writes \cup {Absent}
         /\ ~Landing'
         /\ store.v = 0 => writing' = Absent
         /\ unreadable' => file' # Absent
         /\ file' # Absent /\ ~Usable(file, key)' => unreadable' \/ covered'
         /\ file' # Absent => 1 <= file'.v /\ file'.v <= changes
         /\ store.v # 0 => FileVersion' <= store.v
         /\ lost' \/ store.v <= FileVersion'
<1>1. store.v \in Nat /\ store.empty \in BOOLEAN /\ changes \in Nat /\ store.v <= changes
  BY DEF IInv, TypeOK, Contents, VersionsAgree
<1>2. /\ writing' \in Writes \cup {Absent}
      /\ ~Landing'
      /\ store.v = 0 => writing' = Absent
  <2>1. CASE writing = Absent
    BY <2>1 DEF Overtake, Landing
  <2>2. CASE writing # Absent
    <3>1. writing \in Writes
      BY <2>2 DEF IInv, TypeOK, Writes
    <3>2. writing' \in Writes /\ writing'.overtaken
      BY <2>2, <3>1 DEF Overtake, Writes
    <3>3. QED
      BY <2>2, <3>2 DEF Landing, Overtaken, IInv, QuietIsQuiet
  <2>3. QED
    BY <2>1, <2>2
<1>3. CASE pending \/ writing # Absent \/ QueuesSnapshot
  <2>1. Renamed(store) /\ pending' = FALSE /\ timer' = FALSE
    BY <1>3 DEF PersistNow
  <2>2. store.v # 0
    BY <1>3 DEF IInv, QuietIsQuiet, QueuesSnapshot
  <2>3. /\ {unreadable', covered', lost'} \subseteq BOOLEAN
        /\ file' \in Files \cup {Absent}
        /\ aside' \subseteq Files
        /\ \/ file' = file
           \/ file' = Absent
           \/ file' # Absent /\ file'.key = key /\ file'.v = store.v
        /\ ~lost' => file' # Absent /\ file'.key = key /\ file'.v = store.v
        /\ covered => covered'
        /\ unreadable' => unreadable /\ file' = file
        /\ unreadable /\ file' = file /\ ~Usable(file, key) => unreadable' \/ covered'
    BY <1>1, <2>1, RenamedLeaves DEF IInv
  <2>4. unreadable' => file' # Absent
    BY <2>3 DEF IInv, UnreadableIsKnown
  <2>5. file' # Absent /\ ~Usable(file, key)' => unreadable' \/ covered'
    BY <2>3 DEF IInv, UnreadableIsKnown, Usable
  <2>6. file' # Absent => 1 <= file'.v /\ file'.v <= changes
    BY <1>1, <2>2, <2>3 DEF IInv, VersionsAgree
  <2>7. FileVersion' <= store.v
    BY <1>1, <2>2, <2>3 DEF IInv, VersionsAgree, FileVersion
  <2>8. lost' \/ store.v <= FileVersion'
    BY <1>1, <2>3 DEF FileVersion
  <2>9. QED
    BY <1>2, <2>1, <2>3, <2>4, <2>5, <2>6, <2>7, <2>8
<1>4. CASE ~(pending \/ writing # Absent \/ QueuesSnapshot)
  <2>1. UNCHANGED <<unreadable, disk, lost, covered>> /\ pending' = FALSE /\ timer' = FALSE
    BY <1>4 DEF PersistNow
  <2>2. UNCHANGED <<file, aside, FileVersion>>
    BY <2>1 DEF disk, FileVersion
  <2>3. ~pending /\ writing = Absent /\ store.empty
    BY <1>4 DEF QueuesSnapshot
  <2>4. lost \/ store.v <= FileVersion
    BY <2>3 DEF IInv, NothingIsForgotten, Landing
  <2>5. QED
    BY <1>2, <2>1, <2>2, <2>4 DEF IInv, TypeOK, VersionsAgree, UnreadableIsKnown, Usable
<1>5. QED
  BY <1>3, <1>4

---------------------------------------------------------------------------
(* The invariant, action by action *)

LEMMA InitEstablishes == Init => IInv
<1> SUFFICES ASSUME Init PROVE IInv
  OBVIOUS
<1>1. file # Absent => file \in Files /\ file.v = 1
  <2>1. file # Absent => file \in [key : Keys \cup {Damaged}, v : {1}, empty : {FALSE}]
    BY DEF Init
  <2>2. ASSUME NEW f \in [key : Keys \cup {Damaged}, v : {1}, empty : {FALSE}]
        PROVE  f \in Files /\ f.v = 1
    <3>1. {1} \subseteq Nat /\ {FALSE} \subseteq BOOLEAN
      OBVIOUS
    <3>2. f.v = 1
      OBVIOUS
    <3>3. [key : Keys \cup {Damaged}, v : {1}, empty : {FALSE}] \subseteq Files
      BY <3>1 DEF Files
    <3>4. QED
      BY <3>2, <3>3
  <2>3. QED
    BY <2>1, <2>2
<1>2. TypeOK
  <2>1. {pending, timer, unreadable, lost, covered} \subseteq BOOLEAN /\ {queued, atSignal} \subseteq Nat
    <3>1. pending = FALSE /\ timer = FALSE /\ unreadable = FALSE /\ lost = FALSE /\ covered = FALSE
      BY DEF Init
    <3>2. {pending, timer, unreadable, lost, covered} \subseteq BOOLEAN
      BY <3>1
    <3>3. queued = 0 /\ atSignal = 0
      BY DEF Init
    <3>4. {queued, atSignal} \subseteq Nat
      BY <3>3
    <3>5. QED
      BY <3>2, <3>4
  <2>2. store \in Contents /\ key \in Keys /\ starts \in Nat /\ changes \in Nat
    BY DEF Init, NothingYet, Contents
  <2>3. aside \subseteq Files /\ file \in Files \cup {Absent}
    BY <1>1 DEF Init
  <2>4. phase = "down" /\ writing = Absent /\ ~timer /\ ~pending
    BY DEF Init
  <2>5. QED
    BY <2>1, <2>2, <2>3, <2>4 DEF TypeOK
<1>3. QED
  BY <1>1, <1>2 DEF Init, IInv, VersionsAgree, QuietIsQuiet, NothingIsForgotten, SignalIsCovered,
                    UnreadableIsKnown, SignalledStateIsSaved, Landing, NothingYet

(* Dying leaves the disk as it is, or with the old file moved aside. *)
LEMMA DyingKeeps ==
  ASSUME IInv, Died, file' \in {file, Absent}, aside' \subseteq Files
  PROVE  IInv'
<1>1. TypeOK'
  BY DEF IInv, TypeOK, Died, NothingYet, Contents
<1>2. QED
  BY <1>1 DEF IInv, TypeOK, Contents, Files, Died, VersionsAgree, QuietIsQuiet, NothingIsForgotten, SignalIsCovered,
              UnreadableIsKnown, SignalledStateIsSaved, Landing, NothingYet, FileVersion

LEMMA StepPreserves == IInv /\ [Next]_vars => IInv'
<1> SUFFICES ASSUME IInv, [Next]_vars PROVE IInv'
  OBVIOUS
<1>0. /\ store.v \in Nat /\ store.empty \in BOOLEAN /\ changes \in Nat
      /\ file # Absent => file.v \in Nat
      /\ writing # Absent => writing.v \in Nat /\ writing.overtaken \in BOOLEAN
      /\ FileVersion \in Nat /\ atSignal \in Nat
  BY DEF IInv, TypeOK, Contents, Files, FileVersion
<1>1. CASE Start
  <2>1. PICK k \in Keys :
          /\ key' = k
          /\ store' = IF Usable(file, k) THEN [v |-> file.v, empty |-> file.empty] ELSE NothingYet
          /\ unreadable' = (file # Absent /\ ~Usable(file, k))
    BY <1>1 DEF Start
  <2>2. /\ phase = "down" /\ phase' = "up" /\ starts' = starts + 1
        /\ queued' = 0 /\ atSignal' = 0 /\ lost' = FALSE
        /\ UNCHANGED <<changes, pending, timer, writing, file, aside, covered>>
    BY <1>1 DEF Start, disk
  <2>3. writing = Absent /\ ~pending /\ ~timer
    BY <2>2 DEF IInv, QuietIsQuiet, NothingYet, TypeOK
  <2>4. file # Absent => file \in Files
    BY DEF IInv, TypeOK
  <2>5. store' \in Contents /\ (store'.v # 0 => file # Absent /\ store'.v = file.v)
        /\ (store'.v = 0 => store'.empty)
    BY <2>1, <2>4 DEF Contents, Files, NothingYet, Usable, IInv, VersionsAgree
  <2>6. TypeOK'
    <3>1. {pending', timer', unreadable', lost', covered'} \subseteq BOOLEAN /\ {queued', atSignal'} \subseteq Nat
      <4>1. unreadable' \in BOOLEAN
        BY <2>1
      <4>2. lost' = FALSE /\ UNCHANGED <<pending, timer, covered>> /\ {pending, timer, covered} \subseteq BOOLEAN
        BY <2>2 DEF IInv, TypeOK
      <4>3. {pending', timer', unreadable', lost', covered'} \subseteq BOOLEAN
        BY <4>1, <4>2
      <4>4. QED
        BY <2>2, <4>3
    <3>2. phase' = "up" /\ starts' \in Nat /\ key' \in Keys /\ ~timer' /\ ~pending'
      BY <2>1, <2>2, <2>3 DEF IInv, TypeOK
    <3>3. QED
      BY <2>2, <2>5, <3>1, <3>2 DEF IInv, TypeOK
  <2>7. VersionsAgree' /\ QuietIsQuiet'
    BY <1>0, <2>2, <2>3, <2>5 DEF IInv, VersionsAgree, QuietIsQuiet, Landing, FileVersion
  <2>8. NothingIsForgotten'
    BY <1>0, <2>2, <2>3, <2>5 DEF NothingIsForgotten, Landing, FileVersion
  <2>9. SignalIsCovered' /\ UnreadableIsKnown' /\ SignalledStateIsSaved'
    BY <2>1, <2>2 DEF SignalIsCovered, UnreadableIsKnown, SignalledStateIsSaved, Usable
  <2>10. QED
    BY <2>6, <2>7, <2>8, <2>9 DEF IInv
<1>2. CASE Change
  <2>1. PICK empty \in BOOLEAN : store' = [v |-> changes + 1, empty |-> empty]
    BY <1>2 DEF Change
  <2>2. /\ Serving /\ changes' = changes + 1 /\ pending' = TRUE
        /\ timer' = Armed /\ queued' = changes + 1
        /\ UNCHANGED <<phase, starts, key, writing, unreadable, file, aside, atSignal, lost, covered>>
    BY <1>2 DEF Change, disk
  <2>3. store'.v = changes + 1 /\ store' \in Contents /\ FileVersion' = FileVersion
    BY <1>0, <2>1, <2>2 DEF Contents, FileVersion
  <2>4. TypeOK'
    <3>1. {pending', timer', unreadable', lost', covered'} \subseteq BOOLEAN /\ {queued', atSignal'} \subseteq Nat
      BY <1>0, <2>2 DEF IInv, TypeOK, Armed
    <3>2. phase' \in {"up", "stopping"} /\ changes' \in Nat /\ pending' = TRUE
      BY <1>0, <2>2 DEF Serving
    <3>3. timer' => writing' = Absent
      BY <2>2 DEF Armed, IInv, TypeOK
    <3>4. timer' \/ writing' # Absent
      BY <2>2 DEF Armed
    <3>5. QED
      BY <2>2, <2>3, <3>1, <3>2, <3>3, <3>4 DEF IInv, TypeOK
  <2>5. VersionsAgree' /\ QuietIsQuiet'
    BY <1>0, <2>2, <2>3 DEF IInv, VersionsAgree, QuietIsQuiet, Landing, FileVersion, Serving
  <2>6. NothingIsForgotten' /\ SignalIsCovered'
    BY <1>0, <2>2, <2>3 DEF IInv, VersionsAgree, NothingIsForgotten, SignalIsCovered, Landing
  <2>7. UnreadableIsKnown' /\ SignalledStateIsSaved'
    BY <2>2, <2>3 DEF IInv, UnreadableIsKnown, SignalledStateIsSaved, Usable
  <2>8. QED
    BY <2>4, <2>5, <2>6, <2>7 DEF IInv
<1>3. CASE Activity
  <2>1. /\ Serving /\ ~store.empty /\ changes' = changes + 1
        /\ store' = [store EXCEPT !.v = changes + 1]
        /\ UNCHANGED <<phase, starts, key, pending, timer, writing, unreadable, file, aside,
                       queued, atSignal, lost, covered>>
    BY <1>3 DEF Activity, disk
  <2>2. store'.v = changes + 1 /\ ~store'.empty /\ store' \in Contents /\ FileVersion' = FileVersion
    BY <1>0, <2>1 DEF IInv, TypeOK, Contents, FileVersion
  <2>3. TypeOK'
    BY <1>0, <2>1, <2>2 DEF IInv, TypeOK
  <2>4. VersionsAgree' /\ QuietIsQuiet'
    BY <1>0, <2>1, <2>2 DEF IInv, VersionsAgree, QuietIsQuiet, Landing, FileVersion, Serving
  <2>5. NothingIsForgotten' /\ SignalIsCovered'
    BY <1>0, <2>1, <2>2 DEF IInv, VersionsAgree, NothingIsForgotten, SignalIsCovered, Landing
  <2>6. UnreadableIsKnown' /\ SignalledStateIsSaved'
    BY <2>1, <2>2 DEF IInv, UnreadableIsKnown, SignalledStateIsSaved, Usable
  <2>7. QED
    BY <2>3, <2>4, <2>5, <2>6 DEF IInv
<1>4. CASE TimerFires
  <2>1. /\ timer /\ pending /\ writing = Absent /\ phase \in {"up", "stopping"}
        /\ timer' = FALSE /\ pending' = FALSE
        /\ writing' = [v |-> store.v, empty |-> store.empty, overtaken |-> FALSE]
        /\ UNCHANGED <<phase, starts, key, store, changes, unreadable, file, aside, queued,
                       atSignal, lost, covered, FileVersion>>
    BY <1>4 DEF TimerFires, IInv, TypeOK, disk, FileVersion
  <2>2. writing' \in Writes /\ writing'.v = store.v /\ ~writing'.overtaken
    BY <1>0, <2>1 DEF Writes
  <2>3. store.v # 0
    BY <2>1 DEF IInv, QuietIsQuiet
  <2>4. TypeOK'
    BY <2>1, <2>2 DEF IInv, TypeOK, Writes
  <2>5. VersionsAgree' /\ QuietIsQuiet'
    BY <1>0, <2>1, <2>2, <2>3 DEF IInv, VersionsAgree, QuietIsQuiet, Landing, Overtaken
  <2>6. Landing'
    BY <2>2 DEF Landing, Overtaken, Writes
  <2>7. NothingIsForgotten' /\ SignalIsCovered'
    BY <2>1, <2>2, <2>6 DEF IInv, NothingIsForgotten, SignalIsCovered
  <2>8. UnreadableIsKnown' /\ SignalledStateIsSaved'
    BY <2>1 DEF IInv, UnreadableIsKnown, SignalledStateIsSaved, Usable
  <2>9. QED
    BY <2>4, <2>5, <2>7, <2>8 DEF IInv
<1>5. CASE BackgroundEnds
  <2>1. /\ writing # Absent /\ writing' = Absent /\ timer' = pending
        /\ UNCHANGED <<phase, starts, key, store, changes, pending, queued, atSignal>>
    BY <1>5 DEF BackgroundEnds, Rearmed
  <2>2. ~Landing' /\ store.v # 0 /\ phase # "down"
    BY <2>1 DEF Landing, IInv, QuietIsQuiet, NothingYet
  <2>3. CASE Overtaken(writing)
    <3>1. UNCHANGED <<unreadable, file, aside, lost, covered, FileVersion>>
      BY <1>5, <2>3 DEF BackgroundEnds, disk, FileVersion
    <3>2. TypeOK'
      BY <2>1, <3>1 DEF IInv, TypeOK
    <3>3. VersionsAgree' /\ QuietIsQuiet'
      BY <2>1, <2>2, <3>1 DEF IInv, VersionsAgree, QuietIsQuiet
    <3>4. NothingIsForgotten' /\ SignalIsCovered'
      BY <2>1, <2>2, <2>3, <3>1 DEF IInv, NothingIsForgotten, SignalIsCovered, Landing
    <3>5. UnreadableIsKnown' /\ SignalledStateIsSaved'
      BY <2>1, <3>1 DEF IInv, UnreadableIsKnown, SignalledStateIsSaved, Usable
    <3>6. QED
      BY <3>2, <3>3, <3>4, <3>5 DEF IInv
  <2>4. CASE ~Overtaken(writing)
    <3>1. Renamed(writing) /\ Landing /\ writing.empty \in BOOLEAN
      BY <1>5, <2>1, <2>4 DEF BackgroundEnds, Landing, IInv, TypeOK
    <3>2. /\ {unreadable', covered', lost'} \subseteq BOOLEAN
          /\ file' \in Files \cup {Absent}
          /\ aside' \subseteq Files
          /\ \/ file' = file
             \/ file' = Absent
             \/ file' # Absent /\ file'.key = key /\ file'.v = writing.v
          /\ ~lost' => file' # Absent /\ file'.key = key /\ file'.v = writing.v
          /\ covered => covered'
          /\ unreadable' => unreadable /\ file' = file
          /\ unreadable /\ file' = file /\ ~Usable(file, key) => unreadable' \/ covered'
      BY <1>0, <2>1, <3>1, RenamedLeaves DEF IInv
    <3>3. /\ writing.v # 0 /\ FileVersion <= writing.v /\ writing.v <= store.v /\ store.v <= changes
      BY <3>1 DEF IInv, VersionsAgree
    <3>4. TypeOK'
      BY <2>1, <3>2 DEF IInv, TypeOK
    <3>5. VersionsAgree' /\ QuietIsQuiet'
      BY <1>0, <2>1, <2>2, <3>2, <3>3 DEF IInv, VersionsAgree, QuietIsQuiet, FileVersion
    <3>6. NothingIsForgotten'
      BY <1>0, <2>1, <2>2, <3>1, <3>2 DEF IInv, NothingIsForgotten, FileVersion
    <3>7. SignalIsCovered'
      BY <2>1, <2>2 DEF IInv, SignalIsCovered
    <3>8. UnreadableIsKnown'
      BY <2>1, <3>2 DEF IInv, UnreadableIsKnown, Usable
    <3>9. SignalledStateIsSaved'
      BY <2>1, <3>1, <3>2 DEF IInv, SignalIsCovered, SignalledStateIsSaved, FileVersion
    <3>10. QED
      BY <3>4, <3>5, <3>6, <3>7, <3>8, <3>9 DEF IInv
  <2>5. QED
    BY <2>3, <2>4
<1>6. CASE Signal \/ Close
  <2>1. /\ phase \in {"up", "stopping"} /\ phase' \in {"stopping", "closed"}
        /\ PersistNow /\ Overtake
        /\ UNCHANGED <<starts, key, store, changes, queued>>
        /\ atSignal' \in {atSignal, store.v}
        /\ phase = "up" => atSignal' = store.v
    BY <1>6 DEF Signal, Close
  <2>2. /\ {unreadable', covered', lost'} \subseteq BOOLEAN
        /\ pending' = FALSE /\ timer' = FALSE
        /\ file' \in Files \cup {Absent}
        /\ aside' \subseteq Files
        /\ writing' \in Writes \cup {Absent}
        /\ ~Landing'
        /\ store.v = 0 => writing' = Absent
        /\ unreadable' => file' # Absent
        /\ file' # Absent /\ ~Usable(file, key)' => unreadable' \/ covered'
        /\ file' # Absent => 1 <= file'.v /\ file'.v <= changes
        /\ store.v # 0 => FileVersion' <= store.v
        /\ lost' \/ store.v <= FileVersion'
    BY <2>1, FlushedStore
  <2>3. atSignal' \in Nat /\ atSignal' <= store.v /\ FileVersion' \in Nat
    BY <1>0, <2>1, <2>2 DEF IInv, SignalIsCovered, FileVersion, Files
  <2>4. TypeOK'
    BY <2>1, <2>2, <2>3 DEF IInv, TypeOK, Writes
  <2>5. VersionsAgree' /\ QuietIsQuiet'
    BY <2>1, <2>2 DEF IInv, VersionsAgree, QuietIsQuiet
  <2>6. NothingIsForgotten' /\ SignalIsCovered'
    BY <2>1, <2>2, <2>3 DEF NothingIsForgotten, SignalIsCovered
  <2>7. UnreadableIsKnown' /\ SignalledStateIsSaved'
    BY <1>0, <2>1, <2>2, <2>3 DEF UnreadableIsKnown, SignalledStateIsSaved
  <2>8. QED
    BY <2>4, <2>5, <2>6, <2>7 DEF IInv
<1>7. CASE Exit
  BY <1>7, DyingKeeps DEF Exit, disk, IInv, TypeOK
<1>8. CASE CrashSettingAside
  <2>1. file \in Files
    BY <1>8 DEF CrashSettingAside, IInv, UnreadableIsKnown, TypeOK
  <2>2. QED
    BY <1>8, <2>1, DyingKeeps DEF CrashSettingAside, IInv, TypeOK
<1>9. CASE UNCHANGED vars
  <2>1. UNCHANGED <<phase, starts, changes, key, store, pending, timer, writing, unreadable, file,
                    aside, queued, atSignal, lost, covered>>
    BY <1>9 DEF vars, process, disk
  <2>2. TypeOK'
    BY <2>1 DEF IInv, TypeOK
  <2>3. QED
    BY <2>1, <2>2 DEF IInv, VersionsAgree, QuietIsQuiet, NothingIsForgotten, SignalIsCovered,
                      UnreadableIsKnown, SignalledStateIsSaved, Landing, FileVersion, Usable
<1>10. QED
  BY <1>1, <1>2, <1>3, <1>4, <1>5, <1>6, <1>7, <1>8, <1>9 DEF Next

---------------------------------------------------------------------------
(* What a step may do to the file *)

\* The three promises of BetterStateStays, of one step.
KeepsUnreadable == file # Absent /\ file' # file /\ ~Usable(file, key) => file \in aside' \/ covered'
KeepsQuietFile  == phase # "down" /\ store.v = 0 => file' = file
KeepsNewer      == file # Absent /\ file' # Absent => FileVersion' >= FileVersion

(* A rename loses no better state. *)
LEMMA RenameKeeps ==
  ASSUME IInv, phase # "down", NEW s, s.v \in Nat, s.empty \in BOOLEAN, Renamed(s),
         s.v # 0, FileVersion <= s.v, store.v # 0
  PROVE  KeepsUnreadable /\ KeepsQuietFile /\ KeepsNewer
<1>1. /\ \/ file' = file
         \/ file' = Absent
         \/ file' # Absent /\ file'.v = s.v
      /\ covered => covered'
      /\ unreadable /\ file' # file => file \in aside' \/ covered'
  BY RenamedLeaves DEF IInv
<1>2. KeepsUnreadable
  BY <1>1 DEF KeepsUnreadable, IInv, UnreadableIsKnown
<1>3. FileVersion \in Nat
  BY DEF FileVersion, IInv, TypeOK, Files
<1>4. KeepsNewer
  BY <1>1, <1>3 DEF KeepsNewer, FileVersion
<1>5. QED
  BY <1>2, <1>4 DEF KeepsQuietFile

LEMMA StepKeepsBetter == IInv /\ [Next]_vars => KeepsUnreadable /\ KeepsQuietFile /\ KeepsNewer
<1> SUFFICES ASSUME IInv, [Next]_vars PROVE KeepsUnreadable /\ KeepsQuietFile /\ KeepsNewer
  OBVIOUS
<1>0. FileVersion \in Nat /\ store.v \in Nat /\ store.empty \in BOOLEAN
  BY DEF FileVersion, IInv, TypeOK, Files, Contents
<1>1. CASE file' = file
  BY <1>0, <1>1 DEF KeepsUnreadable, KeepsQuietFile, KeepsNewer, FileVersion
<1>2. CASE BackgroundEnds /\ ~Overtaken(writing)
  <2>1. Renamed(writing) /\ Landing /\ writing.v \in Nat /\ writing.empty \in BOOLEAN
    BY <1>2 DEF BackgroundEnds, Landing, IInv, TypeOK
  <2>2. phase # "down" /\ store.v # 0
    BY <2>1 DEF IInv, QuietIsQuiet, Landing, NothingYet
  <2>3. QED
    BY <2>1, <2>2, RenameKeeps DEF IInv, VersionsAgree
<1>3. CASE (Signal \/ Close) /\ (pending \/ writing # Absent \/ QueuesSnapshot)
  <2>1. Renamed(store) /\ phase # "down"
    BY <1>3 DEF Signal, Close, PersistNow
  <2>2. store.v # 0
    BY <1>3 DEF IInv, QuietIsQuiet, QueuesSnapshot
  <2>3. QED
    BY <1>0, <2>1, <2>2, RenameKeeps DEF IInv, VersionsAgree
<1>4. CASE CrashSettingAside
  <2>1. file' = Absent /\ file \in aside' /\ writing # Absent
    BY <1>4 DEF CrashSettingAside
  <2>2. QED
    BY <2>1 DEF KeepsUnreadable, KeepsQuietFile, KeepsNewer, IInv, QuietIsQuiet
<1>5. QED
  BY <1>1, <1>2, <1>3, <1>4
     DEF Next, Start, Change, Activity, TimerFires, BackgroundEnds, Signal, Close, PersistNow, Exit, vars, disk

---------------------------------------------------------------------------
(* Theorems *)

(* Once the relay is told to stop, the file has at least what the store held *)
(* at the signal, unless the last write failed, however the process dies.    *)
THEOREM FileStaysSound == Spec => []FileIsSound
<1>1. IInv => FileIsSound
  BY DEF IInv, FileIsSound
<1>2. QED
  BY <1>1, InitEstablishes, StepPreserves, PTL DEF Spec

(* Through any writes, failures, crashes and restarts with any keys, no file *)
(* gives way to an older snapshot, to a state that never had a session, or,  *)
(* unread, to anything before it is set aside.                               *)
THEOREM NothingBetterIsLost == Spec => BetterStateStays
<1>1. IInv /\ [Next]_vars => [KeepsUnreadable]_vars /\ [KeepsQuietFile]_vars /\ [KeepsNewer]_vars
  BY StepKeepsBetter
<1>2. Spec => UnreadableIsKept
  BY <1>1, InitEstablishes, StepPreserves, PTL DEF Spec, UnreadableIsKept, KeepsUnreadable
<1>3. Spec => QuietStartLeavesTheFile
  BY <1>1, InitEstablishes, StepPreserves, PTL DEF Spec, QuietStartLeavesTheFile, KeepsQuietFile
<1>4. Spec => NewerSnapshotStays
  BY <1>1, InitEstablishes, StepPreserves, PTL DEF Spec, NewerSnapshotStays, KeepsNewer
<1>5. QED
  BY <1>2, <1>3, <1>4 DEF BetterStateStays

---------------------------------------------------------------------------
(* The settings *)

(* What envInt returns is a natural number, whatever the variable holds.    *)
LEMMA SettingsAreNatural ==
  ASSUME NEW e \in Environments
  PROVE  /\ BridgeMaxPayloadBytes(e) \in Nat
         /\ SseMaxBufferBytes(e) \in Nat
         /\ EnvInt(e["exempt"], 32 * MiB) \in Nat
         /\ EnvInt(e["parked"], 128 * MiB) \in Nat
         /\ EnvInt(e["maxBuffered"], 128 * MiB) \in Nat
         /\ ProxyBodyLimitBytes(e) \in Nat
         /\ EnvInt(e["maxInbound"], 128 * MiB) \in Nat
         /\ ProxyStallCheckMs(e) \in Nat
         /\ WsPingIntervalMs(e) \in Nat
         /\ WsPongGraceRounds(e) \in Nat
<1>1. \A v \in Variables : e[v] \in Nat
  BY DEF Environments
<1>2. /\ e["frame"] \in Nat /\ e["streamBuffer"] \in Nat /\ e["exempt"] \in Nat /\ e["parked"] \in Nat
      /\ e["maxBuffered"] \in Nat /\ e["bodyLimit"] \in Nat /\ e["maxInbound"] \in Nat
      /\ e["stallCheck"] \in Nat /\ e["ping"] \in Nat /\ e["pongRounds"] \in Nat
  BY <1>1 DEF Variables
<1> QED
  BY SMT, <1>2 DEF EnvInt, Unset, MiB, BridgeMaxPayloadBytes, SseMaxBufferBytes, ProxyBodyLimitBytes,
     ProxyStallCheckMs, WsPingIntervalMs, WsPongGraceRounds

LEMMA SixtiethsCover ==
  ASSUME NEW x \in Nat
  PROVE  CeilDiv(x, 60) \in Nat /\ 60 * CeilDiv(x, 60) <= x + 59
BY SMT DEF CeilDiv

LEMMA ThousandthsCover ==
  ASSUME NEW x \in Nat
  PROVE  CeilDiv(x, 1000) \in Nat /\ 1000 * CeilDiv(x, 1000) <= x + 999
BY SMT DEF CeilDiv

LEMMA MinutesCover ==
  ASSUME NEW x \in Nat
  PROVE  CeilDiv(x, SlowUplinkBytesPerSecond * 60) \in Nat
         /\ x <= SlowUplinkBytesPerSecond * 60 * CeilDiv(x, SlowUplinkBytesPerSecond * 60)
<1>1. SlowUplinkBytesPerSecond = 92500
  BY SMT DEF SlowUplinkBytesPerSecond
<1> QED BY SMT, <1>1 DEF CeilDiv

(* A frame the socket lets in has room in an answer's slice and in an idle   *)
(* stream (config.ts: the floors under the ceiling and the parked budget).   *)
THEOREM FramesAlwaysFit ==
  ASSUME NEW e \in Environments
  PROVE  FramesFit(e)
BY SMT, SettingsAreNatural DEF FramesFit, ProxySessionShareBytes, ProxyMaxBufferedBytes, SseMaxParkedBytes,
   SseMaxExemptBytes, AtLeast, AtMost

(* A share can hold two bodies of any allowed size, and eight shares' slices *)
(* never exceed the ceiling (config.ts: sixteen body limits).                *)
THEOREM BodiesAlwaysFit ==
  ASSUME NEW e \in Environments
  PROVE  BodiesFit(e)
BY SMT, SettingsAreNatural DEF BodiesFit, ProxyInboundShareBytes, ProxyMaxInboundBytes, ProxyInboundReserveBytes,
   ProxyInboundSmallBodyBytes, AtLeast, AtMost, KiB, MiB

(* The largest body gets through the uplink the relay is sized for: neither  *)
(* the stall watch nor the server's timeout cuts it.                         *)
THEOREM SlowUplinksAlwaysGetThrough ==
  ASSUME NEW e \in Environments
  PROVE  SlowUplinksGetThrough(e)
<1> DEFINE check == ProxyStallCheckMs(e)
           rate == ProxyInboundMinRateBytes(e)
           limit == ProxyBodyLimitBytes(e)
<1>0. check \in Nat /\ limit \in Nat
  BY SMT, SettingsAreNatural
<1>1. SlowUplinkBytesPerSecond = 92500
  BY SMT DEF SlowUplinkBytesPerSecond
<1>2. rate \in Nat /\ rate <= 4371
  <2>1. ProxyInboundSmallBodyBytes(e) \in Nat /\ ProxyInboundSmallBodyBytes(e) <= 262144
    BY SMT, <1>0 DEF ProxyInboundSmallBodyBytes, AtMost, KiB
  <2> QED BY SMT, <2>1, SixtiethsCover DEF ProxyInboundMinRateBytes, AtLeast
<1>3. rate * check \in Nat /\ rate * check <= 4371 * check
  BY SMT, <1>0, <1>2
<1>4. 1000 * DuePerCheck(e) <= SlowUplinkBytesPerSecond * check
  <2>1. DuePerCheck(e) \in Nat /\ 1000 * DuePerCheck(e) <= rate * check + 999
    BY SMT, <1>3, ThousandthsCover DEF DuePerCheck
  <2>2. CASE check = 0
    <3>1. rate * check = 0
      BY SMT, <2>2, <1>2
    <3> QED BY SMT, <3>1, <2>1, <2>2, <1>1
  <2>3. CASE check > 0
    BY SMT, <2>1, <2>3, <1>0, <1>1, <1>3
  <2> QED BY SMT, <2>2, <2>3, <1>0
<1>5. 2 * limit <= SlowUplinkBytesPerSecond * HttpRequestTimeout(e)
  <2> DEFINE minutes == CeilDiv(2 * limit, SlowUplinkBytesPerSecond * 60)
  <2>1. minutes \in Nat /\ 2 * limit <= 92500 * 60 * minutes
    BY SMT, <1>0, <1>1, MinutesCover
  <2>2. HttpRequestTimeout(e) >= minutes * 60
    BY SMT, <2>1 DEF HttpRequestTimeout, AtLeast
  <2>3. HttpRequestTimeout(e) \in Nat
    BY SMT, <2>1 DEF HttpRequestTimeout, AtLeast
  <2> HIDE DEF minutes
  <2> QED BY SMT, <2>1, <2>2, <2>3, <1>0, <1>1
<1> QED BY SMT, <1>4, <1>5 DEF SlowUplinksGetThrough

(* A share's slot is given away only past the pings that would have ended    *)
(* its bridge's socket (config.ts, departedBridgeMs).                        *)
THEOREM PresentBridgesAlwaysStay ==
  ASSUME NEW e \in Environments
  PROVE  PresentBridgesStay(e)
<1> DEFINE ping == WsPingIntervalMs(e)  rounds == WsPongGraceRounds(e)
<1>1. ping \in Nat /\ rounds \in Nat
  BY SMT, SettingsAreNatural
<1>2. (rounds + 2) * ping \in Nat
  BY SMT, <1>1
<1>3. (rounds + 1) * ping + ping = (rounds + 2) * ping
  BY SMT, <1>1
<1>4. (rounds + 2) * ping <= DepartedBridgeMs(e)
  BY SMT, <1>2 DEF DepartedBridgeMs, AtLeast, UnboundReapMs
<1> QED BY SMT, <1>3, <1>4 DEF PresentBridgesStay

(* Whatever the environment holds, the limits fit each other.                *)
THEOREM LimitsAlwaysFit ==
  \A e \in Environments : LimitsFit(e)
BY SMT, FramesAlwaysFit, BodiesAlwaysFit, SlowUplinksAlwaysGetThrough, PresentBridgesAlwaysStay DEF LimitsFit

(* What the budgets of memory assume of their limits holds of the settings.  *)
LEMMA BudgetsMayAssume ==
  ASSUME NEW e \in Environments
  PROVE  /\ ProxyInboundReserveBytes(e) <= ProxyMaxInboundBytes(e)
         /\ ProxyInboundSmallBodyBytes(e) <= ProxyInboundShareBytes(e)
BY SMT, SettingsAreNatural DEF ProxyInboundShareBytes, ProxyMaxInboundBytes, ProxyInboundReserveBytes,
   ProxyInboundSmallBodyBytes, AtLeast, AtMost, KiB, MiB

=============================================================================
