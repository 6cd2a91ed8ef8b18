------------------------- MODULE ShareAccessProofs -------------------------
(***************************************************************************)
(* Who gets into a share, and what of the owner's opencode is shown there,  *)
(* for any number of sessions, walks, lists, registrations, viewers and     *)
(* limits.                                                                 *)
(***************************************************************************)
EXTENDS ViewerSeats, SubagentWalks, FiniteSetTheorems, SequenceTheorems, WellFoundedInduction, TLAPS

---------------------------------------------------------------------------
(* Numbers, and sequences that part of is selected *)

LEMMA LeastOfNumbers ==
  ASSUME NEW T \in SUBSET Nat, T # {}
  PROVE  \E n \in T : \A m \in T : n <= m
<1> DEFINE Before == {two \in Nat \X Nat : two[1] < two[2]}
<1>1. IsWellFoundedOn(Before, Nat)
  BY NatLessThanWellFounded DEF OpToRel
<1>2. \A m, n \in Nat : m < n => <<m, n>> \in Before
  OBVIOUS
<1> HIDE DEF Before
<1>3. PICK n \in T : \A m \in T : <<m, n>> \notin Before
  BY <1>1, WFMin
<1>4. ASSUME NEW m \in T PROVE n <= m
  <2>1. m \in Nat /\ n \in Nat /\ ~(m < n)
    BY <1>2, <1>3
  <2> QED BY SMT, <2>1
<1> QED BY <1>4

\* The ranks of what is selected are the numbers up to how much is selected.
LEMMA RanksAreExact ==
  ASSUME NEW at, IsFiniteSet(at), at \subseteq Nat
  PROVE  LET Upto(i) == {j \in at : j <= i}
             n == Cardinality(at) IN
         /\ n \in Nat
         /\ \A i \in at : Cardinality(Upto(i)) \in 1..n
         /\ \A i, j \in at : Cardinality(Upto(i)) = Cardinality(Upto(j)) => i = j
         /\ \A k \in 1..n : \E i \in at : Cardinality(Upto(i)) = k
<1> DEFINE Upto(i) == {j \in at : j <= i}
           n == Cardinality(at)
           rank == [i \in at |-> Cardinality(Upto(i))]
<1>1. n \in Nat
  BY FS_CardinalityType
<1>2. \A i \in at : IsFiniteSet(Upto(i)) /\ Cardinality(Upto(i)) \in Nat /\ Cardinality(Upto(i)) <= n
  <2> SUFFICES ASSUME NEW i \in at
               PROVE IsFiniteSet(Upto(i)) /\ Cardinality(Upto(i)) \in Nat /\ Cardinality(Upto(i)) <= n
    OBVIOUS
  <2>1. Upto(i) \in SUBSET at
    OBVIOUS
  <2> QED BY <2>1, FS_Subset, FS_CardinalityType
<1>3. \A i \in at : Cardinality(Upto(i)) \in 1..n
  <2> SUFFICES ASSUME NEW i \in at PROVE Cardinality(Upto(i)) \in 1..n
    OBVIOUS
  <2>1. i \in Upto(i)
    OBVIOUS
  <2>2. Cardinality(Upto(i)) # 0
    BY <1>2, <2>1, FS_EmptySet
  <2> HIDE DEF Upto, n
  <2> QED BY SMT, <1>1, <1>2, <2>2
<1>4. \A i, j \in at : i < j => Cardinality(Upto(i)) # Cardinality(Upto(j))
  <2> SUFFICES ASSUME NEW i \in at, NEW j \in at, i < j, Cardinality(Upto(i)) = Cardinality(Upto(j))
               PROVE FALSE
    OBVIOUS
  <2>0. i \in Nat /\ j \in Nat
    OBVIOUS
  <2>1. Upto(i) \in SUBSET Upto(j) /\ j \in Upto(j) /\ j \notin Upto(i)
    <3>1. \A x \in at : x <= i => x <= j
      BY SMT, <2>0
    <3>2. j <= j /\ ~(j <= i)
      BY SMT, <2>0
    <3> QED BY <3>1, <3>2
  <2>2. Upto(i) = Upto(j)
    BY <1>2, <2>1, FS_Subset
  <2> QED BY <2>1, <2>2
<1>5. \A i, j \in at : Cardinality(Upto(i)) = Cardinality(Upto(j)) => i = j
  <2> HIDE DEF Upto
  <2> QED BY SMT, <1>4
<1>6. rank \in Injection(at, 1..n)
  <2>1. rank \in [at -> 1..n]
    BY <1>3
  <2>2. IsInjective(rank)
    BY <1>5 DEF IsInjective
  <2> QED BY <2>1, <2>2 DEF Injection
<1>7. IsFiniteSet(1..n) /\ Cardinality(1..n) = n
  <2> HIDE DEF n
  <2>1. IsFiniteSet(1..n) /\ Cardinality(1..n) = IF 1 > n THEN 0 ELSE n - 1 + 1
    BY <1>1, FS_Interval
  <2> QED BY SMT, <1>1, <2>1
<1>8. rank \in Surjection(at, 1..n)
  BY <1>6, <1>7, FS_Injection
<1>9. \A k \in 1..n : \E i \in at : Cardinality(Upto(i)) = k
  BY <1>8 DEF Surjection
<1> QED BY <1>1, <1>3, <1>5, <1>9

\* A filter keeps what it selects, each once if it was there once.
LEMMA FilteredKeeps ==
  ASSUME NEW T, NEW seq \in Seq(T), NEW S
  PROVE  LET kept == Filtered(seq, S) IN
         /\ kept \in Seq(T \cap S)
         /\ ToSet(kept) = ToSet(seq) \cap S
         /\ IsInjective(seq) => IsInjective(kept)
         /\ Len(kept) <= Len(seq)
<1> DEFINE at == {i \in DOMAIN seq : seq[i] \in S}
           n == Cardinality(at)
           Rank(i) == Cardinality({j \in at : j <= i})
           Pick(k) == CHOOSE i \in at : Rank(i) = k
           kept == [k \in 1..n |-> seq[Pick(k)]]
<1>0. kept = Filtered(seq, S)
  BY DEF Filtered
<1>1. Len(seq) \in Nat /\ DOMAIN seq = 1..Len(seq) /\ at \in SUBSET (1..Len(seq))
  OBVIOUS
<1>2. IsFiniteSet(1..Len(seq)) /\ Cardinality(1..Len(seq)) = Len(seq)
  <2> HIDE DEF at
  <2>1. IsFiniteSet(1..Len(seq)) /\ Cardinality(1..Len(seq)) = IF 1 > Len(seq) THEN 0 ELSE Len(seq) - 1 + 1
    BY <1>1, FS_Interval
  <2> QED BY SMT, <1>1, <2>1
<1>3. IsFiniteSet(at) /\ n \in Nat /\ n <= Len(seq)
  BY <1>1, <1>2, FS_Subset, FS_CardinalityType
<1>4. at \subseteq Nat
  BY <1>1
<1>5. /\ \A i \in at : Rank(i) \in 1..n
      /\ \A i, j \in at : Rank(i) = Rank(j) => i = j
      /\ \A k \in 1..n : \E i \in at : Rank(i) = k
  <2> HIDE DEF at
  <2> QED BY <1>3, <1>4, RanksAreExact
<1>6. \A k \in 1..n : Pick(k) \in at /\ Rank(Pick(k)) = k
  <2> HIDE DEF at, Rank, n
  <2> QED BY <1>5
<1>7. \A i \in at : Pick(Rank(i)) = i
  <2> HIDE DEF at, Rank, n, Pick
  <2> QED BY <1>5, <1>6
<1>8. kept \in Seq(T \cap S) /\ Len(kept) = n /\ DOMAIN kept = 1..n
  <2>0. \A i \in at : seq[i] \in T \cap S
    OBVIOUS
  <2>1. \A k \in 1..n : seq[Pick(k)] \in T \cap S
    <3> HIDE DEF at, Rank, n, Pick
    <3> QED BY <1>6, <2>0
  <2> HIDE DEF at, Rank, n, Pick
  <2> QED BY <1>3, <2>1
<1>9. ToSet(kept) = ToSet(seq) \cap S
  <2>1. \A x \in ToSet(kept) : x \in ToSet(seq) \cap S
    BY <1>6, <1>8 DEF ToSet
  <2>2. ASSUME NEW x \in ToSet(seq) \cap S PROVE x \in ToSet(kept)
    <3>1. PICK i \in at : x = seq[i]
      BY DEF ToSet
    <3>2. Rank(i) \in 1..n /\ Pick(Rank(i)) = i
      BY <1>5, <1>7
    <3> HIDE DEF at, Rank, n, Pick
    <3>3. kept[Rank(i)] = x /\ Rank(i) \in DOMAIN kept
      BY <1>8, <3>1, <3>2
    <3> HIDE DEF kept
    <3> QED BY <3>3 DEF ToSet
  <2> QED BY <2>1, <2>2
<1>10. ASSUME IsInjective(seq) PROVE IsInjective(kept)
  <2> SUFFICES ASSUME NEW j \in 1..n, NEW k \in 1..n, kept[j] = kept[k] PROVE j = k
    BY <1>8 DEF IsInjective
  <2>1. seq[Pick(j)] = seq[Pick(k)] /\ Pick(j) \in DOMAIN seq /\ Pick(k) \in DOMAIN seq
    BY <1>6
  <2>2. Pick(j) = Pick(k)
    BY <1>10, <2>1 DEF IsInjective
  <2> HIDE DEF at, Rank, n, Pick
  <2> QED BY <1>6, <2>2
<1> HIDE DEF kept, at
<1> QED BY <1>0, <1>3, <1>8, <1>9, <1>10

\* The end of a sequence.
LEMMA LastOfKeeps ==
  ASSUME NEW T, NEW seq \in Seq(T), NEW n \in Nat \ {0}
  PROVE  LET end == LastOf(seq, n) IN
         /\ end \in Seq(T) /\ Len(end) <= n
         /\ ToSet(end) \subseteq ToSet(seq)
         /\ IsInjective(seq) => IsInjective(end)
<1> DEFINE end == LastOf(seq, n)
<1>0. Len(seq) \in Nat /\ DOMAIN seq = 1..Len(seq)
  OBVIOUS
<1>1. CASE Len(seq) <= n
  BY <1>1 DEF LastOf
<1>2. CASE ~(Len(seq) <= n)
  <2> DEFINE m == Len(seq) - n
  <2>0. m \in Nat /\ m + n = Len(seq) /\ m + 1 \in Int
    BY SMT, <1>0, <1>2
  <2>1. end = SubSeq(seq, m + 1, Len(seq))
    BY <1>2 DEF LastOf
  <2> HIDE DEF m, end
  <2>2. \A i \in m + 1..Len(seq) : seq[i] \in T
    BY SMT, <1>0, <2>0
  <2>3. /\ end \in Seq(T)
        /\ Len(end) = IF m + 1 <= Len(seq) THEN Len(seq) - (m + 1) + 1 ELSE 0
        /\ \A i \in 1..Len(seq) - (m + 1) + 1 : end[i] = seq[(m + 1) + i - 1]
    BY <1>0, <2>0, <2>1, <2>2, SubSeqProperties
  <2>a. Len(seq) - (m + 1) + 1 = n /\ m + 1 <= Len(seq)
    <3>1. \A l, j \in Nat, k \in Nat \ {0} : j + k = l => l - (j + 1) + 1 = k /\ j + 1 <= l
      BY SMT
    <3> QED BY <1>0, <2>0, <3>1
  <2>b. \A i \in 1..n : (m + 1) + i - 1 = m + i /\ m + i \in 1..Len(seq)
    BY SMT, <1>0, <2>0
  <2>4. Len(end) = n /\ \A i \in 1..n : end[i] = seq[m + i] /\ m + i \in 1..Len(seq)
    BY <2>3, <2>a, <2>b
  <2>5. DOMAIN end = 1..n
    BY <2>3, <2>4
  <2>6. ToSet(end) \subseteq ToSet(seq)
    BY <1>0, <2>4, <2>5 DEF ToSet
  <2>7. ASSUME IsInjective(seq) PROVE IsInjective(end)
    <3> SUFFICES ASSUME NEW i \in 1..n, NEW j \in 1..n, end[i] = end[j] PROVE i = j
      BY <2>5 DEF IsInjective
    <3>1. m + i = m + j
      BY <1>0, <2>4, <2>7 DEF IsInjective
    <3> QED BY SMT, <2>0, <3>1
  <2> QED BY <2>3, <2>4, <2>6, <2>7 DEF end
<1> QED BY <1>1, <1>2

LEMMA LastOfNone ==
  ASSUME NEW T, NEW seq \in Seq(T)
  PROVE  LastOf(seq, 0) = <<>>
<1>0. Len(seq) \in Nat /\ DOMAIN seq = 1..Len(seq)
  OBVIOUS
<1>1. CASE Len(seq) <= 0
  BY <1>0, <1>1 DEF LastOf
<1>2. CASE ~(Len(seq) <= 0)
  <2>1. LastOf(seq, 0) = SubSeq(seq, Len(seq) - 0 + 1, Len(seq))
    BY <1>2 DEF LastOf
  <2>2. Len(seq) - 0 + 1 = Len(seq) + 1 /\ Len(seq) + 1 > Len(seq)
    BY SMT, <1>0
  <2> QED BY <1>0, <2>1, <2>2
<1> QED BY <1>1, <1>2

---------------------------------------------------------------------------
(* Walks of the owner's sessions *)

\* Each of a chain is a child of the next.
Climbs(n, chain) == \A i \in 1..Len(chain) - 1 : ParentOf[n][chain[i]] = chain[i + 1]

\* A walk of the last registration was asked of its bridge or of none.
WalkKept(t) ==
  /\ IsInjective(t.chain) /\ t.reg <= lastReg
  /\ t.chain # <<>> => t.reg # 0
  /\ t.reg = lastReg => t.asked \in {0, lastReg} /\ Climbs(lastReg, t.chain)
  /\ t.owner # None => t.chain # <<>> /\ list[t.owner].phase = "walking" /\ list[t.owner].reg = t.reg

ListKept(l) ==
  /\ l.reg <= lastReg
  /\ l.phase # "idle" => l.reg # 0
  /\ l.reg = lastReg /\ lastReg # 0 => l.inShare \subseteq {Root} \cup Subagents[lastReg]

\* No walk was asked for a registration to come.
CachesKept ==
  /\ \A n \in Regs : n > lastReg => known[n] = <<>>
  /\ lastReg # 0 => KnownOf(lastReg) \subseteq Subagents[lastReg]

ListWalks == {w \in Tasks : Busy(w) /\ task[w].owner # None}

RuledOutFits ==
  /\ ruledOut \in [Regs -> Seq(Ids)]
  /\ \A n \in Regs : Len(ruledOut[n]) <= CacheMax /\ IsInjective(ruledOut[n])

WalksInv ==
  /\ WalksTypeOK
  /\ reg \in {0, lastReg}
  /\ \A w \in Tasks : WalkKept(task[w])
  /\ \A l \in Lists : ListKept(list[l])
  /\ CachesKept
  /\ inFlight = Cardinality(ListWalks) /\ inFlight <= MaxWalks

LEMMA RegsAreNumbers ==
  /\ Len(ParentOf) \in Nat /\ Regs = 1..Len(ParentOf)
  /\ \A n \in Regs : ParentOf[n] \in [Ids -> Ids \cup {Root, None}]
  /\ {CacheMax, MaxDepth, MaxWalks} \subseteq Nat \ {0}
  /\ Root \notin Ids /\ None \notin Ids /\ None \notin Lists
BY ParentsAreSessions, WalkLimitsArePositive, NamesDiffer DEF Regs

LEMMA SubagentsAreClosed ==
  ASSUME NEW n \in Regs
  PROVE  Subagents[n] \subseteq Ids /\ Closed(n, Subagents[n])
<1>1. Subagents[n] = {id \in Ids : \A S \in SUBSET Ids : Closed(n, S) => id \in S}
  BY DEF Subagents
<1>2. ASSUME NEW id \in Ids, ParentOf[n][id] \in {Root} \cup Subagents[n], NEW S \in SUBSET Ids, Closed(n, S)
      PROVE  id \in S
  <2>1. Subagents[n] \subseteq S
    BY <1>1, <1>2
  <2>2. ParentOf[n][id] \in {Root} \cup S
    BY <1>2, <2>1
  <2> QED BY <1>2, <2>2 DEF Closed
<1> QED BY <1>1, <1>2 DEF Closed

\* A chain that climbs to the share, or to a subagent of it, is one of subagents.
LEMMA ChainsAreKin ==
  ASSUME NEW n \in Regs, NEW chain \in Seq(Ids), chain # <<>>, Climbs(n, chain),
         ParentOf[n][Last(chain)] \in {Root} \cup Subagents[n]
  PROVE  ToSet(chain) \subseteq Subagents[n]
<1> DEFINE l == Len(chain)
           Off == {j \in 0..l - 1 : chain[l - j] \notin Subagents[n]}
<1>0. l \in Nat \ {0} /\ DOMAIN chain = 1..l /\ Closed(n, Subagents[n])
  BY SubagentsAreClosed
<1>1. \A i \in 1..l : chain[i] \in Ids
  OBVIOUS
<1>2. \A i \in 1..l : ParentOf[n][chain[i]] \in {Root} \cup Subagents[n] => chain[i] \in Subagents[n]
  BY <1>0, <1>1 DEF Closed
<1>3. SUFFICES Off = {}
  <2>1. ASSUME NEW i \in 1..l PROVE chain[i] \in Subagents[n]
    <3>1. l - i \in 0..l - 1 /\ l - (l - i) = i
      BY SMT, <1>0
    <3> QED BY <1>3, <3>1
  <2> QED BY <1>0, <2>1 DEF ToSet
<1>4. SUFFICES ASSUME Off # {} PROVE FALSE
  OBVIOUS
<1>5. PICK m \in Off : \A j \in Off : m <= j
  <2>1. Off \in SUBSET Nat
    BY <1>0
  <2> HIDE DEF Off
  <2> QED BY <1>4, <2>1, LeastOfNumbers
<1>6. m # 0
  <2>1. chain[l] \in Subagents[n]
    BY <1>0, <1>2 DEF Last
  <2>2. l - 0 = l
    BY SMT, <1>0
  <2> QED BY <2>1, <2>2
<1>7. m \in Nat /\ m - 1 \in 0..l - 1 /\ m - 1 < m /\ l - (m - 1) = (l - m) + 1 /\ l - m \in 1..l - 1 /\ l - m \in 1..l
  <2>1. m \in 0..l - 1
    OBVIOUS
  <2> HIDE DEF Off, l
  <2> QED BY SMT, <1>0, <1>6, <2>1
<1>8. chain[(l - m) + 1] \in Subagents[n]
  <2>1. m - 1 \notin Off
    <3> HIDE DEF Off
    <3> QED BY SMT, <1>5, <1>7
  <2> QED BY <1>7, <2>1
<1>9. ParentOf[n][chain[l - m]] = chain[(l - m) + 1]
  BY <1>7 DEF Climbs
<1> QED BY <1>2, <1>7, <1>8, <1>9

LEMMA RememberedIsFit ==
  ASSUME NEW seq \in Seq(Ids), IsInjective(seq), NEW chain \in Seq(Ids), IsInjective(chain)
  PROVE  /\ Remembered(seq, chain) \in Seq(Ids)
         /\ Len(Remembered(seq, chain)) <= CacheMax /\ IsInjective(Remembered(seq, chain))
         /\ ToSet(Remembered(seq, chain)) \subseteq ToSet(seq) \cup ToSet(chain)
<1> DEFINE others == Filtered(seq, Ids \ ToSet(chain))
           all == others \o chain
<1>1. /\ others \in Seq(Ids) /\ ToSet(others) \subseteq ToSet(seq)
      /\ ToSet(others) \cap ToSet(chain) = {} /\ IsInjective(others)
  <2>1. others \in Seq(Ids \cap (Ids \ ToSet(chain))) /\ ToSet(others) = ToSet(seq) \cap (Ids \ ToSet(chain))
        /\ IsInjective(others)
    BY FilteredKeeps
  <2>2. others \in Seq(Ids)
    <3> HIDE DEF others
    <3> QED BY <2>1, SeqMonotonic
  <2> QED BY <2>1, <2>2
<1> HIDE DEF others
<1>2. /\ all \in Seq(Ids) /\ Len(all) = Len(others) + Len(chain) /\ DOMAIN all = 1..Len(all)
      /\ \A i \in 1..Len(others) + Len(chain) :
           all[i] = IF i <= Len(others) THEN others[i] ELSE chain[i - Len(others)]
  BY <1>1, ConcatProperties
<1>3. /\ Len(others) \in Nat /\ Len(chain) \in Nat
      /\ DOMAIN others = 1..Len(others) /\ DOMAIN chain = 1..Len(chain)
  BY <1>1
<1>4. \A i \in DOMAIN all :
        \/ i \in DOMAIN others /\ all[i] = others[i] /\ all[i] \in ToSet(others)
        \/ ~(i <= Len(others)) /\ i - Len(others) \in DOMAIN chain /\ all[i] = chain[i - Len(others)]
           /\ all[i] \in ToSet(chain)
  <2> HIDE DEF all
  <2> SUFFICES ASSUME NEW i \in DOMAIN all
               PROVE  \/ i \in DOMAIN others /\ all[i] = others[i] /\ all[i] \in ToSet(others)
                      \/ ~(i <= Len(others)) /\ i - Len(others) \in DOMAIN chain
                         /\ all[i] = chain[i - Len(others)] /\ all[i] \in ToSet(chain)
    OBVIOUS
  <2>1. i \in 1..Len(others) + Len(chain)
    BY <1>2
  <2>2. CASE i <= Len(others)
    <3>1. i \in DOMAIN others /\ all[i] = others[i]
      BY <1>2, <1>3, <2>1, <2>2
    <3> QED BY <3>1 DEF ToSet
  <2>3. CASE ~(i <= Len(others))
    <3>1. i - Len(others) \in DOMAIN chain
      BY <1>3, <2>1, <2>3
    <3>2. all[i] = chain[i - Len(others)]
      BY <1>2, <2>1, <2>3
    <3> QED BY <2>3, <3>1, <3>2 DEF ToSet
  <2> QED BY <2>2, <2>3
<1>5. ToSet(all) \subseteq ToSet(seq) \cup ToSet(chain)
  <2> HIDE DEF all
  <2> QED BY <1>1, <1>4 DEF ToSet
<1>6. IsInjective(all)
  <2> HIDE DEF all
  <2> SUFFICES ASSUME NEW i \in DOMAIN all, NEW j \in DOMAIN all, all[i] = all[j] PROVE i = j
    BY DEF IsInjective
  <2>0. i \in Nat /\ j \in Nat
    BY <1>2
  <2>1. CASE all[i] \in ToSet(others)
    <3>1. i \in DOMAIN others /\ j \in DOMAIN others /\ others[i] = others[j]
      BY <1>1, <1>4, <2>1
    <3> QED BY <1>1, <3>1 DEF IsInjective
  <2>2. CASE all[i] \in ToSet(chain)
    <3>1. /\ i - Len(others) \in DOMAIN chain /\ j - Len(others) \in DOMAIN chain
          /\ chain[i - Len(others)] = chain[j - Len(others)]
      BY <1>1, <1>4, <2>2
    <3>2. i - Len(others) = j - Len(others)
      BY <3>1 DEF IsInjective
    <3> QED BY SMT, <1>3, <2>0, <3>2
  <2> QED BY <1>4, <2>1, <2>2
<1>7. CacheMax \in Nat \ {0}
  BY RegsAreNumbers
<1>8. /\ LastOf(all, CacheMax) \in Seq(Ids) /\ Len(LastOf(all, CacheMax)) <= CacheMax
      /\ IsInjective(LastOf(all, CacheMax)) /\ ToSet(LastOf(all, CacheMax)) \subseteq ToSet(all)
  <2> HIDE DEF all
  <2> QED BY <1>2, <1>6, <1>7, LastOfKeeps
<1>9. Remembered(seq, chain) = LastOf(all, CacheMax)
  BY DEF Remembered, others
<1> HIDE DEF all
<1> QED BY <1>5, <1>8, <1>9

TaskRecords == [owner : Lists \cup {None}, reg : 0..Len(ParentOf), chain : Seq(Ids),
                asked : 0..Len(ParentOf)]
ListRecords == [phase : {"idle", "fetching", "walking"},
                reg : 0..Len(ParentOf), inShare : SUBSET (Ids \cup {Root})]

LEMMA WalksInitEstablishes == WalksInit => WalksInv
<1> SUFFICES ASSUME WalksInit PROVE WalksInv
  OBVIOUS
<1>0. 0 \in 0..Len(ParentOf) /\ <<>> \in Seq(Ids) /\ Len(<<>>) = 0 /\ CacheMax \in Nat /\ 0 <= CacheMax
      /\ DOMAIN <<>> = {} /\ MaxWalks \in Nat /\ 0 <= MaxWalks
  BY RegsAreNumbers
<1>1. IsInjective(<<>>) /\ ToSet(<<>>) = {}
  BY <1>0 DEF IsInjective, ToSet
<1>2. Idle \in TaskRecords /\ NoList \in ListRecords
  BY <1>0 DEF Idle, NoList, TaskRecords, ListRecords
<1>3. WalksTypeOK
  <2>1. known \in [Regs -> Seq(Ids)] /\ \A n \in Regs : Len(known[n]) <= CacheMax /\ IsInjective(known[n])
    BY <1>0, <1>1 DEF WalksInit
  <2>2. task \in [Tasks -> TaskRecords] /\ list \in [Lists -> ListRecords]
    BY <1>2 DEF WalksInit
  <2>3. RuledOutFits
    BY <1>0, <1>1 DEF WalksInit, RuledOutFits
  <2> QED BY <1>0, <2>1, <2>2, <2>3 DEF WalksInit, WalksTypeOK, RuledOutFits, TaskRecords, ListRecords
<1>4. \A w \in Tasks : WalkKept(task[w])
  BY <1>0, <1>1 DEF WalksInit, WalkKept, Idle, Climbs
<1>5. \A l \in Lists : ListKept(list[l])
  BY DEF WalksInit, ListKept, NoList
<1>6. CachesKept
  BY <1>1 DEF WalksInit, CachesKept
<1>7. ListWalks = {}
  BY DEF WalksInit, ListWalks, Busy, Idle
<1>8. inFlight = Cardinality(ListWalks) /\ inFlight <= MaxWalks
  BY <1>0, <1>7, FS_EmptySet DEF WalksInit
<1> QED BY <1>3, <1>4, <1>5, <1>6, <1>8 DEF WalksInv, WalksInit

LEMMA ListWalksAreFinite ==
  IsFiniteSet(ListWalks) /\ Cardinality(ListWalks) \in Nat
BY SessionsAreFinite, FS_Subset, FS_CardinalityType DEF ListWalks

\* What a registration learns, kin if it is the last one, leaves its memory fit.
LEMMA LearnKeeps ==
  ASSUME WalksInv, NEW n \in Regs, n <= lastReg, NEW chain \in Seq(Ids), IsInjective(chain),
         n = lastReg => ToSet(chain) \subseteq Subagents[lastReg],
         Learn(n, chain), UNCHANGED lastReg
  PROVE  /\ known' \in [Regs -> Seq(Ids)]
         /\ \A k \in Regs : Len(known'[k]) <= CacheMax /\ IsInjective(known'[k])
         /\ CachesKept'
<1>0. /\ known \in [Regs -> Seq(Ids)] /\ \A k \in Regs : Len(known[k]) <= CacheMax /\ IsInjective(known[k])
      /\ CachesKept /\ lastReg \in Nat /\ lastReg' = lastReg
      /\ known' = [known EXCEPT ![n] = Remembered(known[n], chain)]
  BY RegsAreNumbers DEF WalksInv, WalksTypeOK, Learn
<1>1. /\ Remembered(known[n], chain) \in Seq(Ids)
      /\ Len(Remembered(known[n], chain)) <= CacheMax /\ IsInjective(Remembered(known[n], chain))
      /\ ToSet(Remembered(known[n], chain)) \subseteq ToSet(known[n]) \cup ToSet(chain)
  BY <1>0, RememberedIsFit
<1>2. /\ known' \in [Regs -> Seq(Ids)]
      /\ \A k \in Regs : known'[k] = IF k = n THEN Remembered(known[n], chain) ELSE known[k]
  BY <1>0, <1>1
<1>3. \A k \in Regs : Len(known'[k]) <= CacheMax /\ IsInjective(known'[k])
  BY <1>0, <1>1, <1>2
<1>4. \A k \in Regs : k > lastReg => known'[k] = <<>>
  <2> SUFFICES ASSUME NEW k \in Regs, k > lastReg PROVE known'[k] = <<>>
    OBVIOUS
  <2>1. k # n
    BY SMT, <1>0, RegsAreNumbers
  <2> QED BY <1>0, <1>2, <2>1 DEF CachesKept
<1>5. ASSUME lastReg # 0 PROVE ToSet(known'[lastReg]) \subseteq Subagents[lastReg]
  <2>1. lastReg \in Regs
    BY <1>0, <1>5, RegsAreNumbers DEF WalksInv, WalksTypeOK
  <2>2. ToSet(known[lastReg]) \subseteq Subagents[lastReg]
    BY <1>0, <1>5 DEF CachesKept, KnownOf
  <2> QED BY <1>1, <1>2, <2>1, <2>2
<1> QED BY <1>0, <1>2, <1>3, <1>4, <1>5 DEF CachesKept, KnownOf

\* Its walks, lists and slots are as they were.
LEMMA WalksStayKept ==
  ASSUME WalksInv, UNCHANGED <<lastReg, inFlight, task, list>>
  PROVE  /\ \A w \in Tasks : WalkKept(task[w])'
         /\ \A l \in Lists : ListKept(list[l])'
         /\ inFlight' = Cardinality(ListWalks') /\ inFlight' <= MaxWalks
<1>1. \A w \in Tasks : WalkKept(task[w])'
  BY DEF WalksInv, WalkKept
<1>2. \A l \in Lists : ListKept(list[l])'
  BY DEF WalksInv, ListKept
<1>3. ListWalks' = ListWalks
  BY DEF ListWalks, Busy
<1> QED BY <1>1, <1>2, <1>3 DEF WalksInv

LEMMA AnnounceKeeps ==
  ASSUME WalksInv, NEW id \in Ids, Announce(id)
  PROVE  WalksInv'
<1>0. /\ reg # 0 /\ reg = lastReg /\ lastReg \in Regs /\ ParentOf[reg][id] \in {Root} \cup KnownOf(reg)
      /\ Learn(reg, <<id>>) /\ UNCHANGED <<regVars, ruledOut, inFlight, task, list, boundVars, appeared>>
  BY RegsAreNumbers DEF WalksInv, WalksTypeOK, Announce
<1>1. <<id>> \in Seq(Ids) /\ IsInjective(<<id>>) /\ ToSet(<<id>>) = {id}
  BY DEF IsInjective, ToSet
<1>2. KnownOf(lastReg) \subseteq Subagents[lastReg]
  BY <1>0 DEF WalksInv, CachesKept
<1>3. id \in Subagents[lastReg]
  BY <1>0, <1>2, SubagentsAreClosed DEF Closed
<1>4. lastReg <= lastReg
  BY <1>0, RegsAreNumbers
<1>5. /\ known' \in [Regs -> Seq(Ids)]
      /\ \A k \in Regs : Len(known'[k]) <= CacheMax /\ IsInjective(known'[k])
      /\ CachesKept'
  BY <1>0, <1>1, <1>3, <1>4, LearnKeeps DEF regVars
<1>6. /\ \A w \in Tasks : WalkKept(task[w])'
      /\ \A l \in Lists : ListKept(list[l])'
      /\ inFlight' = Cardinality(ListWalks') /\ inFlight' <= MaxWalks
  BY <1>0, WalksStayKept DEF regVars
<1>7. WalksTypeOK'
  BY <1>0, <1>5 DEF WalksInv, WalksTypeOK, regVars, boundVars
<1> QED BY <1>0, <1>5, <1>6, <1>7 DEF WalksInv, regVars

LEMMA LapseKeeps ==
  ASSUME WalksInv, Lapse
  PROVE  WalksInv'
<1>0. /\ reg \in Regs
      /\ UNCHANGED <<regVars, known, inFlight, task, list, failures, appeared>>
  BY RegsAreNumbers DEF WalksInv, WalksTypeOK, Lapse
<1>a. RuledOutFits'
  <2>0. RuledOutFits /\ Regs' = Regs
    BY DEF WalksInv, WalksTypeOK, RuledOutFits, Regs
  <2> DEFINE seq == ruledOut[reg]
  <2>1. /\ seq \in Seq(Ids) /\ Len(seq) \in Nat /\ Len(seq) <= CacheMax /\ IsInjective(seq)
        /\ CacheMax \in Nat
    BY <1>0, <2>0, RegsAreNumbers DEF RuledOutFits
  <2>2. PICK young \in 0..Len(seq) - 1 : ruledOut' = [ruledOut EXCEPT ![reg] = LastOf(seq, young)]
    BY DEF Lapse
  <2> HIDE DEF seq
  <2>3. LastOf(seq, young) \in Seq(Ids) /\ Len(LastOf(seq, young)) <= CacheMax /\ IsInjective(LastOf(seq, young))
    <3>1. CASE young = 0
      <4>1. <<>> \in Seq(Ids) /\ Len(<<>>) = 0 /\ DOMAIN <<>> = {} /\ 0 <= CacheMax
        BY <2>1
      <4> QED BY <2>1, <3>1, <4>1, LastOfNone DEF IsInjective
    <3>2. CASE young # 0
      <4>1. young \in Nat \ {0} /\ young <= CacheMax
        BY SMT, <2>1, <3>2
      <4>2. LastOf(seq, young) \in Seq(Ids) /\ Len(LastOf(seq, young)) <= young /\ IsInjective(LastOf(seq, young))
        BY <2>1, <4>1, LastOfKeeps
      <4>3. Len(LastOf(seq, young)) \in Nat
        BY <4>2
      <4>4. Len(LastOf(seq, young)) <= CacheMax
        BY SMT, <2>1, <4>1, <4>2, <4>3
      <4> QED BY <4>2, <4>4
    <3> QED BY <3>1, <3>2
  <2> QED BY <1>0, <2>0, <2>2, <2>3 DEF RuledOutFits
<1>1. lapses' \in Nat
  BY DEF WalksInv, WalksTypeOK, Lapse
<1>2. /\ \A w \in Tasks : WalkKept(task[w])'
      /\ \A l \in Lists : ListKept(list[l])'
      /\ inFlight' = Cardinality(ListWalks') /\ inFlight' <= MaxWalks
  BY <1>0, WalksStayKept DEF regVars
<1>3. WalksTypeOK'
  BY <1>0, <1>a, <1>1 DEF WalksInv, WalksTypeOK, RuledOutFits, regVars
<1>4. CachesKept'
  BY <1>0 DEF WalksInv, CachesKept, KnownOf, regVars
<1> QED BY <1>0, <1>2, <1>3, <1>4 DEF WalksInv, regVars

\* A later registration has none of what is under way.
LEMMA RegisterKeeps ==
  ASSUME WalksInv, Register
  PROVE  WalksInv'
<1>0. /\ lastReg \in Nat /\ lastReg' = lastReg + 1 /\ lastReg' \in Regs /\ reg' = lastReg' /\ lastReg' \in Nat
      /\ UNCHANGED <<alive, known, ruledOut, inFlight, task, list, failures, lapses>> /\ appeared' = {}
  <2>1. lastReg \in Nat /\ Len(ParentOf) \in Nat /\ lastReg < Len(ParentOf) /\ Regs = 1..Len(ParentOf)
    BY RegsAreNumbers DEF WalksInv, WalksTypeOK, Register
  <2>2. lastReg + 1 \in 1..Len(ParentOf)
    BY SMT, <2>1
  <2> QED BY <2>1, <2>2 DEF Register, cacheVars, boundVars
<1>1. WalksTypeOK'
  <2>1. lastReg' \in 0..Len(ParentOf)
    BY <1>0, RegsAreNumbers
  <2> QED BY <1>0, <2>1 DEF WalksInv, WalksTypeOK
<1>2. ASSUME NEW w \in Tasks PROVE WalkKept(task[w])'
  <2> DEFINE t == task[w]
  <2>1. WalkKept(t) /\ t' = t /\ t.reg \in Nat
    BY <1>0, RegsAreNumbers DEF WalksInv, WalksTypeOK
  <2>2. t.reg <= lastReg
    BY <2>1 DEF WalkKept
  <2> HIDE DEF t
  <2>3. t.reg <= lastReg' /\ t.reg # lastReg'
    BY SMT, <1>0, <2>1, <2>2
  <2>4. IsInjective(t.chain) /\ (t.chain # <<>> => t.reg # 0)
        /\ (t.owner # None => t.chain # <<>> /\ list'[t.owner].phase = "walking" /\ list'[t.owner].reg = t.reg)
    BY <1>0, <2>1 DEF WalkKept
  <2> QED BY <2>1, <2>3, <2>4 DEF WalkKept, t
<1>3. ASSUME NEW l \in Lists PROVE ListKept(list[l])'
  <2> DEFINE r == list[l]
  <2>1. ListKept(r) /\ r' = r /\ r.reg \in Nat
    BY <1>0, RegsAreNumbers DEF WalksInv, WalksTypeOK
  <2>2. r.reg <= lastReg /\ (r.phase # "idle" => r.reg # 0)
    BY <2>1 DEF ListKept
  <2> HIDE DEF r
  <2>3. r.reg <= lastReg' /\ r.reg # lastReg'
    BY SMT, <1>0, <2>1, <2>2
  <2> QED BY <2>1, <2>2, <2>3 DEF ListKept, r
<1>4. CachesKept'
  <2>1. \A n \in Regs : n > lastReg' => n > lastReg
    BY SMT, <1>0, RegsAreNumbers
  <2>2. \A n \in Regs : n > lastReg' => known'[n] = <<>>
    BY <1>0, <2>1 DEF WalksInv, CachesKept
  <2>3. lastReg' > lastReg
    BY SMT, <1>0
  <2>4. known'[lastReg'] = <<>>
    BY <1>0, <2>3 DEF WalksInv, CachesKept
  <2>5. ToSet(<<>>) = {}
    BY DEF ToSet
  <2> QED BY <2>2, <2>4, <2>5 DEF CachesKept, KnownOf
<1>5. ListWalks' = ListWalks /\ inFlight' = inFlight
  BY <1>0 DEF ListWalks, Busy
<1>6. inFlight' = Cardinality(ListWalks') /\ inFlight' <= MaxWalks
  BY <1>5 DEF WalksInv
<1> QED BY <1>0, <1>1, <1>2, <1>3, <1>4, <1>6 DEF WalksInv

LEMMA EndOrSpawnKeeps ==
  ASSUME WalksInv, EndShare \/ \E id \in Ids : Spawn(id)
  PROVE  WalksInv'
<1>0. /\ UNCHANGED <<lastReg, known, ruledOut, inFlight, task, list, failures, lapses>>
      /\ reg' \in {0, reg} /\ alive' \subseteq Ids /\ appeared' \subseteq Ids
  BY DEF EndShare, Spawn, cacheVars, boundVars, WalksInv, WalksTypeOK
<1>1. WalksTypeOK'
  BY <1>0, RegsAreNumbers DEF WalksInv, WalksTypeOK
<1>2. /\ \A w \in Tasks : WalkKept(task[w])'
      /\ \A l \in Lists : ListKept(list[l])'
      /\ inFlight' = Cardinality(ListWalks') /\ inFlight' <= MaxWalks
  BY <1>0, WalksStayKept
<1>3. CachesKept'
  BY <1>0 DEF WalksInv, CachesKept, KnownOf
<1> QED BY <1>0, <1>1, <1>2, <1>3 DEF WalksInv

\* A first request, to the bridge that is there.
LEMMA AsksAtFirst ==
  ASSUME WalksInv, NEW owner \in Lists \cup {None}, NEW n \in Regs, n <= lastReg, NEW id \in Ids,
         NEW t, t = Asks(owner, n, <<id>>)
  PROVE  /\ t \in TaskRecords
         /\ IsInjective(t.chain) /\ t.reg <= lastReg /\ t.chain # <<>> /\ t.reg # 0
         /\ t.asked \in {0, lastReg} /\ Climbs(lastReg, t.chain)
         /\ t.owner = owner /\ t.reg = n
<1>1. <<id>> \in Seq(Ids) /\ IsInjective(<<id>>) /\ <<id>> # <<>> /\ Len(<<id>>) = 1
  BY DEF IsInjective
<1>2. Climbs(lastReg, <<id>>)
  BY <1>1 DEF Climbs
<1>3. n # 0 /\ n \in 0..Len(ParentOf)
  BY RegsAreNumbers
<1>4. t = [owner |-> owner, reg |-> n, chain |-> <<id>>, asked |-> reg]
  BY DEF Asks
<1>5. reg \in {0, lastReg} /\ reg \in 0..Len(ParentOf)
  BY DEF WalksInv, WalksTypeOK
<1>6. t \in TaskRecords
  <2>1. \A chain \in Seq(Ids) : [owner |-> owner, reg |-> n, chain |-> chain, asked |-> reg] \in TaskRecords
    BY <1>3, <1>5 DEF TaskRecords
  <2> QED BY <1>1, <1>4, <2>1
<1>7. t.owner = owner /\ t.reg = n /\ t.chain = <<id>> /\ t.asked = reg
  BY <1>4
<1> QED BY <1>1, <1>2, <1>3, <1>5, <1>6, <1>7

LEMMA ReadKeeps ==
  ASSUME WalksInv, NEW w \in Reads, NEW id \in Ids, Read(w, id)
  PROVE  WalksInv'
<1> DEFINE t == Asks(None, reg, <<id>>)
<1>0. /\ ~Busy(w) /\ reg \in Regs /\ reg = lastReg /\ reg <= lastReg /\ w \in Tasks
      /\ task' = [task EXCEPT ![w] = t]
      /\ UNCHANGED <<regVars, cacheVars, inFlight, list, boundVars, appeared>>
  BY RegsAreNumbers DEF WalksInv, WalksTypeOK, Read, Tasks
<1>1. /\ t \in TaskRecords
      /\ IsInjective(t.chain) /\ t.reg <= lastReg /\ t.chain # <<>> /\ t.reg # 0
      /\ t.asked \in {0, lastReg} /\ Climbs(lastReg, t.chain)
      /\ t.owner = None
  BY <1>0, AsksAtFirst
<1> HIDE DEF t
<1>2. task \in [Tasks -> TaskRecords]
  BY DEF WalksInv, WalksTypeOK, TaskRecords
<1>3. task' \in [Tasks -> TaskRecords] /\ \A x \in Tasks : task'[x] = IF x = w THEN t ELSE task[x]
  BY <1>0, <1>1, <1>2
<1>4. WalksTypeOK'
  BY <1>0, <1>3 DEF WalksInv, WalksTypeOK, TaskRecords, regVars, cacheVars, boundVars
<1>5. \A x \in Tasks : WalkKept(task[x])'
  BY <1>0, <1>1, <1>3 DEF WalksInv, WalkKept, regVars
<1>6. \A l \in Lists : ListKept(list[l])'
  BY <1>0 DEF WalksInv, ListKept, regVars
<1>7. CachesKept'
  BY <1>0 DEF WalksInv, CachesKept, KnownOf, regVars, cacheVars
<1>8. ListWalks' = ListWalks
  BY <1>0, <1>1, <1>3 DEF ListWalks, Busy
<1>9. inFlight' = Cardinality(ListWalks') /\ inFlight' <= MaxWalks
  BY <1>0, <1>8 DEF WalksInv
<1> QED BY <1>0, <1>4, <1>5, <1>6, <1>7, <1>9 DEF WalksInv, regVars

\* A list none of whose walks is under way may change.
LEMMA ListStepKeeps ==
  ASSUME WalksInv, NEW l \in Lists, NEW r \in ListRecords, ListKept(r),
         \A w \in Tasks : task[w].owner # l,
         list' = [list EXCEPT ![l] = r], appeared' \subseteq Ids,
         UNCHANGED <<regVars, cacheVars, inFlight, task, boundVars>>
  PROVE  WalksInv'
<1>1. list \in [Lists -> ListRecords]
  BY DEF WalksInv, WalksTypeOK, ListRecords
<1>2. list' \in [Lists -> ListRecords] /\ \A x \in Lists : list'[x] = IF x = l THEN r ELSE list[x]
  BY <1>1
<1>3. WalksTypeOK'
  BY <1>2 DEF WalksInv, WalksTypeOK, ListRecords, regVars, cacheVars, boundVars
<1>4. ASSUME NEW w \in Tasks PROVE WalkKept(task[w])'
  <2>1. WalkKept(task[w]) /\ task[w].owner \in Lists \cup {None} /\ task[w].owner # l
    BY DEF WalksInv, WalksTypeOK
  <2> QED BY <1>2, <2>1 DEF WalkKept, regVars
<1>5. \A x \in Lists : ListKept(list[x])'
  BY <1>2 DEF WalksInv, ListKept, regVars
<1>6. CachesKept'
  BY DEF WalksInv, CachesKept, KnownOf, regVars, cacheVars
<1>7. ListWalks' = ListWalks
  BY DEF ListWalks, Busy
<1>8. inFlight' = Cardinality(ListWalks') /\ inFlight' <= MaxWalks
  BY <1>7 DEF WalksInv
<1> QED BY <1>3, <1>4, <1>5, <1>6, <1>8 DEF WalksInv, regVars

LEMMA ListRequestsKeep ==
  ASSUME WalksInv, NEW l \in Lists, Poll(l) \/ Show(l) \/ ListFails(l)
  PROVE  WalksInv'
<1>0. 0 \in 0..Len(ParentOf) /\ lastReg \in Nat /\ 0 <= lastReg /\ reg \in 0..Len(ParentOf) /\ reg \in {0, lastReg}
      /\ reg <= lastReg
  BY RegsAreNumbers DEF WalksInv, WalksTypeOK
<1>1. NoList \in ListRecords /\ ListKept(NoList)
  BY <1>0 DEF NoList, ListRecords, ListKept
<1>2. ASSUME list[l].phase # "walking" PROVE \A w \in Tasks : task[w].owner # l
  BY <1>2, RegsAreNumbers DEF WalksInv, WalkKept
<1>3. CASE Poll(l)
  <2> DEFINE r == [phase |-> "fetching", reg |-> reg, inShare |-> {}]
  <2>1. r \in ListRecords /\ ListKept(r)
    BY <1>0, <1>3 DEF ListRecords, ListKept, Poll
  <2>2. list' = [list EXCEPT ![l] = r]
    BY <1>3 DEF Poll
  <2>3. list[l].phase # "walking" /\ appeared' \subseteq Ids
        /\ UNCHANGED <<regVars, cacheVars, inFlight, task, boundVars>>
    BY <1>3 DEF Poll, WalksInv, WalksTypeOK
  <2> HIDE DEF r
  <2> QED BY <1>2, <2>1, <2>2, <2>3, ListStepKeeps
<1>4. CASE Show(l)
  <2>1. /\ list' = [list EXCEPT ![l] = NoList]
        /\ UNCHANGED <<regVars, cacheVars, inFlight, task, boundVars>>
    BY <1>4 DEF Show
  <2>2. appeared' \subseteq Ids
    BY <1>4 DEF Show, WalksInv, WalksTypeOK
  <2>3. \A w \in Tasks : task[w].owner # l
    BY <1>4, RegsAreNumbers DEF Show, WalksInv, WalkKept, Busy
  <2> QED BY <1>1, <2>1, <2>2, <2>3, ListStepKeeps
<1>5. CASE ListFails(l)
  <2>1. /\ list' = [list EXCEPT ![l] = NoList] /\ list[l].phase # "walking"
        /\ UNCHANGED <<regVars, cacheVars, inFlight, task, boundVars>> /\ appeared' \subseteq Ids
    BY <1>5 DEF ListFails, WalksInv, WalksTypeOK
  <2> QED BY <1>1, <1>2, <2>1, ListStepKeeps
<1> QED BY <1>3, <1>4, <1>5

\* A walk ends: what it proved is remembered, and its list's slot is free.
LEMMA DecideKeeps ==
  ASSUME WalksInv, NEW w \in Tasks, Busy(w), NEW verdict \in {"true", "false", "undefined"},
         verdict = "true" /\ task[w].reg = lastReg => ToSet(task[w].chain) \subseteq Subagents[lastReg],
         Decide(w, verdict), failures' \in Nat, UNCHANGED <<regVars, lapses, appeared>>
  PROVE  WalksInv'
<1> DEFINE t == task[w]
           l == t.owner
           id == Head(t.chain)
<1>0. /\ t \in TaskRecords /\ t.chain # <<>> /\ WalkKept(t)
      /\ task \in [Tasks -> TaskRecords] /\ list \in [Lists -> ListRecords]
      /\ lastReg' = lastReg /\ reg' = reg /\ alive' = alive /\ lastReg \in Nat
  BY RegsAreNumbers DEF WalksInv, WalksTypeOK, TaskRecords, ListRecords, Busy, regVars
<1>1. /\ t.chain \in Seq(Ids) /\ IsInjective(t.chain) /\ t.reg \in Regs /\ t.reg <= lastReg
      /\ l \in Lists \cup {None}
  BY <1>0, RegsAreNumbers DEF TaskRecords, WalkKept
<1>2. id \in Ids /\ id \in ToSet(t.chain)
  <2> DEFINE c == t.chain
  <2>1. c \in Seq(Ids) /\ c # <<>>
    BY <1>0, <1>1
  <2> HIDE DEF c
  <2>2. Len(c) \in Nat \ {0} /\ DOMAIN c = 1..Len(c)
    BY <2>1
  <2>3. Head(c) = c[1] /\ 1 \in DOMAIN c /\ c[1] \in Ids
    BY <2>1, <2>2
  <2> QED BY <2>3 DEF ToSet, c
<1>3. /\ known' \in [Regs -> Seq(Ids)]
      /\ \A n \in Regs : Len(known'[n]) <= CacheMax /\ IsInjective(known'[n])
      /\ CachesKept'
  <2>1. CASE verdict = "true"
    <3>1. Learn(t.reg, t.chain)
      BY <2>1 DEF Decide
    <3>2. t.reg = lastReg => ToSet(t.chain) \subseteq Subagents[lastReg]
      BY <2>1
    <3> HIDE DEF t
    <3> QED BY <1>0, <1>1, <3>1, <3>2, LearnKeeps
  <2>2. CASE verdict # "true"
    <3>1. UNCHANGED known
      BY <2>2 DEF Decide
    <3> QED BY <1>0, <3>1 DEF WalksInv, WalksTypeOK, CachesKept, KnownOf
  <2> QED BY <2>1, <2>2
<1>4. RuledOutFits'
  <2>1. RuledOutFits /\ Regs' = Regs
    BY DEF WalksInv, WalksTypeOK, RuledOutFits, Regs
  <2>2. \/ ruledOut' = ruledOut
        \/ ruledOut' = [ruledOut EXCEPT ![t.reg] = Remembered(@, <<id>>)]
    BY DEF Decide
  <2>3. <<id>> \in Seq(Ids) /\ IsInjective(<<id>>)
    BY <1>2 DEF IsInjective
  <2>4. ruledOut[t.reg] \in Seq(Ids) /\ IsInjective(ruledOut[t.reg])
    BY <1>1, <2>1 DEF RuledOutFits
  <2> DEFINE more == Remembered(ruledOut[t.reg], <<id>>)
  <2>5. more \in Seq(Ids) /\ Len(more) <= CacheMax /\ IsInjective(more)
    BY <2>3, <2>4, RememberedIsFit
  <2> HIDE DEF more
  <2>6. ruledOut' \in {ruledOut, [ruledOut EXCEPT ![t.reg] = more]}
    BY <2>2 DEF more
  <2> HIDE DEF t
  <2> QED BY <1>1, <2>1, <2>5, <2>6 DEF RuledOutFits
<1>5. Idle \in TaskRecords /\ Idle.chain = <<>> /\ Idle.owner = None
  BY DEF Idle, TaskRecords
<1>6. /\ task' = [task EXCEPT ![w] = Idle] /\ task' \in [Tasks -> TaskRecords]
      /\ \A x \in Tasks : task'[x] = IF x = w THEN Idle ELSE task[x]
  BY <1>0, <1>5 DEF Decide
<1>7. \/ list' = list
      \/ /\ l \in Lists /\ list' = [list EXCEPT ![l].inShare = @ \cup {id}]
         /\ verdict = "true"
  BY <1>1 DEF Decide
<1>8. /\ list' \in [Lists -> ListRecords]
      /\ \A x \in Lists : list'[x].phase = list[x].phase /\ list'[x].reg = list[x].reg
      /\ \A x \in Lists : list'[x].inShare = IF l \in Lists /\ x = l /\ list' # list
                                             THEN list[x].inShare \cup {id} ELSE list[x].inShare
  <2>1. CASE list' = list
    BY <1>0, <2>1
  <2>2. CASE list' # list
    <3>1. l \in Lists /\ list' = [list EXCEPT ![l].inShare = @ \cup {id}] /\ list[l] \in ListRecords
      BY <1>0, <1>7, <2>2
    <3>2. [list[l] EXCEPT !.inShare = @ \cup {id}] \in ListRecords
      BY <1>2, <3>1 DEF ListRecords
    <3>3. list' = [list EXCEPT ![l] = [list[l] EXCEPT !.inShare = @ \cup {id}]]
      BY <1>0, <3>1
    <3> HIDE DEF l, id
    <3>4. /\ list' \in [Lists -> ListRecords]
          /\ \A x \in Lists : list'[x] = IF x = l THEN [list[l] EXCEPT !.inShare = @ \cup {id}] ELSE list[x]
      BY <1>0, <3>1, <3>2, <3>3
    <3>5. /\ [list[l] EXCEPT !.inShare = @ \cup {id}].phase = list[l].phase
          /\ [list[l] EXCEPT !.inShare = @ \cup {id}].reg = list[l].reg
          /\ [list[l] EXCEPT !.inShare = @ \cup {id}].inShare = list[l].inShare \cup {id}
      BY <3>1 DEF ListRecords
    <3> QED BY <2>2, <3>1, <3>4, <3>5
  <2> QED BY <2>1, <2>2
<1>9. ASSUME NEW x \in Tasks PROVE WalkKept(task[x])'
  <2>1. CASE x = w
    <3>1. IsInjective(<<>>) /\ Climbs(lastReg, <<>>) /\ 0 <= lastReg
      BY <1>0 DEF IsInjective, Climbs
    <3> QED BY <1>0, <1>6, <2>1, <3>1 DEF WalkKept, Idle, Climbs
  <2>2. CASE x # w
    <3>1. task'[x] = task[x] /\ WalkKept(task[x]) /\ task[x].owner \in Lists \cup {None}
      BY <1>6, <2>2 DEF WalksInv, WalksTypeOK
    <3>2. task[x].owner # None =>
            list'[task[x].owner].phase = list[task[x].owner].phase /\ list'[task[x].owner].reg = list[task[x].owner].reg
      BY <1>8, <3>1
    <3> QED BY <1>0, <3>1, <3>2 DEF WalkKept, Climbs
  <2> QED BY <2>1, <2>2
<1>10. ASSUME NEW x \in Lists PROVE ListKept(list[x])'
  <2>1. ListKept(list[x]) /\ list'[x].phase = list[x].phase /\ list'[x].reg = list[x].reg
    BY <1>8 DEF WalksInv
  <2>2. CASE list'[x].inShare = list[x].inShare
    BY <1>0, <2>1, <2>2 DEF ListKept
  <2>3. CASE list'[x].inShare # list[x].inShare
    <3>1. x = l /\ list' # list /\ l \in Lists /\ verdict = "true" /\ list'[x].inShare = list[x].inShare \cup {id}
      BY <1>7, <1>8, <2>3
    <3>2. l # None
      BY <3>1, RegsAreNumbers
    <3>3. list[x].reg = t.reg
      BY <1>0, <3>1, <3>2 DEF WalkKept
    <3>4. ASSUME list[x].reg = lastReg PROVE id \in Subagents[lastReg]
      BY <1>2, <3>1, <3>3, <3>4
    <3> HIDE DEF id
    <3> QED BY <1>0, <2>1, <3>1, <3>4 DEF ListKept
  <2> QED BY <2>2, <2>3
<1>11. /\ inFlight' = Cardinality(ListWalks') /\ inFlight' <= MaxWalks /\ inFlight' \in Nat
  <2>0. inFlight = Cardinality(ListWalks) /\ inFlight <= MaxWalks /\ IsFiniteSet(ListWalks)
        /\ Cardinality(ListWalks) \in Nat /\ MaxWalks \in Nat
    BY ListWalksAreFinite, RegsAreNumbers DEF WalksInv
  <2>1. ListWalks' = ListWalks \ {w}
    BY <1>5, <1>6 DEF ListWalks, Busy
  <2>2. CASE l = None
    <3>1. ListWalks' = ListWalks
      BY <2>1, <2>2 DEF ListWalks
    <3>2. inFlight' = inFlight
      BY <2>2 DEF Decide, ReleasesSlot
    <3> QED BY <2>0, <3>1, <3>2
  <2>3. CASE l # None
    <3>1. w \in ListWalks
      BY <2>3 DEF ListWalks
    <3>2. inFlight' = inFlight - 1
      BY <2>3 DEF Decide, ReleasesSlot
    <3>3. IsFiniteSet(ListWalks \ {w}) /\ Cardinality(ListWalks \ {w}) = Cardinality(ListWalks) - 1
          /\ Cardinality(ListWalks \ {w}) \in Nat
      BY <2>0, <3>1, FS_RemoveElement, FS_CardinalityType
    <3> QED BY <2>0, <2>1, <3>2, <3>3
  <2> QED BY <2>2, <2>3
<1>12. WalksTypeOK'
  <2>1. /\ reg' \in 0..Len(ParentOf) /\ lastReg' \in 0..Len(ParentOf)
        /\ alive' \subseteq Ids /\ lapses' \in Nat /\ appeared' \subseteq Ids
    BY DEF WalksInv, WalksTypeOK, regVars
  <2> QED BY <1>3, <1>4, <1>6, <1>8, <1>11, <2>1 DEF WalksTypeOK, RuledOutFits, TaskRecords, ListRecords
<1> QED BY <1>0, <1>3, <1>9, <1>10, <1>11, <1>12 DEF WalksInv

LEMMA AnswerKeeps ==
  ASSUME WalksInv, NEW w \in Tasks, Answer(w)
  PROVE  WalksInv'
<1> DEFINE t == task[w]
           parent == ParentOf[t.asked][Last(t.chain)]
<1>0. /\ Busy(w) /\ t.asked # 0 /\ UNCHANGED <<regVars, boundVars, appeared>>
      /\ \/ Decide(w, "false")
         \/ parent \in {Root} \cup KnownOf(t.reg) /\ Decide(w, "true")
         \/ /\ parent \notin {Root, None} /\ parent \notin ToSet(t.chain)
            /\ task' = [task EXCEPT ![w] = Asks(t.owner, t.reg, Append(t.chain, parent))]
            /\ UNCHANGED <<known, list, ruledOut, inFlight>>
  BY DEF Answer
<1>1. /\ t \in TaskRecords /\ t.chain # <<>> /\ WalkKept(t)
      /\ task \in [Tasks -> TaskRecords] /\ failures' \in Nat /\ lapses' = lapses /\ lastReg \in Nat
      /\ lastReg' = lastReg /\ reg \in {0, lastReg} /\ reg \in 0..Len(ParentOf)
  BY <1>0, RegsAreNumbers DEF WalksInv, WalksTypeOK, TaskRecords, Busy, regVars, boundVars
<1>2. /\ t.chain \in Seq(Ids) /\ IsInjective(t.chain) /\ t.reg \in Regs /\ t.reg <= lastReg
      /\ t.owner \in Lists \cup {None} /\ t.asked \in Regs
      /\ t.reg = lastReg => t.asked = lastReg /\ Climbs(lastReg, t.chain)
  BY <1>0, <1>1, RegsAreNumbers DEF TaskRecords, WalkKept
<1>3. Last(t.chain) \in Ids /\ parent \in Ids \cup {Root, None}
  <2> DEFINE c == t.chain
  <2>1. c \in Seq(Ids) /\ c # <<>>
    BY <1>1, <1>2
  <2> HIDE DEF c
  <2>2. Last(c) \in Ids
    BY <2>1 DEF Last
  <2> QED BY <1>2, <2>2, RegsAreNumbers DEF c
<1>4. CASE Decide(w, "false")
  BY <1>0, <1>1, <1>4, DecideKeeps DEF boundVars
<1>5. CASE parent \in {Root} \cup KnownOf(t.reg) /\ Decide(w, "true")
  <2>1. ASSUME t.reg = lastReg PROVE ToSet(t.chain) \subseteq Subagents[lastReg]
    <3>1. lastReg \in Regs /\ lastReg # 0
      BY <1>2, <2>1, RegsAreNumbers
    <3>2. KnownOf(lastReg) \subseteq Subagents[lastReg]
      BY <3>1 DEF WalksInv, CachesKept
    <3>3. ParentOf[lastReg][Last(t.chain)] \in {Root} \cup Subagents[lastReg]
      BY <1>2, <1>5, <2>1, <3>2
    <3> HIDE DEF t
    <3> QED BY <1>1, <1>2, <2>1, <3>1, <3>3, ChainsAreKin
  <2> QED BY <1>0, <1>1, <1>5, <2>1, DecideKeeps DEF boundVars
<1>6. CASE /\ parent \notin {Root, None} /\ parent \notin ToSet(t.chain)
           /\ task' = [task EXCEPT ![w] = Asks(t.owner, t.reg, Append(t.chain, parent))]
           /\ UNCHANGED <<known, list, ruledOut, inFlight>>
  <2> DEFINE c == t.chain
             longer == Append(c, parent)
             next == [owner |-> t.owner, reg |-> t.reg, chain |-> longer, asked |-> reg]
  <2>1. /\ longer \in Seq(Ids) /\ Len(c) \in Nat \ {0} /\ Len(longer) = Len(c) + 1
        /\ DOMAIN c = 1..Len(c) /\ DOMAIN longer = 1..Len(longer)
        /\ \A i \in 1..Len(c) : longer[i] = c[i]
        /\ longer[Len(c) + 1] = parent
    <3>1. c \in Seq(Ids) /\ c # <<>> /\ parent \in Ids
      BY <1>1, <1>2, <1>3, <1>6
    <3> HIDE DEF c, parent
    <3> QED BY <3>1
  <2>2. IsInjective(longer) /\ longer # <<>>
    <3>1. \A i \in 1..Len(c) : c[i] # parent
      BY <1>6, <2>1 DEF ToSet
    <3>2. \A i, j \in 1..Len(c) : c[i] = c[j] => i = j
      BY <1>2, <2>1 DEF IsInjective
    <3> HIDE DEF c, parent, longer
    <3>3. \A i \in 1..Len(longer) : i \in 1..Len(c) \/ i = Len(c) + 1
      BY SMT, <2>1
    <3>4. \A i, j \in 1..Len(longer) : longer[i] = longer[j] => i = j
      BY <2>1, <3>1, <3>2, <3>3
    <3> QED BY <2>1, <3>4 DEF IsInjective
  <2>3. ASSUME t.reg = lastReg PROVE Climbs(lastReg, longer)
    <3>1. \A i \in 1..Len(c) - 1 : ParentOf[lastReg][c[i]] = c[i + 1]
      BY <1>2, <2>3 DEF Climbs
    <3>2. ParentOf[lastReg][c[Len(c)]] = parent
      BY <1>2, <2>3 DEF Last
    <3> HIDE DEF c, parent, longer
    <3>3. \A i \in 1..Len(longer) - 1 :
            \/ i \in 1..Len(c) - 1 /\ i \in 1..Len(c) /\ i + 1 \in 1..Len(c)
            \/ i = Len(c) /\ i \in 1..Len(c)
      <4>1. \A a \in Nat \ {0} : \A i \in 1..(a + 1) - 1 :
              (i \in 1..a - 1 /\ i \in 1..a /\ i + 1 \in 1..a) \/ (i = a /\ i \in 1..a)
        BY SMT
      <4> QED BY <2>1, <4>1
    <3>4. \A i \in 1..Len(longer) - 1 : ParentOf[lastReg][longer[i]] = longer[i + 1]
      BY <2>1, <3>1, <3>2, <3>3
    <3> QED BY <3>4 DEF Climbs
  <2>4. next \in TaskRecords /\ next.owner = t.owner /\ next.reg = t.reg /\ next.chain = longer /\ next.asked = reg
    <3> HIDE DEF longer
    <3> QED BY <1>1, <1>2, <2>1, RegsAreNumbers DEF TaskRecords
  <2>5. task' = [task EXCEPT ![w] = next]
    BY <1>6 DEF Asks
  <2> HIDE DEF next, longer, c
  <2>6. task' \in [Tasks -> TaskRecords] /\ \A x \in Tasks : task'[x] = IF x = w THEN next ELSE task[x]
    BY <1>1, <2>4, <2>5
  <2>7. WalksTypeOK'
    BY <1>0, <1>6, <2>6 DEF WalksInv, WalksTypeOK, TaskRecords, regVars, boundVars
  <2>8. ASSUME NEW x \in Tasks PROVE WalkKept(task[x])'
    <3>1. CASE x = w
      <4>1. WalkKept(next)
        BY <1>1, <1>2, <2>2, <2>3, <2>4 DEF WalkKept
      <4> QED BY <1>1, <1>6, <2>6, <3>1, <4>1 DEF WalkKept, Climbs
    <3>2. CASE x # w
      BY <1>1, <1>6, <2>6, <3>2 DEF WalksInv, WalkKept, Climbs
    <3> QED BY <3>1, <3>2
  <2>9. \A x \in Lists : ListKept(list[x])'
    BY <1>1, <1>6 DEF WalksInv, ListKept
  <2>10. CachesKept'
    BY <1>1, <1>6 DEF WalksInv, CachesKept, KnownOf
  <2>11. ListWalks' = ListWalks
    BY <1>0, <2>2, <2>4, <2>6 DEF ListWalks, Busy
  <2>12. inFlight' = Cardinality(ListWalks') /\ inFlight' <= MaxWalks
    BY <1>6, <2>11 DEF WalksInv
  <2> QED BY <1>0, <2>7, <2>8, <2>9, <2>10, <2>12 DEF WalksInv, regVars
<1> QED BY <1>0, <1>4, <1>5, <1>6

LEMMA FailKeeps ==
  ASSUME WalksInv, NEW w \in Tasks, Fail(w)
  PROVE  WalksInv'
<1>1. failures' \in Nat
  BY DEF Fail, WalksInv, WalksTypeOK
<1>2. Busy(w) /\ Decide(w, "undefined") /\ UNCHANGED <<regVars, lapses, appeared>>
  BY DEF Fail
<1> QED BY <1>1, <1>2, DecideKeeps

LEMMA LesserOfTwo ==
  ASSUME NEW a \in Nat, NEW b \in Nat
  PROVE  Min({a, b}) \in {a, b} /\ Min({a, b}) <= b
<1>1. {a, b} \in SUBSET Nat /\ {a, b} # {}
  OBVIOUS
<1>2. \E n \in {a, b} : \A m \in {a, b} : n <= m
  BY <1>1, LeastOfNumbers
<1>3. Min({a, b}) \in {a, b} /\ \A m \in {a, b} : Min({a, b}) <= m
  BY <1>2 DEF Min
<1> QED BY <1>3

\* A list's walks take slots that are free, one each.
LEMMA StartWalksKeeps ==
  ASSUME WalksInv, NEW l \in Lists, StartWalks(l)
  PROVE  WalksInv'
<1> DEFINE n == list[l].reg
           unknown == alive \ (KnownOf(n) \cup ToSet(ruledOut[n]))
           free == {w \in Walks : ~Busy(w)}
<1>0. /\ list[l].phase = "fetching" /\ UNCHANGED <<regVars, cacheVars, boundVars, appeared>>
      /\ list' = [list EXCEPT ![l] = [phase |-> "walking", reg |-> n, inShare |-> Seen(n)]]
      /\ \E go \in SUBSET unknown :
           /\ Cardinality(go) = Min({Cardinality(unknown), FreeSlots})
           /\ \E at \in [go -> free] :
                /\ IsInjective(at)
                /\ task' = [w \in Tasks |->
                     IF \E i \in go : at[i] = w
                     THEN Asks(l, n, <<CHOOSE i \in go : at[i] = w>>) ELSE task[w]]
           /\ inFlight' = inFlight + Cardinality(go)
  BY DEF StartWalks
<1>1. PICK go \in SUBSET unknown :
        /\ Cardinality(go) = Min({Cardinality(unknown), FreeSlots})
        /\ \E at \in [go -> free] :
             /\ IsInjective(at)
             /\ task' = [w \in Tasks |->
                  IF \E i \in go : at[i] = w
                  THEN Asks(l, n, <<CHOOSE i \in go : at[i] = w>>) ELSE task[w]]
        /\ inFlight' = inFlight + Cardinality(go)
  BY <1>0
<1>2. PICK at \in [go -> free] :
        /\ IsInjective(at)
        /\ task' = [w \in Tasks |->
             IF \E i \in go : at[i] = w
             THEN Asks(l, n, <<CHOOSE i \in go : at[i] = w>>) ELSE task[w]]
  BY <1>1
<1>3. /\ task \in [Tasks -> TaskRecords] /\ list \in [Lists -> ListRecords] /\ list[l] \in ListRecords
      /\ n \in Regs /\ n <= lastReg /\ ListKept(list[l]) /\ alive \subseteq Ids
      /\ lastReg' = lastReg /\ reg' = reg /\ lastReg \in Nat
  <2>1. task \in [Tasks -> TaskRecords] /\ list \in [Lists -> ListRecords] /\ ListKept(list[l]) /\ alive \subseteq Ids
        /\ lastReg \in Nat
    BY RegsAreNumbers DEF WalksInv, WalksTypeOK, TaskRecords, ListRecords
  <2>2. n \in 0..Len(ParentOf) /\ n # 0 /\ n <= lastReg
    BY <1>0, <2>1 DEF ListRecords, ListKept
  <2> QED BY <1>0, <2>1, <2>2, RegsAreNumbers DEF regVars
<1>4. go \subseteq Ids /\ IsFiniteSet(go) /\ Cardinality(go) \in Nat /\ Cardinality(unknown) \in Nat
  <2>1. unknown \in SUBSET Ids
    BY <1>3
  <2> HIDE DEF unknown
  <2>2. go \in SUBSET Ids
    BY <2>1
  <2> QED BY <2>1, <2>2, SessionsAreFinite, FS_Subset, FS_CardinalityType
<1>5. /\ inFlight' \in Nat /\ inFlight' <= MaxWalks
      /\ inFlight' = Cardinality(ListWalks) + Cardinality(go)
  <2>1. inFlight \in Nat /\ inFlight = Cardinality(ListWalks) /\ inFlight <= MaxWalks /\ MaxWalks \in Nat
    BY RegsAreNumbers DEF WalksInv, WalksTypeOK
  <2>2. FreeSlots \in Nat /\ FreeSlots = MaxWalks - inFlight
    BY <2>1 DEF FreeSlots
  <2> HIDE DEF unknown
  <2>3. Cardinality(go) <= FreeSlots
    BY <1>1, <1>4, <2>2, LesserOfTwo
  <2>4. inFlight' = inFlight + Cardinality(go)
    BY <1>1
  <2> QED BY SMT, <1>4, <2>1, <2>2, <2>3, <2>4
<1> DEFINE Start(w) == CHOOSE i \in go : at[i] = w
           taken == {w \in Tasks : \E i \in go : at[i] = w}
<1>6. ASSUME NEW w \in taken
      PROVE  /\ task'[w] \in TaskRecords /\ ~Busy(w)
             /\ IsInjective(task'[w].chain) /\ task'[w].reg <= lastReg /\ task'[w].chain # <<>> /\ task'[w].reg # 0
             /\ task'[w].asked \in {0, lastReg} /\ Climbs(lastReg, task'[w].chain)
             /\ task'[w].owner = l /\ task'[w].reg = n
  <2>1. PICK i \in go : at[i] = w
    OBVIOUS
  <2>2. Start(w) \in Ids /\ at[i] \in free
    BY <1>2, <1>4, <2>1
  <2>3. task'[w] = Asks(l, n, <<Start(w)>>)
    BY <1>2
  <2>4. l \in Lists \cup {None}
    OBVIOUS
  <2>5. ~Busy(w)
    BY <2>1, <2>2
  <2> HIDE DEF Start, n
  <2> QED BY <1>3, <2>2, <2>3, <2>4, <2>5, AsksAtFirst
<1>7. \A w \in Tasks \ taken : task'[w] = task[w]
  BY <1>2
<1>8. task' \in [Tasks -> TaskRecords]
  <2>1. DOMAIN task' = Tasks /\ task' = [w \in Tasks |-> task'[w]]
    BY <1>2
  <2> HIDE DEF taken
  <2>2. \A w \in Tasks : task'[w] \in TaskRecords
    BY <1>3, <1>6, <1>7
  <2> QED BY <2>1, <2>2
<1> HIDE DEF taken
<1>9. ListWalks' = ListWalks \cup taken /\ ListWalks \cap taken = {}
  <2>1. l # None /\ taken \subseteq Tasks
    BY RegsAreNumbers DEF taken
  <2> QED BY <1>6, <1>7, <2>1 DEF ListWalks, Busy
<1>10. IsFiniteSet(taken) /\ Cardinality(taken) = Cardinality(go)
  <2>1. at \in Surjection(go, taken)
    <3>1. \A i \in go : at[i] \in taken
      BY <1>2 DEF taken, Tasks
    <3> QED BY <1>2, <3>1 DEF Surjection, taken
  <2>2. at \in Injection(go, taken)
    BY <1>2, <2>1 DEF Surjection, Injection
  <2> QED BY <1>4, <2>1, <2>2, FS_Surjection
<1>11. inFlight' = Cardinality(ListWalks') /\ inFlight' <= MaxWalks
  <2>1. Cardinality(ListWalks \cup taken) =
          Cardinality(ListWalks) + Cardinality(taken) - Cardinality(ListWalks \cap taken)
    BY <1>10, ListWalksAreFinite, FS_Union
  <2>2. Cardinality(ListWalks \cap taken) = 0
    BY <1>9, FS_EmptySet
  <2>3. Cardinality(ListWalks) + Cardinality(go) - 0 = Cardinality(ListWalks) + Cardinality(go)
    BY SMT, <1>4, ListWalksAreFinite
  <2>4. Cardinality(ListWalks') = Cardinality(ListWalks) + Cardinality(go)
    BY <1>9, <1>10, <2>1, <2>2, <2>3, Zenon
  <2> QED BY <1>5, <2>4
<1> DEFINE r == [phase |-> "walking", reg |-> n, inShare |-> Seen(n)]
<1>12. /\ r \in ListRecords
       /\ list' = [list EXCEPT ![l] = r]
  <2>1. Seen(n) \subseteq Ids \cup {Root}
    BY <1>3 DEF Seen
  <2>2. n \in 0..Len(ParentOf)
    BY <1>3, RegsAreNumbers
  <2> QED BY <1>0, <2>1, <2>2 DEF ListRecords
<1>13. ListKept(r)
  <2>1. ASSUME n = lastReg PROVE Seen(n) \subseteq {Root} \cup Subagents[lastReg]
    <3>1. lastReg # 0
      BY <1>3, <2>1, RegsAreNumbers
    <3>2. KnownOf(lastReg) \subseteq Subagents[lastReg]
      BY <3>1 DEF WalksInv, CachesKept
    <3> QED BY <2>1, <3>2 DEF Seen
  <2> QED BY <1>3, <2>1, RegsAreNumbers DEF ListKept
<1>14. r.phase = "walking" /\ r.reg = n
  OBVIOUS
<1> HIDE DEF r
<1>15. list' \in [Lists -> ListRecords] /\ \A x \in Lists : list'[x] = IF x = l THEN r ELSE list[x]
  BY <1>3, <1>12
<1>16. WalksTypeOK'
  BY <1>0, <1>5, <1>8, <1>15 DEF WalksInv, WalksTypeOK, TaskRecords, ListRecords, regVars, cacheVars, boundVars
<1>17. ASSUME NEW w \in Tasks PROVE WalkKept(task[w])'
  <2>1. CASE w \in taken
    BY <1>3, <1>6, <1>14, <1>15, <2>1 DEF WalkKept, Climbs
  <2>2. CASE w \notin taken
    <3>1. task'[w] = task[w] /\ WalkKept(task[w]) /\ task[w].owner \in Lists \cup {None}
      BY <1>7, <2>2 DEF WalksInv, WalksTypeOK
    <3>2. task[w].owner # None => task[w].owner # l
      BY <1>0, <3>1 DEF WalkKept
    <3>3. task[w].owner # None => list'[task[w].owner] = list[task[w].owner]
      BY <1>15, <3>1, <3>2
    <3> QED BY <1>3, <3>1, <3>3 DEF WalkKept, Climbs
  <2> QED BY <2>1, <2>2
<1>18. \A x \in Lists : ListKept(list[x])'
  BY <1>3, <1>13, <1>15 DEF WalksInv, ListKept
<1>19. CachesKept'
  BY <1>0, <1>3 DEF WalksInv, CachesKept, KnownOf, cacheVars
<1> QED BY <1>3, <1>11, <1>16, <1>17, <1>18, <1>19 DEF WalksInv

LEMMA WalksStepKeeps == WalksInv /\ [WalksNext]_walksVars => WalksInv'
<1> SUFFICES ASSUME WalksInv, [WalksNext]_walksVars PROVE WalksInv'
  OBVIOUS
<1>1. CASE Register
  BY <1>1, RegisterKeeps
<1>2. CASE EndShare \/ \E id \in Ids : Spawn(id)
  BY <1>2, EndOrSpawnKeeps
<1>3. CASE Lapse
  BY <1>3, LapseKeeps
<1>4. CASE \E id \in Ids : Announce(id)
  BY <1>4, AnnounceKeeps
<1>5. CASE \E w \in Tasks : Answer(w) \/ Fail(w)
  BY <1>5, AnswerKeeps, FailKeeps
<1>6. CASE \E w \in Reads, id \in Ids : Read(w, id)
  BY <1>6, ReadKeeps
<1>7. CASE \E l \in Lists : Poll(l) \/ StartWalks(l) \/ Show(l) \/ ListFails(l)
  BY <1>7, ListRequestsKeep, StartWalksKeeps
<1>8. CASE UNCHANGED walksVars
  BY <1>8 DEF walksVars, regVars, cacheVars, boundVars, WalksInv, WalksTypeOK, WalkKept, ListKept, CachesKept, KnownOf,
     Climbs, ListWalks, Busy
<1> QED BY <1>1, <1>2, <1>3, <1>4, <1>5, <1>6, <1>7, <1>8 DEF WalksNext

LEMMA WalksInvSuffices == WalksInv => WalksAreSound
<1> SUFFICES ASSUME WalksInv PROVE WalksAreSound
  OBVIOUS
<1>1. OnlyItsOwnSubagents
  BY DEF WalksInv, CachesKept, ListKept, OnlyItsOwnSubagents
<1>2. WalkSlotsAreExact
  BY DEF WalksInv, ListWalks, WalkSlotsAreExact
<1> QED BY <1>1, <1>2 DEF WalksInv, WalksAreSound

(* Whatever bridges hold the share's id in turn, and whatever they answer     *)
(* when: a registration's lists show, and it remembers, only what its own     *)
(* bridge calls subagents, and its slots for walks are those its lists' walks  *)
(* hold (adapter.ts:1414-1706, 2516-2579).                                    *)
THEOREM WalksStaySound == WalksSpec => []WalksAreSound
<1>1. WalksInit => WalksInv
  BY WalksInitEstablishes
<1>2. WalksInv /\ [WalksNext]_walksVars => WalksInv'
  BY WalksStepKeeps
<1>3. WalksInv => WalksAreSound
  BY WalksInvSuffices
<1> QED BY <1>1, <1>2, <1>3, PTL DEF WalksSpec

---------------------------------------------------------------------------
(* Viewers' seats *)

SeatsInv ==
  /\ TypeOK /\ Epoch <= now
  /\ Seated \subseteq 1..lastToken
  /\ ViewersBelongToShare /\ IndexAgrees

---------------------------------------------------------------------------
(* Guesses and mints *)

Since(at, s) == {e \in Events(at) : e[1] >= s}
After(at, s) == {e \in Events(at) : e[1] > s}
Until(at, s) == {e \in Events(at) : e[1] < s}

\* A history goes back as far as the term, and not into the future.
Recent(at, term, n) == \A t \in Times : at[t] > 0 => t <= n /\ n - term < t

\* Fewer misses than a lock takes, and none of them now.
Unlocked(at, n) == Total(at) <= LockThreshold - 1 /\ \A t \in Times : at[t] > 0 => t < n

\* What a lock's window has counted is what there was in it; what there was before is
\* less than one window's worth.
MissesOf(c, at, n) ==
  /\ c.start <= n
  /\ Cardinality(Until(at, c.start)) <= LockThreshold - 1
  /\ Cardinality(Since(at, c.start)) <= c.count
  /\ Cardinality(After(at, c.start)) <= c.count - 1
  /\ \A t \in Times : at[t] > 0 => t < c.start + LockTerm
  /\ n - c.start < LockTerm => at[c.start] > 0

LockFits(c, at, n) ==
  /\ c.count <= LockThreshold
  /\ IF c.count = 0 THEN c.start = 0 /\ Unlocked(at, n) ELSE MissesOf(c, at, n)

MintsOf(c, at, n) ==
  /\ c.count <= MintCap
  /\ c.start <= n
  /\ Cardinality(Until(at, c.start)) <= MintCap
  /\ Cardinality(Since(at, c.start)) <= c.count
  /\ \A t \in Times : at[t] > 0 => t < c.start + MintTerm
  /\ n - c.start < MintTerm /\ c.count > 0 => \E t \in Times : t >= c.start /\ at[t] > 0

MintsFit(c, at, n) == IF c = NoCount THEN at = Never ELSE MintsOf(c, at, n)

GuessesInv ==
  /\ SeatsInv
  /\ JoinsAreBounded
  /\ Recent(missesAt, LockTerm, now) /\ Recent(mintsAt, MintTerm, now)
  /\ live => LockFits(fails, missesAt, now) /\ MintsFit(mints, mintsAt, now)

LEMMA SeatLimits ==
  /\ {Seats, LockThreshold, LockTerm, BlockThreshold, MintCap, MintTerm, ActiveWindow, IdleTtl,
      MaxLife, MaxShares, MaxTokens} \subseteq Nat \ {0}
  /\ MaxNow \in Nat /\ Epoch \in 0..MaxNow /\ LockTerm <= Epoch /\ MintTerm <= Epoch
  /\ Tokens = 1..MaxTokens /\ Shares = 1..MaxShares /\ Times = 0..MaxNow
BY LimitsArePositive, ClockStartsLate DEF Tokens, Shares, Times

\* A sequence without repetition is as long as what it has is large.
LEMMA InjectiveLength ==
  ASSUME NEW T, NEW seq \in Seq(T), IsInjective(seq)
  PROVE  IsFiniteSet(ToSet(seq)) /\ Cardinality(ToSet(seq)) = Len(seq) /\ Len(seq) \in Nat
<1>1. Len(seq) \in Nat /\ DOMAIN seq = 1..Len(seq) /\ seq = [i \in 1..Len(seq) |-> seq[i]]
  OBVIOUS
<1>2. seq \in Surjection(1..Len(seq), ToSet(seq)) /\ seq \in Injection(1..Len(seq), ToSet(seq))
  <2>1. seq \in [1..Len(seq) -> ToSet(seq)]
    BY <1>1 DEF ToSet
  <2>2. \A x \in ToSet(seq) : \E i \in 1..Len(seq) : seq[i] = x
    BY <1>1 DEF ToSet
  <2> QED BY <2>1, <2>2 DEF Surjection, Injection
<1>3. IsFiniteSet(1..Len(seq)) /\ Cardinality(1..Len(seq)) = Len(seq)
  <2>0. Len(seq) \in Int /\ 1 \in Int
    BY <1>1
  <2>1. IsFiniteSet(1..Len(seq)) /\ Cardinality(1..Len(seq)) = IF 1 > Len(seq) THEN 0 ELSE Len(seq) - 1 + 1
    BY <2>0, FS_Interval
  <2> QED BY SMT, <1>1, <2>1
<1> QED BY <1>1, <1>2, <1>3, FS_Surjection

LEMMA AppendedOnce ==
  ASSUME NEW T, NEW seq \in Seq(T), IsInjective(seq), NEW x \in T \ ToSet(seq)
  PROVE  LET longer == Append(seq, x) IN
         /\ longer \in Seq(T) /\ IsInjective(longer) /\ Len(longer) = Len(seq) + 1
         /\ ToSet(longer) = ToSet(seq) \cup {x}
<1> DEFINE longer == Append(seq, x)
           l == Len(seq)
<1>1. /\ longer \in Seq(T) /\ l \in Nat /\ Len(longer) = l + 1
      /\ DOMAIN seq = 1..l /\ DOMAIN longer = 1..l + 1
      /\ \A i \in 1..l : longer[i] = seq[i]
      /\ longer[l + 1] = x
  OBVIOUS
<1>2. \A i \in 1..l : seq[i] \in ToSet(seq) /\ seq[i] # x
  BY <1>1 DEF ToSet
<1> HIDE DEF longer, l
<1>3. \A i \in 1..l + 1 : i \in 1..l \/ i = l + 1
  BY SMT, <1>1
<1>4. 1..l \subseteq 1..l + 1 /\ l + 1 \in 1..l + 1
  BY SMT, <1>1
<1>5. IsInjective(longer)
  <2>1. \A i, j \in 1..l : seq[i] = seq[j] => i = j
    BY <1>1 DEF IsInjective
  <2>2. \A i, j \in 1..l + 1 : longer[i] = longer[j] => i = j
    BY <1>1, <1>2, <1>3, <2>1
  <2> QED BY <1>1, <2>2 DEF IsInjective
<1>6. ToSet(longer) = ToSet(seq) \cup {x}
  BY <1>1, <1>3, <1>4 DEF ToSet
<1> QED BY <1>1, <1>5, <1>6 DEF longer, l

LEMMA TailOnce ==
  ASSUME NEW T, NEW seq \in Seq(T), IsInjective(seq), seq # <<>>
  PROVE  /\ Tail(seq) \in Seq(T) /\ IsInjective(Tail(seq)) /\ Len(Tail(seq)) = Len(seq) - 1
         /\ Head(seq) \in ToSet(seq) /\ ToSet(seq) = ToSet(Tail(seq)) \cup {Head(seq)}
<1> DEFINE rest == Tail(seq)
           l == Len(seq)
<1>1. /\ rest \in Seq(T) /\ l \in Nat \ {0} /\ Len(rest) = l - 1
      /\ DOMAIN seq = 1..l /\ DOMAIN rest = 1..l - 1 /\ Head(seq) = seq[1]
  OBVIOUS
<1>2. \A i \in 1..l - 1 : rest[i] = seq[i + 1]
  BY HeadTailProperties
<1> HIDE DEF rest, l
<1>3. /\ \A i \in 1..l - 1 : i + 1 \in 1..l
      /\ \A i \in 1..l : i = 1 \/ (i - 1 \in 1..l - 1 /\ (i - 1) + 1 = i)
      /\ 1 \in 1..l
  BY SMT, <1>1
<1>4. IsInjective(rest)
  <2> SUFFICES ASSUME NEW i \in 1..l - 1, NEW j \in 1..l - 1, rest[i] = rest[j] PROVE i = j
    BY <1>1 DEF IsInjective
  <2>1. i + 1 = j + 1
    BY <1>1, <1>2, <1>3 DEF IsInjective
  <2> QED BY SMT, <1>1, <2>1
<1>5. ToSet(seq) \subseteq ToSet(rest) \cup {seq[1]}
  <2> SUFFICES ASSUME NEW i \in 1..l PROVE seq[i] \in ToSet(rest) \cup {seq[1]}
    BY <1>1 DEF ToSet
  <2>1. CASE i = 1
    BY <2>1
  <2>2. CASE i # 1
    <3>1. i - 1 \in DOMAIN rest /\ rest[i - 1] = seq[i]
      BY <1>1, <1>2, <1>3, <2>2
    <3> QED BY <3>1 DEF ToSet
  <2> QED BY <2>1, <2>2
<1>6. ToSet(rest) \subseteq ToSet(seq)
  <2> SUFFICES ASSUME NEW i \in 1..l - 1 PROVE rest[i] \in ToSet(seq)
    BY <1>1 DEF ToSet
  <2>1. rest[i] = seq[i + 1] /\ i + 1 \in DOMAIN seq
    BY <1>1, <1>2, <1>3
  <2> QED BY <2>1 DEF ToSet
<1>7. seq[1] \in ToSet(seq)
  BY <1>1, <1>3 DEF ToSet
<1> QED BY <1>1, <1>4, <1>5, <1>6, <1>7 DEF rest, l

\* A viewer taken out of a row.
LEMMA WithoutOne ==
  ASSUME NEW seq \in Seq(Tokens), IsInjective(seq), NEW t
  PROVE  LET others == Filtered(seq, Tokens \ {t}) IN
         /\ others \in Seq(Tokens) /\ IsInjective(others) /\ ToSet(others) = ToSet(seq) \ {t}
         /\ Len(others) = IF t \in ToSet(seq) THEN Len(seq) - 1 ELSE Len(seq)
<1> DEFINE others == Filtered(seq, Tokens \ {t})
<1>1. /\ others \in Seq(Tokens \cap (Tokens \ {t})) /\ IsInjective(others)
      /\ ToSet(others) = ToSet(seq) \cap (Tokens \ {t})
  BY FilteredKeeps
<1> HIDE DEF others
<1>2. others \in Seq(Tokens)
  BY <1>1, SeqMonotonic
<1>3. ToSet(seq) \subseteq Tokens
  BY DEF ToSet
<1>4. ToSet(others) = ToSet(seq) \ {t}
  BY <1>1, <1>3
<1>5. /\ IsFiniteSet(ToSet(seq)) /\ Cardinality(ToSet(seq)) = Len(seq)
      /\ Cardinality(ToSet(others)) = Len(others)
  BY <1>1, <1>2, InjectiveLength
<1>6. Cardinality(ToSet(seq) \ {t}) = IF t \in ToSet(seq) THEN Cardinality(ToSet(seq)) - 1 ELSE Cardinality(ToSet(seq))
  BY <1>5, FS_RemoveElement
<1> QED BY <1>1, <1>2, <1>4, <1>5, <1>6 DEF others

LEMMA SeatedIsFinite ==
  ASSUME TypeOK
  PROVE  /\ Seated \subseteq Tokens /\ IsFiniteSet(Seated)
         /\ \A S \in SUBSET Seated : IsFiniteSet(S) /\ Cardinality(S) \in Nat
<1>1. viewers \in Seq(Tokens) /\ IsInjective(viewers)
  BY DEF TypeOK
<1>2. Seated \subseteq Tokens
  BY <1>1 DEF Seated, ToSet
<1>3. IsFiniteSet(Seated)
  BY <1>1, InjectiveLength DEF Seated
<1> QED BY <1>2, <1>3, FS_Subset, FS_CardinalityType

LEMMA UnexpiredIsFit ==
  ASSUME TypeOK
  PROVE  /\ Unexpired \in Seq(Tokens) /\ IsInjective(Unexpired) /\ Len(Unexpired) <= Seats
         /\ ToSet(Unexpired) = {t \in Seated : ~Expired(t)}
<1> DEFINE S == {t \in Seated : ~Expired(t)}
<1>1. viewers \in Seq(Tokens) /\ IsInjective(viewers) /\ Len(viewers) <= Seats /\ Len(viewers) \in Nat
      /\ Seated = ToSet(viewers) /\ Seats \in Nat
  BY SeatLimits DEF TypeOK, Seated
<1> HIDE DEF S
<1>2. /\ Unexpired \in Seq(Tokens \cap S) /\ IsInjective(Unexpired) /\ Len(Unexpired) <= Len(viewers)
      /\ ToSet(Unexpired) = ToSet(viewers) \cap S
  <2>1. Unexpired = Filtered(viewers, S)
    BY DEF Unexpired, S
  <2> QED BY <1>1, <2>1, FilteredKeeps
<1>3. Unexpired \in Seq(Tokens)
  BY <1>2, SeqMonotonic
<1>4. Len(Unexpired) <= Seats
  <2>1. Len(Unexpired) \in Nat
    BY <1>3
  <2> QED BY SMT, <1>1, <1>2, <2>1
<1>5. ToSet(Unexpired) = {t \in Seated : ~Expired(t)}
  BY <1>1, <1>2 DEF S
<1> QED BY <1>2, <1>3, <1>4, <1>5

\* What the index and its counter have is what they should without the viewers gone.
LEMMA DropLeaves ==
  ASSUME SeatsInv, NEW gone \in SUBSET Seated
  PROVE  /\ StillEntered(gone) = {t \in Seated \ gone : token[t].keyed}
         /\ StillUnindexed(gone) = Cardinality({t \in Seated \ gone : ~token[t].keyed})
<1>1. entries = {t \in Seated : token[t].keyed} /\ unindexed = Cardinality({t \in Seated : ~token[t].keyed})
  BY DEF SeatsInv, IndexAgrees
<1>2. StillEntered(gone) = {t \in Seated \ gone : token[t].keyed}
  BY <1>1 DEF StillEntered
<1> DEFINE All == {t \in Seated : ~token[t].keyed}
           Out == {t \in gone : ~token[t].keyed}
           Left == {t \in Seated \ gone : ~token[t].keyed}
<1>3. Out \in SUBSET All /\ Left = All \ Out /\ All \cap Out = Out /\ Left \in SUBSET Seated /\ Out \in SUBSET Seated
      /\ All \in SUBSET Seated
  OBVIOUS
<1>4. StillUnindexed(gone) = IF unindexed > Cardinality(Out) THEN unindexed - Cardinality(Out) ELSE 0
  BY DEF StillUnindexed
<1>5. unindexed = Cardinality(All)
  BY <1>1
<1> HIDE DEF All, Out, Left
<1>6. IsFiniteSet(All) /\ Cardinality(All) \in Nat /\ Cardinality(Out) \in Nat /\ Cardinality(Left) \in Nat
  BY <1>3, SeatedIsFinite DEF SeatsInv
<1>7. Cardinality(Left) = Cardinality(All) - Cardinality(Out)
  BY <1>3, <1>6, FS_Difference
<1>8. StillUnindexed(gone) = Cardinality(Left)
  BY SMT, <1>4, <1>5, <1>6, <1>7
<1> QED BY <1>2, <1>8 DEF Left

---------------------------------------------------------------------------
(* Every step keeps the counters typed, and the seats sound. *)

Tallies ==
  /\ now \in Times /\ Epoch <= now
  /\ live \in BOOLEAN /\ hasCode \in BOOLEAN /\ share \in Shares
  /\ fails \in Count /\ mints \in Count
  /\ codeFails \in [Codes -> Nat] /\ blocked \subseteq Codes
  /\ missesAt \in [Times -> Nat] /\ mintsAt \in [Times -> Nat]

SeatsTaken ==
  /\ viewers \in Seq(Tokens) /\ Len(viewers) <= Seats /\ IsInjective(viewers)
  /\ ~live => viewers = <<>>
  /\ token \in [Tokens -> Token]
  /\ lastToken \in 0..MaxTokens
  /\ Seated \subseteq 1..lastToken
  /\ ViewersBelongToShare
  /\ IndexAgrees

LEMMA SeatsInHalves == SeatsInv <=> Tallies /\ SeatsTaken
<1>1. SeatsInv => Tallies /\ SeatsTaken
  BY DEF SeatsInv, Tallies, SeatsTaken, TypeOK
<1>2. ASSUME Tallies, SeatsTaken PROVE SeatsInv
  <2>1. Seated \subseteq Tokens /\ IsFiniteSet(Seated)
    <3>1. viewers \in Seq(Tokens) /\ IsInjective(viewers)
      BY <1>2 DEF SeatsTaken
    <3> QED BY <3>1, InjectiveLength DEF Seated, ToSet
  <2>2. entries \subseteq Tokens /\ unindexed \in Nat
    <3>1. IsFiniteSet({t \in Seated : ~token[t].keyed})
      BY <2>1, FS_Subset
    <3> QED BY <1>2, <2>1, <3>1, FS_CardinalityType DEF SeatsTaken, IndexAgrees
  <2> QED BY <1>2, <2>2 DEF SeatsInv, Tallies, SeatsTaken, TypeOK
<1> QED BY <1>1, <1>2

LEMMA CountsAreTyped ==
  ASSUME Tallies
  PROVE  /\ NoCount \in Count /\ FailsNow \in Count /\ MintsNow \in Count /\ Renewed \in Count
         /\ Counted(FailsNow, LockTerm) \in Count
         /\ [MintsNow EXCEPT !.count = @ + 1] \in Count
         /\ Never \in [Times -> Nat]
<1>1. Times = 0..MaxNow /\ MaxNow \in Nat
  BY SeatLimits
<1>2. NoCount \in Count
  BY <1>1, SMT DEF NoCount, Count
<1>3. FailsNow \in Count
  BY <1>2 DEF Tallies, FailsNow
<1>4. \A n \in Nat : [count |-> n, start |-> now] \in Count
  BY DEF Tallies, Count
<1>5. MintsNow \in Count
  BY <1>4 DEF Tallies, MintsNow
<1>6. ASSUME NEW c \in Count PROVE [c EXCEPT !.count = @ + 1] \in Count
  BY DEF Count
<1>7. Counted(FailsNow, LockTerm) \in Count
  BY <1>3, <1>4, <1>6 DEF Counted
<1>8. Renewed \in Count
  BY <1>5 DEF Tallies, Renewed
<1>9. Never \in [Times -> Nat]
  BY DEF Never
<1> QED BY <1>2, <1>3, <1>5, <1>6, <1>7, <1>8, <1>9

LEMMA TalliesKept ==
  ASSUME Tallies, Next
  PROVE  Tallies'
<1> USE DEF Tallies
<1>0. /\ NoCount \in Count /\ FailsNow \in Count /\ MintsNow \in Count /\ Renewed \in Count
      /\ Counted(FailsNow, LockTerm) \in Count
      /\ [MintsNow EXCEPT !.count = @ + 1] \in Count
      /\ Never \in [Times -> Nat]
  BY CountsAreTyped
<1>1. CASE Tick
  <2>a. now < MaxNow /\ now' = now + 1
    BY <1>1 DEF Tick
  <2>b. Times = 0..MaxNow /\ MaxNow \in Nat /\ Epoch \in Nat
    BY SeatLimits
  <2>c. now \in Times /\ Epoch <= now
    OBVIOUS
  <2>1. now' \in Times /\ Epoch <= now'
    <3> HIDE DEF Tallies
    <3> QED BY <2>a, <2>b, <2>c, SMT
  <2>2. missesAt' \in [Times -> Nat] /\ mintsAt' \in [Times -> Nat]
    BY <1>1 DEF Tick
  <2> QED BY <1>1, <2>1, <2>2 DEF Tick, counters
<1>2. CASE \E t \in Tokens : Use(t) \/ Leave(t)
  BY <1>2 DEF Use, Leave, counters, history
<1>3. CASE \E g \in Codes : RefuseBlocked(g) \/ RefuseMint(g)
  BY <1>0, <1>3 DEF RefuseBlocked, RefuseMint, history
<1>4. ASSUME NEW g \in Codes, Miss(g) PROVE Tallies'
  <2>1. codeFails' \in [Codes -> Nat] /\ blocked' \subseteq Codes
    BY <1>4 DEF Miss
  <2>2. missesAt' \in [Times -> Nat]
    BY <1>4 DEF Miss
  <2> QED BY <1>0, <1>4, <2>1, <2>2 DEF Miss
<1>5. CASE \E g \in Codes : RefuseSeat(g)
  BY <1>0, <1>5 DEF RefuseSeat
<1>6. ASSUME NEW g \in Codes, Join(g) PROVE Tallies'
  <2>1. mintsAt' \in [Times -> Nat]
    BY <1>6 DEF Join
  <2> QED BY <1>0, <1>6, <2>1 DEF Join
<1>7. CASE RegisterNew
  <2>1. share' \in Shares
    BY <1>7, SeatLimits, SMT DEF RegisterNew
  <2> QED BY <1>0, <1>7, <2>1 DEF RegisterNew, Registered, ForgetsMisses, ForgetsMints
<1>8. CASE Resume
  BY <1>0, <1>8 DEF Resume, Registered, ForgetsMisses, ForgetsMints
<1>9. CASE End
  BY <1>0, <1>9 DEF End, history
<1>10. CASE Restart
  <2>1. hasCode' \in BOOLEAN
    BY <1>10 DEF Restart
  <2> QED BY <1>0, <1>10, <2>1 DEF Restart
<1> QED BY <1>1, <1>2, <1>3, <1>4, <1>5, <1>6, <1>7, <1>8, <1>9, <1>10 DEF Next

\* No seat taken: what is left of the index is nothing.
LEMMA EmptyRow ==
  ASSUME viewers = <<>>
  PROVE  Seated = {}
BY DEF Seated, ToSet

LEMMA SeatsVacated ==
  ASSUME SeatsInv, viewers' = <<>>, Dropped(Seated), UNCHANGED <<lastToken, token>>
  PROVE  SeatsTaken'
<1>1. Seated' = {}
  BY EmptyRow DEF Seated, ToSet
<1>2. entries' = {t \in Seated \ Seated : token[t].keyed}
      /\ unindexed' = Cardinality({t \in Seated \ Seated : ~token[t].keyed})
  BY DropLeaves DEF Dropped
<1>3. entries' = {} /\ unindexed' = Cardinality({})
  <2>1. {t \in Seated \ Seated : token[t].keyed} = {} /\ {t \in Seated \ Seated : ~token[t].keyed} = {}
    OBVIOUS
  <2> QED BY <1>2, <2>1
<1>4. viewers' \in Seq(Tokens) /\ Len(viewers') <= Seats /\ IsInjective(viewers')
  <2>1. Len(<<>>) = 0 /\ 0 <= Seats /\ <<>> \in Seq(Tokens) /\ DOMAIN <<>> = {}
    BY SeatLimits, EmptySeq, SMT
  <2> QED BY <2>1 DEF IsInjective
<1>5. token' \in [Tokens -> Token] /\ lastToken' \in 0..MaxTokens
  BY DEF SeatsInv, TypeOK
<1>6. IndexAgrees'
  <2>1. {t \in Seated' : token'[t].keyed} = {} /\ {t \in Seated' : ~token'[t].keyed} = {}
    BY <1>1
  <2> QED BY <1>3, <2>1 DEF IndexAgrees
<1> QED BY <1>1, <1>4, <1>5, <1>6 DEF SeatsTaken, ViewersBelongToShare

\* Viewers go, and the others stay as they were.
LEMMA SeatsLeft ==
  ASSUME SeatsInv, NEW stay \in Seq(Tokens), IsInjective(stay), Len(stay) <= Seats,
         ToSet(stay) \subseteq Seated, viewers' = stay, Dropped(Seated \ ToSet(stay)),
         UNCHANGED <<live, share, lastToken, token>>
  PROVE  SeatsTaken'
<1>1. Seated' = ToSet(stay)
  BY DEF Seated
<1>2. Seated \ (Seated \ ToSet(stay)) = Seated'
  BY <1>1
<1>3. entries' = {t \in Seated' : token[t].keyed}
      /\ unindexed' = Cardinality({t \in Seated' : ~token[t].keyed})
  <2>1. Seated \ ToSet(stay) \in SUBSET Seated
    OBVIOUS
  <2> QED BY <1>2, <2>1, DropLeaves DEF Dropped
<1>4. ~live' => viewers' = <<>>
  <2> SUFFICES ASSUME ~live PROVE stay = <<>>
    OBVIOUS
  <2>1. Seated = {}
    BY EmptyRow DEF SeatsInv, TypeOK
  <2>2. ToSet(stay) = {}
    BY <2>1
  <2>3. Len(stay) = 0
    BY <2>2, InjectiveLength, FS_EmptySet
  <2> QED BY <2>3, EmptySeq
<1> QED BY <1>1, <1>3, <1>4 DEF SeatsInv, TypeOK, SeatsTaken, ViewersBelongToShare, IndexAgrees

\* A token presented: its viewer is the most recent, and has its index key.
LEMMA UseKeepsSeats ==
  ASSUME SeatsInv, NEW t \in Tokens, Use(t)
  PROVE  SeatsTaken'
<1> DEFINE kept == Unexpired
           gone == Seated \ ToSet(kept)
           others == Filtered(kept, Tokens \ {t})
<1>1. /\ kept \in Seq(Tokens) /\ IsInjective(kept) /\ Len(kept) <= Seats
      /\ ToSet(kept) \subseteq Seated
  BY UnexpiredIsFit DEF SeatsInv
<1>2. CASE t \notin ToSet(kept)
  <2>1. viewers' = kept /\ token' = token /\ entries' = StillEntered(gone) /\ unindexed' = StillUnindexed(gone)
        /\ UNCHANGED <<live, share, lastToken>>
    BY <1>2 DEF Use
  <2> HIDE DEF kept
  <2> QED BY <1>1, <2>1, SeatsLeft DEF Dropped
<1>3. CASE t \in ToSet(kept)
  <2> DEFINE adds == ~token[t].keyed
             still == StillUnindexed(gone)
  <2>1. /\ viewers' = Append(others, t)
        /\ token' = [token EXCEPT ![t] = Refreshed(token[t])]
        /\ entries' = StillEntered(gone) \cup (IF adds THEN {t} ELSE {})
        /\ unindexed' = IF adds /\ still > 0 THEN still - 1 ELSE still
        /\ UNCHANGED <<live, share, lastToken>>
    BY <1>3 DEF Use
  <2>2. /\ others \in Seq(Tokens) /\ IsInjective(others) /\ ToSet(others) = ToSet(kept) \ {t}
        /\ Len(others) = Len(kept) - 1
    <3> HIDE DEF kept
    <3> QED BY <1>1, <1>3, WithoutOne
  <2>3. /\ viewers' \in Seq(Tokens) /\ IsInjective(viewers') /\ Len(viewers') = Len(others) + 1
        /\ Seated' = ToSet(kept)
    <3> HIDE DEF kept, others
    <3>1. t \in Tokens \ ToSet(others)
      BY <2>2
    <3>2. /\ viewers' \in Seq(Tokens) /\ IsInjective(viewers') /\ Len(viewers') = Len(others) + 1
          /\ ToSet(viewers') = ToSet(others) \cup {t}
      BY <2>1, <2>2, <3>1, AppendedOnce
    <3>3. Seated' = ToSet(viewers')
      BY DEF Seated
    <3> QED BY <1>3, <2>2, <3>2, <3>3
  <2>4. Len(viewers') <= Seats
    <3> HIDE DEF kept, others
    <3>1. Len(kept) \in Nat /\ Seats \in Nat
      BY <1>1, SeatLimits
    <3> QED BY SMT, <1>1, <2>2, <2>3, <3>1
  <2> HIDE DEF kept, others
  <2>5. live
    BY DEF Use, Found
  <2>6. token \in [Tokens -> Token] /\ now \in Times
    BY DEF SeatsInv, TypeOK
  <2>7. /\ token' \in [Tokens -> Token]
        /\ token'[t].keyed = TRUE
        /\ \A u \in Tokens : token'[u].share = token[u].share
        /\ \A u \in Tokens \ {t} : token'[u] = token[u]
    BY <2>1, <2>6 DEF Refreshed, Token
  <2>8. ViewersBelongToShare'
    <3>1. \A u \in Seated' : u \in Seated /\ u \in Tokens
      BY <1>1, <2>3, SeatedIsFinite DEF SeatsInv
    <3> QED BY <2>1, <2>7, <3>1 DEF SeatsInv, ViewersBelongToShare
  <2>9. /\ StillEntered(gone) = {u \in Seated' : token[u].keyed}
        /\ still = Cardinality({u \in Seated' : ~token[u].keyed})
    <3>1. gone \in SUBSET Seated /\ Seated \ gone = Seated'
      BY <1>1, <2>3
    <3> HIDE DEF gone
    <3> QED BY <3>1, DropLeaves
  <2>10. t \in Seated' /\ Seated' \subseteq Tokens /\ Seated' \subseteq Seated
    BY <1>1, <1>3, <2>3, SeatedIsFinite DEF SeatsInv
  <2>11. entries' = {u \in Seated' : token'[u].keyed}
    <3>1. {u \in Seated' : token'[u].keyed} = {u \in Seated' : token[u].keyed} \cup {t}
      BY <2>7, <2>10
    <3> QED BY <2>1, <2>9, <2>10, <3>1
  <2> DEFINE Was == {u \in Seated' : ~token[u].keyed}
             Is == {u \in Seated' : ~token'[u].keyed}
  <2>12. Is = Was \ {t} /\ (t \in Was <=> adds)
    BY <2>7, <2>10
  <2>13. Was \in SUBSET Seated
    BY <2>10
  <2> HIDE DEF Was, Is
  <2>14. IsFiniteSet(Was) /\ Cardinality(Was) \in Nat
    BY <2>13, SeatedIsFinite DEF SeatsInv
  <2>15. unindexed' = Cardinality(Is)
    <3>1. Cardinality(Is) = IF t \in Was THEN Cardinality(Was) - 1 ELSE Cardinality(Was)
      BY <2>12, <2>14, FS_RemoveElement
    <3>2. t \in Was => Cardinality(Was) # 0
      BY <2>14, FS_EmptySet
    <3>3. still = Cardinality(Was)
      BY <2>9 DEF Was
    <3> HIDE DEF still, adds
    <3> QED BY SMT, <2>1, <2>12, <2>14, <3>1, <3>2, <3>3
  <2>16. Seated' \subseteq 1..lastToken' /\ lastToken' \in 0..MaxTokens
    BY <2>1, <2>10 DEF SeatsInv, TypeOK
  <2>17. IndexAgrees'
    BY <2>11, <2>15 DEF IndexAgrees, Is
  <2>18. live'
    BY <2>1, <2>5
  <2> QED BY <2>3, <2>4, <2>7, <2>8, <2>16, <2>17, <2>18 DEF SeatsTaken
<1> QED BY <1>2, <1>3

\* Who stays when a viewer joins: the unexpired, but for the one whose seat it takes.
LEMMA StayingIsFit ==
  ASSUME SeatsInv
  PROVE  LET kept == Unexpired
             stay == IF RoomIn(kept) THEN kept ELSE Tail(kept) IN
         /\ stay \in Seq(Tokens) /\ IsInjective(stay) /\ Len(stay) + 1 <= Seats
         /\ ToSet(stay) \subseteq Seated
         /\ ToSet(kept) \subseteq ToSet(stay) \cup {Head(kept)}
         /\ RoomIn(kept) => stay = kept
<1>1. PICK kept : kept = Unexpired
  OBVIOUS
<1>2. /\ kept \in Seq(Tokens) /\ IsInjective(kept) /\ Len(kept) <= Seats
      /\ ToSet(kept) \subseteq Seated
  BY <1>1, UnexpiredIsFit DEF SeatsInv
<1>3. Len(kept) \in Nat /\ Seats \in Nat \ {0}
  BY <1>2, SeatLimits
<1>4. PICK stay : stay = IF RoomIn(kept) THEN kept ELSE Tail(kept)
  OBVIOUS
<1>5. CASE RoomIn(kept)
  <2>1. Len(kept) + 1 <= Seats
    BY <1>3, <1>5, SMT DEF RoomIn
  <2> QED BY <1>1, <1>2, <1>4, <1>5, <2>1
<1>6. CASE ~RoomIn(kept)
  <2>1. Len(kept) >= 1 /\ Len(kept) = Seats
    BY <1>2, <1>3, <1>6, SMT DEF RoomIn
  <2>2. kept # <<>>
    <3>1. Len(kept) # 0
      BY <1>3, <2>1, SMT
    <3> QED BY <3>1
  <2>3. /\ Tail(kept) \in Seq(Tokens) /\ IsInjective(Tail(kept)) /\ Len(Tail(kept)) = Len(kept) - 1
        /\ ToSet(kept) = ToSet(Tail(kept)) \cup {Head(kept)}
    BY <1>2, <2>2, TailOnce
  <2>4. Len(stay) + 1 <= Seats
    <3>1. \A m, n \in Nat : m = n - 1 /\ n <= Seats => m + 1 <= Seats
      BY SMT, <1>3
    <3>2. Len(stay) \in Nat /\ Len(stay) = Len(kept) - 1
      BY <1>4, <1>6, <2>3
    <3> QED BY <1>2, <1>3, <3>1, <3>2
  <2> QED BY <1>1, <1>2, <1>4, <1>6, <2>3, <2>4
<1> QED BY <1>5, <1>6, <1>1, <1>4

LEMMA JoinKeepsSeats ==
  ASSUME SeatsInv, NEW g \in Codes, Join(g)
  PROVE  SeatsTaken'
<1>1. PICK stay : stay = IF RoomIn(Unexpired) THEN Unexpired ELSE Tail(Unexpired)
  OBVIOUS
<1>2. /\ stay \in Seq(Tokens) /\ IsInjective(stay) /\ Len(stay) + 1 <= Seats
      /\ ToSet(stay) \subseteq Seated
  BY <1>1, StayingIsFit
<1> DEFINE newer == lastToken + 1
           gone == Seated \ ToSet(stay)
<1>3. /\ newer \in Tokens /\ lastToken' = newer
      /\ viewers' = Append(stay, newer)
      /\ token' = [token EXCEPT ![newer] = [born |-> now, used |-> now, keyed |-> TRUE, share |-> share]]
      /\ entries' = StillEntered(gone) \cup {newer}
      /\ unindexed' = StillUnindexed(gone)
      /\ live /\ UNCHANGED <<live, share>>
  BY <1>1 DEF Join, Entered, IsTheCode
<1>4. lastToken \in Nat /\ MaxTokens \in Nat /\ Seated \subseteq 1..lastToken /\ Seated \subseteq Tokens
  <2>1. MaxTokens \in Nat /\ lastToken \in 0..MaxTokens /\ Seated \subseteq 1..lastToken
    BY SeatLimits DEF SeatsInv, TypeOK
  <2>2. Seated \subseteq Tokens
    BY SeatedIsFinite DEF SeatsInv
  <2> QED BY <2>1, <2>2
<1>5. newer \notin Seated /\ newer \in 0..MaxTokens /\ 1..lastToken \subseteq 1..newer /\ newer \in 1..newer
  <2>1. newer \notin 1..lastToken /\ 1..lastToken \subseteq 1..newer /\ newer \in 1..newer
    BY <1>4, SMT
  <2>2. newer \in 0..MaxTokens
    BY <1>3, <1>4, SeatLimits, SMT
  <2> QED BY <1>4, <2>1, <2>2
<1>6. token \in [Tokens -> Token] /\ now \in Times /\ share \in Shares
  BY DEF SeatsInv, TypeOK
<1>7. /\ token' \in [Tokens -> Token]
      /\ token'[newer] = [born |-> now, used |-> now, keyed |-> TRUE, share |-> share]
      /\ \A u \in Seated : token'[u] = token[u]
  BY <1>3, <1>4, <1>5, <1>6 DEF Token
<1> HIDE DEF newer
<1>8. /\ viewers' \in Seq(Tokens) /\ IsInjective(viewers') /\ Len(viewers') = Len(stay) + 1
      /\ Seated' = ToSet(stay) \cup {newer}
  <2>1. newer \in Tokens \ ToSet(stay)
    BY <1>2, <1>3, <1>5
  <2> QED BY <1>2, <1>3, <2>1, AppendedOnce DEF Seated
<1>9. Len(viewers') <= Seats
  BY <1>2, <1>8
<1>10. Seated' \subseteq 1..lastToken' /\ lastToken' \in 0..MaxTokens
  BY <1>2, <1>3, <1>4, <1>5, <1>8
<1>11. ViewersBelongToShare'
  BY <1>2, <1>3, <1>7, <1>8 DEF SeatsInv, ViewersBelongToShare
<1>12. /\ StillEntered(gone) = {u \in ToSet(stay) : token[u].keyed}
       /\ StillUnindexed(gone) = Cardinality({u \in ToSet(stay) : ~token[u].keyed})
  <2>1. gone \in SUBSET Seated /\ Seated \ gone = ToSet(stay)
    BY <1>2
  <2> HIDE DEF gone
  <2> QED BY <2>1, DropLeaves
<1>13. IndexAgrees'
  <2>1. {u \in Seated' : token'[u].keyed} = {u \in ToSet(stay) : token[u].keyed} \cup {newer}
    BY <1>2, <1>7, <1>8
  <2>2. {u \in Seated' : ~token'[u].keyed} = {u \in ToSet(stay) : ~token[u].keyed}
    BY <1>2, <1>7, <1>8
  <2> QED BY <1>3, <1>12, <2>1, <2>2 DEF IndexAgrees
<1> QED BY <1>3, <1>7, <1>8, <1>9, <1>10, <1>11, <1>13 DEF SeatsTaken

LEMMA SeatsStart ==
  ASSUME Init
  PROVE  SeatsInv
<1>1. Epoch \in Times /\ 1 \in Shares /\ 0 \in Times /\ 1 \in Tokens /\ lastToken \in 0..MaxTokens
  <2>1. Epoch \in 0..MaxNow /\ 1 \in 1..MaxShares /\ 0 \in 0..MaxNow /\ 1 \in 1..MaxTokens
        /\ lastToken \in 0..MaxTokens
    BY SeatLimits, SMT DEF Init
  <2> QED BY <2>1, SeatLimits
<1>2. PICK keyed \in BOOLEAN :
        /\ token = [t \in Tokens |-> [born |-> Epoch, used |-> Epoch, keyed |-> keyed, share |-> 1]]
        /\ entries = IF keyed THEN 1..lastToken ELSE {}
        /\ unindexed = IF keyed THEN 0 ELSE lastToken
  BY DEF Init
<1>3. Tallies
  <2>1. now \in Times /\ Epoch <= now
    BY <1>1, SeatLimits DEF Init
  <2>2. NoCount \in Count
    BY <1>1 DEF NoCount, Count
  <2>3. Never \in [Times -> Nat]
    BY DEF Never
  <2> QED BY <1>1, <2>1, <2>2, <2>3 DEF Init, Tallies
<1>4. token \in [Tokens -> Token]
  BY <1>1, <1>2 DEF Token
<1>5. /\ viewers \in Seq(Tokens) /\ IsInjective(viewers) /\ Len(viewers) = lastToken
      /\ Seated = 1..lastToken /\ Seated \subseteq Tokens
  <2>1. viewers = [i \in 1..lastToken |-> i] /\ lastToken \in Nat
    BY <1>1 DEF Init
  <2>2. 1..lastToken \subseteq Tokens
    BY <1>1, SeatLimits, SMT
  <2>3. viewers \in Seq(Tokens) /\ DOMAIN viewers = 1..lastToken /\ Len(viewers) = lastToken
    BY <2>1, <2>2
  <2>4. IsInjective(viewers) /\ Seated = 1..lastToken
    BY <2>1, <2>3 DEF IsInjective, Seated, ToSet
  <2> QED BY <2>2, <2>3, <2>4
<1>6. Len(viewers) <= Seats
  BY <1>5, SeatLimits, SMT DEF Init
<1>7. ViewersBelongToShare
  BY <1>2, <1>5 DEF Init, ViewersBelongToShare
<1>8. IndexAgrees
  <2>1. IsFiniteSet(Seated) /\ Cardinality(Seated) = lastToken
    BY <1>5, InjectiveLength DEF Seated
  <2>2. \A t \in Seated : token[t].keyed = keyed
    BY <1>2, <1>5
  <2>3. Cardinality({}) = 0
    BY FS_EmptySet
  <2>4. CASE keyed
    <3>1. {t \in Seated : token[t].keyed} = Seated /\ {t \in Seated : ~token[t].keyed} = {}
      BY <2>2, <2>4
    <3> QED BY <1>2, <1>5, <2>3, <2>4, <3>1 DEF IndexAgrees
  <2>5. CASE ~keyed
    <3>1. {t \in Seated : token[t].keyed} = {} /\ {t \in Seated : ~token[t].keyed} = Seated
      BY <2>2, <2>5
    <3> QED BY <1>2, <2>1, <2>5, <3>1 DEF IndexAgrees
  <2> QED BY <2>4, <2>5
<1>9. live = TRUE
  BY DEF Init
<1> QED BY <1>1, <1>3, <1>4, <1>5, <1>6, <1>7, <1>8, <1>9, SeatsInHalves DEF SeatsTaken

\* A restart reads the seats of the unexpired, and makes the index of them.
LEMMA RestartKeepsSeats ==
  ASSUME SeatsInv, Restart
  PROVE  SeatsTaken'
<1>1. PICK kept : kept = Unexpired
  OBVIOUS
<1>2. /\ kept \in Seq(Tokens) /\ IsInjective(kept) /\ Len(kept) <= Seats
      /\ ToSet(kept) \subseteq Seated
  BY <1>1, UnexpiredIsFit DEF SeatsInv
<1>3. /\ viewers' = kept /\ entries' = {t \in ToSet(kept) : token[t].keyed}
      /\ unindexed' = Cardinality({t \in ToSet(kept) : ~token[t].keyed})
      /\ UNCHANGED <<live, share, lastToken, token>>
  BY <1>1 DEF Restart
<1>4. Seated' = ToSet(kept)
  BY <1>3 DEF Seated
<1>5. ~live' => viewers' = <<>>
  <2> SUFFICES ASSUME ~live PROVE kept = <<>>
    BY <1>3
  <2>1. Seated = {}
    BY EmptyRow DEF SeatsInv, TypeOK
  <2>2. ToSet(kept) = {}
    BY <1>2, <2>1
  <2>3. Len(kept) = 0
    BY <1>2, <2>2, InjectiveLength, FS_EmptySet
  <2> QED BY <1>2, <2>3, EmptySeq
<1> QED BY <1>2, <1>3, <1>4, <1>5 DEF SeatsInv, TypeOK, SeatsTaken, ViewersBelongToShare, IndexAgrees

\* A registration that resumes the share keeps every viewer, any other none.
LEMMA RegistrationKeepsSeats ==
  ASSUME SeatsInv, RegisterNew \/ Resume
  PROVE  SeatsTaken'
<1>1. CASE RegisterNew
  <2>1. viewers' = <<>> /\ Dropped(Seated \ ToSet(<<>>)) /\ UNCHANGED <<lastToken, token>>
    BY <1>1 DEF RegisterNew, Registered, KeptViewers
  <2>2. Seated \ ToSet(<<>>) = Seated
    BY DEF ToSet
  <2> QED BY <2>1, <2>2, SeatsVacated
<1>2. CASE Resume
  <2>1. viewers' = viewers /\ Dropped(Seated \ ToSet(viewers)) /\ UNCHANGED <<live, share, lastToken, token>>
    BY <1>2 DEF Resume, Registered, KeptViewers
  <2>2. viewers \in Seq(Tokens) /\ Len(viewers) <= Seats /\ IsInjective(viewers) /\ ToSet(viewers) = Seated
    BY DEF SeatsInv, TypeOK, Seated
  <2> QED BY <2>1, <2>2, SeatsLeft
<1> QED BY <1>1, <1>2

LEMMA SeatsTakenKept ==
  ASSUME SeatsInv, [Next]_vars
  PROVE  SeatsTaken'
<1>1. CASE UNCHANGED <<live, share, lastToken, seats>>
  BY <1>1, SeatsInHalves DEF seats, SeatsTaken, ViewersBelongToShare, IndexAgrees, Seated
<1>2. CASE UNCHANGED vars
  BY <1>1, <1>2 DEF vars
<1>3. CASE Tick \/ \E g \in Codes : RefuseBlocked(g) \/ Miss(g) \/ RefuseMint(g)
  BY <1>1, <1>3 DEF Tick, RefuseBlocked, Miss, RefuseMint
<1>4. ASSUME NEW t \in Tokens, Leave(t) PROVE SeatsTaken'
  <2>1. PICK stay : stay = Filtered(viewers, Tokens \ {t})
    OBVIOUS
  <2>2. /\ viewers \in Seq(Tokens) /\ Len(viewers) <= Seats /\ IsInjective(viewers)
        /\ ToSet(viewers) = Seated /\ t \in Seated
    BY <1>4 DEF SeatsInv, TypeOK, Seated, Leave
  <2>3. stay \in Seq(Tokens) /\ IsInjective(stay) /\ Len(stay) = Len(viewers) - 1 /\ ToSet(stay) = Seated \ {t}
    BY <2>1, <2>2, WithoutOne
  <2>4. Len(stay) <= Seats
    <3>1. Len(viewers) \in Nat /\ Seats \in Nat
      BY <2>2, SeatLimits
    <3> QED BY SMT, <2>2, <2>3, <3>1
  <2>5. Seated \ ToSet(stay) = {t} /\ ToSet(stay) \subseteq Seated
    BY <2>2, <2>3
  <2>6. viewers' = stay /\ Dropped(Seated \ ToSet(stay)) /\ UNCHANGED <<live, share, lastToken, token>>
    BY <1>4, <2>1, <2>5 DEF Leave
  <2> QED BY <2>3, <2>4, <2>5, <2>6, SeatsLeft
<1>5. ASSUME NEW g \in Codes, RefuseSeat(g) PROVE SeatsTaken'
  <2>1. PICK kept : kept = Unexpired
    OBVIOUS
  <2>2. kept \in Seq(Tokens) /\ IsInjective(kept) /\ Len(kept) <= Seats /\ ToSet(kept) \subseteq Seated
    BY <2>1, UnexpiredIsFit DEF SeatsInv
  <2>3. viewers' = kept /\ Dropped(Seated \ ToSet(kept)) /\ UNCHANGED <<live, share, lastToken, token>>
    BY <1>5, <2>1 DEF RefuseSeat
  <2> QED BY <2>2, <2>3, SeatsLeft
<1>6. CASE End
  BY <1>6, SeatsVacated DEF End
<1> QED BY <1>1, <1>2, <1>3, <1>4, <1>5, <1>6, UseKeepsSeats, JoinKeepsSeats, RestartKeepsSeats,
       RegistrationKeepsSeats DEF Next

LEMMA SeatsJoined == Tallies' /\ SeatsTaken' => SeatsInv'
BY SeatsInHalves, PTL

LEMMA SeatsKept ==
  ASSUME SeatsInv, [Next]_vars
  PROVE  SeatsInv'
<1>1. Tallies'
  <2>1. CASE UNCHANGED vars
    BY <2>1, SeatsInHalves DEF vars, counters, history, Tallies
  <2> QED BY <2>1, SeatsInHalves, TalliesKept
<1>2. SeatsTaken'
  BY SeatsTakenKept
<1> QED BY <1>1, <1>2, SeatsJoined

\* Whatever joins, leaves, expires, is resumed, replaced, ended or restored, every seat
\* is that of a viewer of this share, no more seats are taken than there are, and the
\* lookup index and its counter miss none of them and have none besides.
THEOREM SeatsStaySound == Spec => []SeatsAreSound
<1>1. Init => SeatsInv
  BY SeatsStart
<1>2. SeatsInv /\ [Next]_vars => SeatsInv'
  BY SeatsKept
<1>3. SeatsInv => SeatsAreSound
  BY DEF SeatsInv, SeatsAreSound
<1> QED BY <1>1, <1>2, <1>3, PTL DEF Spec

---------------------------------------------------------------------------
(* A viewer that was seen of late *)

LEMMA TheExpiredWereAway ==
  ASSUME SeatsInv, NEW t \in Seated, Expired(t)
  PROVE  now - token[t].used > ActiveWindow \/ now - token[t].born > MaxLife
<1>1. now \in Nat /\ token[t].used \in Nat /\ ActiveWindow \in Nat /\ IdleTtl \in Nat /\ ActiveWindow <= IdleTtl
  <2>1. t \in Tokens
    BY SeatedIsFinite DEF SeatsInv
  <2>2. token[t] \in Token /\ now \in Times
    BY <2>1 DEF SeatsInv, TypeOK
  <2>3. token[t].used \in Times
    BY <2>2 DEF Token
  <2> QED BY <2>2, <2>3, SeatLimits, PresentIsNotIdle
<1>2. \A i, a, b \in Int : i > b /\ a <= b => i > a
  OBVIOUS
<1>3. now - token[t].used \in Int
  BY <1>1
<1> QED BY <1>1, <1>2, <1>3 DEF Expired

\* No step takes the seat of a viewer seen within the active window, but its own leave,
\* its token's absolute age, or the end of its share.
THEOREM PresentViewersStay == Spec => PresentViewerKeepsSeat
<1> DEFINE Excused(t) == \/ Leave(t)
                         \/ ~live' \/ share' # share
                         \/ now - token[t].used > ActiveWindow
                         \/ now - token[t].born > MaxLife
<1>1. ASSUME SeatsInv, Next, NEW t \in Seated \ Seated'
      PROVE  Excused(t)
  <2>1. \A u \in Seated : Expired(u) => Excused(u)
    BY <1>1, TheExpiredWereAway
  <2>2. ToSet(Unexpired) = {u \in Seated : ~Expired(u)}
    BY <1>1, UnexpiredIsFit DEF SeatsInv
  <2>3. viewers' # viewers
    BY <1>1 DEF Seated
  <2>4. CASE \E u \in Tokens : Use(u)
    <3>1. PICK u \in Tokens : Use(u)
      BY <2>4
    <3>2. PICK kept : kept = Unexpired
      OBVIOUS
    <3>3. viewers' = IF u \in ToSet(kept) THEN Append(Filtered(kept, Tokens \ {u}), u) ELSE kept
      BY <3>1, <3>2 DEF Use
    <3>4. kept \in Seq(Tokens) /\ IsInjective(kept)
      BY <1>1, <3>2, UnexpiredIsFit DEF SeatsInv
    <3>5. Seated' = ToSet(kept)
      <4>1. CASE u \in ToSet(kept)
        <5>1. PICK others : others = Filtered(kept, Tokens \ {u})
          OBVIOUS
        <5>2. others \in Seq(Tokens) /\ IsInjective(others) /\ ToSet(others) = ToSet(kept) \ {u}
          BY <3>4, <5>1, WithoutOne
        <5>3. ToSet(Append(others, u)) = ToSet(others) \cup {u}
          BY <5>2, AppendedOnce
        <5>4. viewers' = Append(others, u)
          BY <3>3, <4>1, <5>1
        <5>5. Seated' = ToSet(Append(others, u))
          BY <5>4 DEF Seated
        <5> QED BY <4>1, <5>2, <5>3, <5>5
      <4>2. CASE u \notin ToSet(kept)
        BY <3>3, <4>2 DEF Seated
      <4> QED BY <4>1, <4>2
    <3> QED BY <1>1, <2>1, <2>2, <3>2, <3>5
  <2>5. ASSUME NEW u \in Tokens, Leave(u) PROVE Excused(t)
    <3>1. viewers \in Seq(Tokens) /\ IsInjective(viewers)
      BY <1>1 DEF SeatsInv, TypeOK
    <3>2. Seated' = Seated \ {u}
      <4>1. PICK others : others = Filtered(viewers, Tokens \ {u})
        OBVIOUS
      <4>2. ToSet(others) = ToSet(viewers) \ {u}
        BY <3>1, <4>1, WithoutOne
      <4>3. viewers' = others
        BY <2>5, <4>1 DEF Leave
      <4> QED BY <4>2, <4>3 DEF Seated
    <3>3. t = u
      BY <1>1, <3>2
    <3> QED BY <2>5, <3>3
  <2>6. CASE \E g \in Codes : RefuseSeat(g)
    <3>1. Seated' = ToSet(Unexpired)
      BY <2>6 DEF RefuseSeat, Seated
    <3> QED BY <1>1, <2>1, <2>2, <3>1
  <2>7. ASSUME NEW g \in Codes, Join(g) PROVE Excused(t)
    <3>1. PICK kept : kept = Unexpired
      OBVIOUS
    <3>2. PICK stay : stay = IF RoomIn(kept) THEN kept ELSE Tail(kept)
      OBVIOUS
    <3>3. viewers' = Append(stay, lastToken + 1) /\ RoomMade(kept)
      BY <2>7, <3>1, <3>2 DEF Join
    <3>4. /\ stay \in Seq(Tokens) /\ ToSet(kept) \subseteq ToSet(stay) \cup {Head(kept)}
          /\ RoomIn(kept) => stay = kept
      BY <1>1, <3>1, <3>2, StayingIsFit
    <3>5. ToSet(stay) \subseteq Seated'
      <4>1. \A i \in 1..Len(stay) : viewers'[i] = stay[i] /\ i \in DOMAIN viewers'
        BY <3>3, <3>4
      <4>2. DOMAIN stay = 1..Len(stay)
        BY <3>4
      <4> QED BY <4>1, <4>2 DEF Seated, ToSet
    <3>6. t \notin ToSet(stay)
      BY <1>1, <3>5
    <3>7. CASE t \in ToSet(kept)
      <4>1. t = Head(kept) /\ ~RoomIn(kept)
        BY <3>4, <3>6, <3>7
      <4> QED BY <3>3, <4>1 DEF RoomMade, Evictable
    <3> QED BY <1>1, <2>1, <2>2, <3>1, <3>7
  <2>8. CASE RegisterNew
    <3>1. share' = share + 1 /\ share \in Nat
      BY <1>1, <2>8, SeatLimits DEF RegisterNew, SeatsInv, TypeOK
    <3> QED BY <3>1
  <2>9. CASE Restart
    <3>1. Seated' = ToSet(Unexpired)
      BY <2>9 DEF Restart, Seated
    <3> QED BY <1>1, <2>1, <2>2, <3>1
  <2>10. CASE Tick \/ Resume \/ End \/ \E g \in Codes : RefuseBlocked(g) \/ Miss(g) \/ RefuseMint(g)
    BY <2>3, <2>10 DEF Tick, Resume, Registered, KeptViewers, End, RefuseBlocked, Miss, RefuseMint, seats
  <2> QED BY <1>1, <2>4, <2>5, <2>6, <2>7, <2>8, <2>9, <2>10 DEF Next
<1>2. SeatsInv /\ [Next]_vars => [\A t \in Seated \ Seated' : Excused(t)]_vars
  BY <1>1
<1>3. Init => SeatsInv
  BY SeatsStart
<1>4. SeatsInv /\ [Next]_vars => SeatsInv'
  BY SeatsKept
<1> QED BY <1>2, <1>3, <1>4, PTL DEF Spec, PresentViewerKeepsSeat

---------------------------------------------------------------------------
(* Histories: what a list of counts by time has in it *)

LEMMA EventsAreCounted ==
  ASSUME NEW at \in [Times -> Nat], NEW s \in Times
  PROVE  /\ IsFiniteSet(Events(at))
         /\ \A S \in SUBSET Events(at) : IsFiniteSet(S) /\ Cardinality(S) \in Nat
         /\ Total(at) \in Nat /\ Cardinality(Until(at, s)) \in Nat
         /\ Cardinality(Since(at, s)) \in Nat /\ Cardinality(After(at, s)) \in Nat
         /\ Total(at) = Cardinality(Until(at, s)) + Cardinality(Since(at, s))
         /\ \A e \in Events(at) : e[1] \in Times /\ e = <<e[1], e[2]>> /\ e[2] \in 1..at[e[1]] /\ at[e[1]] > 0
<1> DEFINE OfTime(t) == {t} \X (1..at[t])
           times == [t \in Times |-> OfTime(t)]
<1>1. IsFiniteSet(Times)
  <2>1. 0 \in Int /\ MaxNow \in Int /\ Times = 0..MaxNow
    BY SeatLimits
  <2> QED BY <2>1, FS_Interval
<1>2. \A t \in Times : IsFiniteSet(OfTime(t))
  <2> SUFFICES ASSUME NEW t \in Times PROVE IsFiniteSet({t} \X (1..at[t]))
    OBVIOUS
  <2>1. 1 \in Int /\ at[t] \in Int
    OBVIOUS
  <2>2. IsFiniteSet(1..at[t])
    BY <2>1, FS_Interval
  <2> QED BY <2>2, FS_Singleton, FS_Product
<1>3. IsFiniteSet({OfTime(t) : t \in Times})
  <2>1. times \in Surjection(Times, {OfTime(t) : t \in Times})
    BY DEF Surjection
  <2> QED BY <1>1, <2>1, FS_Surjection
<1>4. IsFiniteSet(Events(at))
  <2>1. Events(at) = UNION {OfTime(t) : t \in Times}
    BY DEF Events
  <2> HIDE DEF OfTime
  <2> QED BY <1>2, <1>3, <2>1, FS_UNION
<1>5. \A e \in Events(at) : e[1] \in Times /\ e = <<e[1], e[2]>> /\ e[2] \in 1..at[e[1]]
  BY DEF Events
<1>6. \A e \in Events(at) : at[e[1]] > 0 /\ e[1] \in Nat
  <2>1. \A n \in Nat : \A i \in 1..n : n > 0
    BY SMT
  <2>2. Times \subseteq Nat
    BY SeatLimits
  <2> QED BY <1>5, <2>1, <2>2
<1>7. \A S \in SUBSET Events(at) : IsFiniteSet(S) /\ Cardinality(S) \in Nat
  BY <1>4, FS_Subset, FS_CardinalityType
<1>8. Until(at, s) \in SUBSET Events(at) /\ Since(at, s) \in SUBSET Events(at) /\ After(at, s) \in SUBSET Events(at)
  BY DEF Until, Since, After
<1>9. Total(at) \in Nat
  BY <1>7 DEF Total
<1>10. Total(at) = Cardinality(Until(at, s)) + Cardinality(Since(at, s))
  <2>1. Until(at, s) = Events(at) \ Since(at, s)
    <3>1. \A e \in Events(at) : e[1] < s <=> ~(e[1] >= s)
      <4>1. \A m, n \in Nat : m < n <=> ~(m >= n)
        BY SMT
      <4>2. s \in Nat
        BY SeatLimits
      <4> QED BY <1>6, <4>1, <4>2
    <3> QED BY <3>1 DEF Until, Since
  <2>2. Events(at) \cap Since(at, s) = Since(at, s)
    BY <1>8
  <2>3. Cardinality(Until(at, s)) = Total(at) - Cardinality(Since(at, s))
    BY <1>4, <2>1, <2>2, FS_Difference DEF Total
  <2> QED BY <1>7, <1>8, <1>9, <2>3, SMT
<1> QED BY <1>4, <1>5, <1>6, <1>7, <1>8, <1>9, <1>10

\* A history that has lost events has no more of them anywhere.
LEMMA FewerEvents ==
  ASSUME NEW at \in [Times -> Nat], NEW less \in [Times -> Nat],
         \A t \in Times : less[t] \in {at[t], 0}, NEW s \in Times
  PROVE  /\ Total(less) <= Total(at)
         /\ Cardinality(Until(less, s)) <= Cardinality(Until(at, s))
         /\ Cardinality(Since(less, s)) <= Cardinality(Since(at, s))
         /\ Cardinality(After(less, s)) <= Cardinality(After(at, s))
<1>1. Events(less) \subseteq Events(at)
  <2> SUFFICES ASSUME NEW t \in Times PROVE {t} \X (1..less[t]) \subseteq Events(at)
    BY DEF Events
  <2>1. 1..less[t] \subseteq 1..at[t]
    BY SMT
  <2>2. {t} \X (1..less[t]) \subseteq {t} \X (1..at[t])
    BY <2>1
  <2>3. {t} \X (1..at[t]) \subseteq Events(at)
    BY DEF Events
  <2> QED BY <2>2, <2>3
<1>2. /\ Until(less, s) \in SUBSET Until(at, s) /\ Since(less, s) \in SUBSET Since(at, s)
      /\ After(less, s) \in SUBSET After(at, s)
  BY <1>1 DEF Until, Since, After
<1>3. IsFiniteSet(Events(at)) /\ IsFiniteSet(Until(at, s)) /\ IsFiniteSet(Since(at, s)) /\ IsFiniteSet(After(at, s))
  <2>1. Until(at, s) \in SUBSET Events(at) /\ Since(at, s) \in SUBSET Events(at) /\ After(at, s) \in SUBSET Events(at)
    BY DEF Until, Since, After
  <2> QED BY <2>1, EventsAreCounted
<1>4. Cardinality(Events(less)) <= Cardinality(Events(at))
  BY <1>1, <1>3, FS_Subset
<1> QED BY <1>2, <1>3, <1>4, FS_Subset DEF Total

\* One more event, at a time that is not before s.
LEMMA OneEventMore ==
  ASSUME NEW at \in [Times -> Nat], NEW n \in Times, NEW s \in Times, s <= n,
         NEW more \in [Times -> Nat], more[n] = at[n] + 1, \A t \in Times \ {n} : more[t] = at[t]
  PROVE  /\ Until(more, s) = Until(at, s)
         /\ Cardinality(Since(more, s)) = Cardinality(Since(at, s)) + 1
         /\ Cardinality(After(more, s)) = IF n = s THEN Cardinality(After(at, s)) ELSE Cardinality(After(at, s)) + 1
<1> DEFINE e == <<n, at[n] + 1>>
<1>2. n \in Nat /\ s \in Nat /\ Times \subseteq Nat /\ at[n] \in Nat
  BY SeatLimits
<1>3. 1..(at[n] + 1) = (1..at[n]) \cup {at[n] + 1} /\ at[n] + 1 \notin 1..at[n]
  BY <1>2, SMT
<1>4. Events(more) = Events(at) \cup {e} /\ e \notin Events(at)
  <2>1. ASSUME NEW d \in Events(more) PROVE d \in Events(at) \cup {e}
    <3>1. PICK t \in Times : d \in {t} \X (1..more[t])
      BY <2>1 DEF Events
    <3>2. d \in {t} \X (1..at[t]) \/ d = e
      BY <1>3, <3>1
    <3> QED BY <3>2 DEF Events
  <2>2. ASSUME NEW d \in Events(at) PROVE d \in Events(more)
    <3>1. PICK t \in Times : d \in {t} \X (1..at[t])
      BY <2>2 DEF Events
    <3>2. d \in {t} \X (1..more[t])
      BY <1>3, <3>1
    <3> QED BY <3>2 DEF Events
  <2>3. e \in Events(more)
    <3>1. e \in {n} \X (1..more[n])
      BY <1>3
    <3> QED BY <3>1 DEF Events
  <2>4. e \notin Events(at)
    BY <1>3 DEF Events
  <2> QED BY <2>1, <2>2, <2>3, <2>4
<1>5. e[1] = n
  OBVIOUS
<1> HIDE DEF e
<1>6. Until(more, s) = Until(at, s)
  <2>1. ~(n < s)
    BY <1>2, SMT
  <2> QED BY <1>4, <1>5, <2>1 DEF Until
<1>7. Since(more, s) = Since(at, s) \cup {e} /\ e \notin Since(at, s)
  <2>1. n >= s
    BY <1>2, SMT
  <2> QED BY <1>4, <1>5, <2>1 DEF Since
<1>8. After(more, s) = (IF n = s THEN After(at, s) ELSE After(at, s) \cup {e}) /\ e \notin After(at, s)
  <2>1. n > s <=> n # s
    BY <1>2, SMT
  <2> QED BY <1>4, <1>5, <2>1 DEF After
<1>9. IsFiniteSet(Since(at, s)) /\ IsFiniteSet(After(at, s))
  <2>1. Since(at, s) \in SUBSET Events(at) /\ After(at, s) \in SUBSET Events(at)
    BY DEF Since, After
  <2> QED BY <2>1, EventsAreCounted
<1>10. Cardinality(Since(more, s)) = Cardinality(Since(at, s)) + 1
  BY <1>7, <1>9, FS_AddElement
<1>11. Cardinality(After(more, s)) = IF n = s THEN Cardinality(After(at, s)) ELSE Cardinality(After(at, s)) + 1
  BY <1>8, <1>9, FS_AddElement
<1> QED BY <1>6, <1>10, <1>11

\* Of events that were all before s, all were until s and none since.
LEMMA AllWereBefore ==
  ASSUME NEW at \in [Times -> Nat], NEW s \in Times, \A t \in Times : at[t] > 0 => t < s
  PROVE  Cardinality(Until(at, s)) = Total(at) /\ Cardinality(Since(at, s)) = 0 /\ Cardinality(After(at, s)) = 0
<1>1. \A e \in Events(at) : e[1] < s /\ e[1] \in Nat /\ s \in Nat
  <2>1. \A e \in Events(at) : e[1] \in Times /\ at[e[1]] > 0
    BY EventsAreCounted
  <2>2. Times \subseteq Nat
    BY SeatLimits
  <2> QED BY <2>1, <2>2
<1>2. \A m, n \in Nat : m < n => ~(m >= n) /\ ~(m > n)
  BY SMT
<1>3. Until(at, s) = Events(at) /\ Since(at, s) = {} /\ After(at, s) = {}
  BY <1>1, <1>2 DEF Until, Since, After
<1> QED BY <1>3, FS_EmptySet DEF Total

\* Of events that were all after s, none was until s, nor at s.
LEMMA AllCameAfter ==
  ASSUME NEW at \in [Times -> Nat], NEW s \in Nat, \A t \in Times : at[t] > 0 => s < t
  PROVE  Cardinality(After(at, s)) = Total(at) /\ Cardinality(Since(at, s)) = Total(at)
<1>1. \A e \in Events(at) : s < e[1] /\ e[1] \in Nat
  <2>1. Times \subseteq Nat /\ 0 \in Times
    BY SeatLimits
  <2>2. \A e \in Events(at) : e[1] \in Times /\ at[e[1]] > 0
    BY <2>1, EventsAreCounted
  <2> QED BY <2>1, <2>2
<1>2. \A m, n \in Nat : m < n => n >= m /\ n > m
  BY SMT
<1>3. After(at, s) = Events(at) /\ Since(at, s) = Events(at)
  BY <1>1, <1>2 DEF Since, After
<1> QED BY <1>3 DEF Total

LEMMA NothingEver ==
  /\ Never \in [Times -> Nat] /\ Total(Never) = 0
  /\ \A t \in Times : Never[t] = 0
<1>1. Never \in [Times -> Nat] /\ \A t \in Times : Never[t] = 0
  BY DEF Never
<1>2. Events(Never) = {}
  <2>1. \A t \in Times : {t} \X (1..Never[t]) = {}
    <3>1. 1..0 = {}
      BY SMT
    <3> QED BY <1>1, <3>1
  <2> QED BY <2>1 DEF Events
<1> QED BY <1>1, <1>2, FS_EmptySet DEF Total

---------------------------------------------------------------------------
(* The lock on guesses *)

LEMMA CountersAreFit ==
  ASSUME GuessesInv
  PROVE  /\ now \in Times /\ now \in Nat /\ LockTerm <= now /\ MintTerm <= now
         /\ fails \in Count /\ mints \in Count
         /\ missesAt \in [Times -> Nat] /\ mintsAt \in [Times -> Nat]
         /\ Times \subseteq Nat /\ 0 \in Times
<1>1. now \in Times /\ Epoch <= now
  BY DEF GuessesInv, SeatsInv, TypeOK
<1>2. now \in Nat /\ Times \subseteq Nat /\ 0 \in Times /\ Epoch \in Nat /\ LockTerm <= Epoch /\ MintTerm <= Epoch
      /\ LockTerm \in Nat /\ MintTerm \in Nat
  BY <1>1, SeatLimits
<1>3. LockTerm <= now /\ MintTerm <= now
  BY <1>1, <1>2, SMT
<1> QED BY <1>1, <1>2, <1>3 DEF GuessesInv, SeatsInv, TypeOK

LEMMA CountOf ==
  ASSUME NEW c \in Count
  PROVE  /\ c.count \in Nat /\ c.start \in Times /\ c.start \in Nat
         /\ c = [count |-> c.count, start |-> c.start]
BY SeatLimits DEF Count

\* A window that ran out has kept fewer misses than a lock takes: those after its first.
LEMMA WindowPassed ==
  ASSUME NEW c \in Count, NEW at \in [Times -> Nat], NEW n \in Times,
         LockFits(c, at, n), Recent(at, LockTerm, n), c.count # 0, n - c.start >= LockTerm
  PROVE  Unlocked(at, n)
<1>1. c.count \in Nat /\ c.start \in Nat /\ n \in Nat /\ LockTerm \in Nat /\ LockThreshold \in Nat /\ Times \subseteq Nat
  BY CountOf, SeatLimits
<1>2. /\ c.count <= LockThreshold
      /\ Cardinality(After(at, c.start)) <= c.count - 1
      /\ \A t \in Times : at[t] > 0 => t < c.start + LockTerm
  BY DEF LockFits, MissesOf
<1>3. ASSUME NEW t \in Times, at[t] > 0 PROVE t < n /\ c.start < t
  <2>1. t \in Nat /\ t < c.start + LockTerm /\ n - LockTerm < t
    BY <1>1, <1>2, <1>3 DEF Recent
  <2> QED BY <1>1, <2>1, SMT
<1>4. Cardinality(After(at, c.start)) = Total(at)
  BY <1>1, <1>3, AllCameAfter
<1>5. Total(at) \in Nat
  BY EventsAreCounted
<1>6. Total(at) <= LockThreshold - 1
  BY <1>1, <1>2, <1>4, <1>5, SMT
<1> QED BY <1>3, <1>6 DEF Unlocked

LEMMA UnlockedFits ==
  ASSUME NEW at, NEW n, Unlocked(at, n)
  PROVE  LockFits(NoCount, at, n)
<1>1. 0 <= LockThreshold
  BY SeatLimits
<1> QED BY <1>1 DEF LockFits, NoCount

LEMMA FailsNowFits ==
  ASSUME GuessesInv, live, ~Locked
  PROVE  FailsNow \in Count /\ FailsNow.count < LockThreshold /\ LockFits(FailsNow, missesAt, now)
<1>1. /\ now \in Times /\ fails \in Count /\ missesAt \in [Times -> Nat] /\ now \in Nat /\ 0 \in Times
      /\ LockFits(fails, missesAt, now) /\ Recent(missesAt, LockTerm, now)
  BY CountersAreFit DEF GuessesInv
<1>2. fails.count \in Nat /\ fails.start \in Nat /\ LockThreshold \in Nat \ {0} /\ LockTerm \in Nat
  BY <1>1, CountOf, SeatLimits
<1>3. CASE fails.count >= LockThreshold
  <2>1. fails.count # 0 /\ now - fails.start >= LockTerm
    BY <1>1, <1>2, <1>3, SMT DEF Locked
  <2>2. Unlocked(missesAt, now)
    BY <1>1, <2>1, WindowPassed
  <2>3. FailsNow = NoCount
    BY <1>3 DEF FailsNow
  <2>4. NoCount \in Count /\ NoCount.count < LockThreshold
    BY <1>1, <1>2 DEF NoCount, Count
  <2> QED BY <2>2, <2>3, <2>4, UnlockedFits
<1>4. CASE ~(fails.count >= LockThreshold)
  <2>1. fails.count < LockThreshold
    BY <1>2, <1>4, SMT
  <2> QED BY <1>1, <1>4, <2>1 DEF FailsNow
<1> QED BY <1>3, <1>4

\* A miss starts a window or is counted in the one that is open.
LEMMA MissFits ==
  ASSUME GuessesInv, live, ~Locked
  PROVE  LockFits(Counted(FailsNow, LockTerm), [missesAt EXCEPT ![now] = @ + 1], now)
<1>1. PICK c : c = FailsNow
  OBVIOUS
<1>2. PICK more : more = [missesAt EXCEPT ![now] = @ + 1]
  OBVIOUS
<1>3. c \in Count /\ c.count < LockThreshold /\ LockFits(c, missesAt, now) /\ Recent(missesAt, LockTerm, now)
  BY <1>1, FailsNowFits DEF GuessesInv
<1>4. now \in Times /\ missesAt \in [Times -> Nat] /\ now \in Nat /\ LockTerm <= now /\ Times \subseteq Nat
  BY CountersAreFit
<1>5. c.count \in Nat /\ c.start \in Nat /\ c.start \in Times /\ LockThreshold \in Nat \ {0} /\ LockTerm \in Nat \ {0}
  BY <1>3, CountOf, SeatLimits
<1>6. more \in [Times -> Nat] /\ more[now] = missesAt[now] + 1 /\ \A t \in Times \ {now} : more[t] = missesAt[t]
  BY <1>2, <1>4
<1>7. CASE now - c.start >= LockTerm
  <2>1. Counted(FailsNow, LockTerm) = [count |-> 1, start |-> now]
    BY <1>1, <1>7 DEF Counted
  <2>2. Unlocked(missesAt, now)
    <3>1. CASE c.count = 0
      BY <1>3, <3>1 DEF LockFits
    <3>2. CASE c.count # 0
      BY <1>3, <1>4, <1>7, <3>2, WindowPassed
    <3> QED BY <3>1, <3>2
  <2>3. /\ Cardinality(Until(missesAt, now)) = Total(missesAt)
        /\ Cardinality(Since(missesAt, now)) = 0 /\ Cardinality(After(missesAt, now)) = 0
    BY <1>4, <2>2, AllWereBefore DEF Unlocked
  <2>4. /\ Until(more, now) = Until(missesAt, now)
        /\ Cardinality(Since(more, now)) = Cardinality(Since(missesAt, now)) + 1
        /\ Cardinality(After(more, now)) = Cardinality(After(missesAt, now))
    <3>1. now <= now
      BY <1>4
    <3> QED BY <1>4, <1>6, <3>1, OneEventMore
  <2>5. /\ Cardinality(Until(more, now)) <= LockThreshold - 1
        /\ Cardinality(Since(more, now)) <= 1
        /\ Cardinality(After(more, now)) <= 1 - 1
    BY <2>2, <2>3, <2>4 DEF Unlocked
  <2>6. \A t \in Times : more[t] > 0 => t < now + LockTerm
    <3> SUFFICES ASSUME NEW t \in Times, more[t] > 0 PROVE t < now + LockTerm
      OBVIOUS
    <3>1. CASE t = now
      BY <1>4, <1>5, <3>1, SMT
    <3>2. CASE t # now
      <4>1. t < now /\ t \in Nat
        BY <1>2, <1>4, <2>2, <3>2 DEF Unlocked
      <4> QED BY <1>4, <1>5, <4>1, SMT
    <3> QED BY <3>1, <3>2
  <2>7. more[now] > 0
    BY <1>2, <1>4
  <2>8. 1 <= LockThreshold /\ now <= now
    BY <1>4, <1>5
  <2> QED BY <1>2, <2>1, <2>5, <2>6, <2>7, <2>8 DEF LockFits, MissesOf
<1>8. CASE ~(now - c.start >= LockTerm)
  <2>1. c.count # 0
    <3> SUFFICES ASSUME c.count = 0 PROVE FALSE
      OBVIOUS
    <3>1. c.start = 0
      BY <1>3 DEF LockFits
    <3> QED BY <1>4, <1>5, <1>8, <3>1, SMT
  <2>2. /\ c.start <= now
        /\ Cardinality(Until(missesAt, c.start)) <= LockThreshold - 1
        /\ Cardinality(Since(missesAt, c.start)) <= c.count
        /\ Cardinality(After(missesAt, c.start)) <= c.count - 1
        /\ \A t \in Times : missesAt[t] > 0 => t < c.start + LockTerm
        /\ now - c.start < LockTerm => missesAt[c.start] > 0
    BY <1>3, <2>1 DEF LockFits, MissesOf
  <2>3. now < c.start + LockTerm /\ now - c.start < LockTerm
    BY <1>4, <1>5, <1>8, SMT
  <2>4. /\ Until(more, c.start) = Until(missesAt, c.start)
        /\ Cardinality(Since(more, c.start)) = Cardinality(Since(missesAt, c.start)) + 1
        /\ Cardinality(After(more, c.start)) = IF now = c.start THEN Cardinality(After(missesAt, c.start))
                                                ELSE Cardinality(After(missesAt, c.start)) + 1
    <3>1. ASSUME NEW s \in Times, s <= now
          PROVE  /\ Until(more, s) = Until(missesAt, s)
                 /\ Cardinality(Since(more, s)) = Cardinality(Since(missesAt, s)) + 1
                 /\ Cardinality(After(more, s)) = IF now = s THEN Cardinality(After(missesAt, s))
                                                   ELSE Cardinality(After(missesAt, s)) + 1
      BY <1>4, <1>6, <3>1, OneEventMore
    <3> QED BY <1>5, <2>2, <3>1
  <2>5. Cardinality(Since(missesAt, c.start)) \in Nat /\ Cardinality(After(missesAt, c.start)) \in Nat
    BY <1>4, <1>5, EventsAreCounted
  <2>6. /\ Cardinality(Since(more, c.start)) <= c.count + 1
        /\ Cardinality(After(more, c.start)) <= (c.count + 1) - 1
    BY <1>5, <2>2, <2>4, <2>5, SMT
  <2>7. \A t \in Times : more[t] > 0 => t < c.start + LockTerm
    <3> SUFFICES ASSUME NEW t \in Times, more[t] > 0 PROVE t < c.start + LockTerm
      OBVIOUS
    <3>1. CASE t = now
      BY <2>3, <3>1
    <3>2. CASE t # now
      BY <1>2, <1>4, <2>2, <3>2
    <3> QED BY <3>1, <3>2
  <2>8. more[c.start] > 0
    <3>1. missesAt[c.start] > 0 /\ missesAt[c.start] \in Nat /\ missesAt[c.start] + 1 > 0
      BY <1>4, <1>5, <2>2, <2>3
    <3> QED BY <1>2, <1>4, <1>5, <3>1
  <2>9. c.count + 1 <= LockThreshold /\ c.count + 1 # 0
    BY <1>3, <1>5, SMT
  <2>10. Counted(FailsNow, LockTerm) = [count |-> c.count + 1, start |-> c.start]
    <3>1. Counted(FailsNow, LockTerm) = [c EXCEPT !.count = @ + 1]
      BY <1>1, <1>8 DEF Counted
    <3>2. c = [count |-> c.count, start |-> c.start]
      BY <1>3, CountOf
    <3> QED BY <3>1, <3>2
  <2> QED BY <1>2, <2>2, <2>4, <2>6, <2>7, <2>8, <2>9, <2>10 DEF LockFits, MissesOf
<1> QED BY <1>7, <1>8

\* The clock moves, and what is older than a lock's term is let go of.
LEMMA LockOutlivesTicks ==
  ASSUME NEW c \in Count, NEW at \in [Times -> Nat], NEW n \in Nat,
         LockFits(c, at, n), Recent(at, LockTerm, n)
  PROVE  LockFits(c, [t \in Times |-> IF (n + 1) - LockTerm < t THEN at[t] ELSE 0], n + 1)
<1> DEFINE less == [t \in Times |-> IF (n + 1) - LockTerm < t THEN at[t] ELSE 0]
<1>1. less \in [Times -> Nat] /\ \A t \in Times : less[t] \in {at[t], 0}
  OBVIOUS
<1>2. \A t \in Times : less[t] > 0 => at[t] > 0
  BY <1>1
<1>3. c.count \in Nat /\ c.start \in Nat /\ c.start \in Times /\ LockThreshold \in Nat \ {0} /\ LockTerm \in Nat
      /\ Times \subseteq Nat /\ 0 \in Times
  BY CountOf, SeatLimits
<1>4. (n + 1) - LockTerm < c.start => less[c.start] = at[c.start]
  BY <1>3
<1> HIDE DEF less
<1>5. CASE c.count = 0
  <2>1. c.start = 0 /\ Total(at) <= LockThreshold - 1 /\ \A t \in Times : at[t] > 0 => t < n
    BY <1>5 DEF LockFits, Unlocked
  <2>2. Total(less) <= Total(at) /\ Total(less) \in Nat /\ Total(at) \in Nat
    BY <1>1, <1>3, FewerEvents, EventsAreCounted
  <2>3. Total(less) <= LockThreshold - 1
    BY <1>3, <2>1, <2>2, SMT
  <2>4. \A t \in Times : less[t] > 0 => t < n + 1
    <3>1. \A m \in Nat : m < n => m < n + 1
      BY SMT
    <3> QED BY <1>2, <1>3, <2>1, <3>1
  <2>5. c.count <= LockThreshold
    BY DEF LockFits
  <2> QED BY <1>5, <2>1, <2>3, <2>4, <2>5 DEF LockFits, Unlocked, less
<1>6. CASE c.count # 0
  <2>1. /\ c.count <= LockThreshold
        /\ c.start <= n
        /\ Cardinality(Until(at, c.start)) <= LockThreshold - 1
        /\ Cardinality(Since(at, c.start)) <= c.count
        /\ Cardinality(After(at, c.start)) <= c.count - 1
        /\ \A t \in Times : at[t] > 0 => t < c.start + LockTerm
        /\ n - c.start < LockTerm => at[c.start] > 0
    BY <1>6 DEF LockFits, MissesOf
  <2>2. /\ Cardinality(Until(less, c.start)) <= Cardinality(Until(at, c.start))
        /\ Cardinality(Since(less, c.start)) <= Cardinality(Since(at, c.start))
        /\ Cardinality(After(less, c.start)) <= Cardinality(After(at, c.start))
    BY <1>1, <1>3, FewerEvents
  <2>3. /\ Cardinality(Until(less, c.start)) \in Nat /\ Cardinality(Until(at, c.start)) \in Nat
        /\ Cardinality(Since(less, c.start)) \in Nat /\ Cardinality(Since(at, c.start)) \in Nat
        /\ Cardinality(After(less, c.start)) \in Nat /\ Cardinality(After(at, c.start)) \in Nat
    BY <1>1, <1>3, EventsAreCounted
  <2>4. /\ Cardinality(Until(less, c.start)) <= LockThreshold - 1
        /\ Cardinality(Since(less, c.start)) <= c.count
        /\ Cardinality(After(less, c.start)) <= c.count - 1
        /\ c.start <= n + 1
    BY <1>3, <2>1, <2>2, <2>3, SMT
  <2>5. \A t \in Times : less[t] > 0 => t < c.start + LockTerm
    BY <1>2, <2>1
  <2>6. (n + 1) - c.start < LockTerm => less[c.start] > 0
    <3>1. (n + 1) - c.start < LockTerm => n - c.start < LockTerm /\ (n + 1) - LockTerm < c.start
      BY <1>3, SMT
    <3> QED BY <1>4, <2>1, <3>1
  <2>7. MissesOf(c, less, n + 1)
    BY <2>4, <2>5, <2>6 DEF MissesOf
  <2> QED BY <1>6, <2>1, <2>7 DEF LockFits, less
<1> QED BY <1>5, <1>6

LEMMA LetGoOf ==
  ASSUME NEW at \in [Times -> Nat], NEW n \in Nat, NEW term \in Nat, Recent(at, term, n)
  PROVE  LET less == [t \in Times |-> IF (n + 1) - term < t THEN at[t] ELSE 0] IN
         /\ less \in [Times -> Nat] /\ Recent(less, term, n + 1) /\ Total(less) <= Total(at)
<1> DEFINE less == [t \in Times |-> IF (n + 1) - term < t THEN at[t] ELSE 0]
<1>1. less \in [Times -> Nat] /\ \A t \in Times : less[t] \in {at[t], 0}
  OBVIOUS
<1>2. Times \subseteq Nat /\ 0 \in Times
  BY SeatLimits
<1>3. ASSUME NEW t \in Times, less[t] > 0 PROVE t <= n + 1 /\ (n + 1) - term < t
  <2>1. (n + 1) - term < t /\ at[t] > 0
    BY <1>3
  <2>2. t <= n /\ t \in Nat
    BY <1>2, <2>1 DEF Recent
  <2> QED BY <2>1, <2>2, SMT
<1> HIDE DEF less
<1>4. Total(less) <= Total(at)
  BY <1>1, <1>2, FewerEvents
<1>5. Recent(less, term, n + 1)
  BY <1>3 DEF Recent
<1> QED BY <1>1, <1>4, <1>5 DEF less

LEMMA LockBounds ==
  ASSUME NEW c \in Count, NEW at \in [Times -> Nat], NEW n, LockFits(c, at, n)
  PROVE  Total(at) <= 2 * LockThreshold - 1
<1>1. c.count \in Nat /\ c.start \in Times /\ LockThreshold \in Nat \ {0} /\ 0 \in Times
  BY CountOf, SeatLimits
<1>2. /\ Total(at) \in Nat /\ Cardinality(Until(at, c.start)) \in Nat /\ Cardinality(Since(at, c.start)) \in Nat
      /\ Total(at) = Cardinality(Until(at, c.start)) + Cardinality(Since(at, c.start))
  BY <1>1, EventsAreCounted
<1>3. CASE c.count = 0
  <2>1. Total(at) <= LockThreshold - 1
    BY <1>3 DEF LockFits, Unlocked
  <2> QED BY <1>1, <1>2, <2>1, SMT
<1>4. CASE c.count # 0
  <2>1. /\ Cardinality(Until(at, c.start)) <= LockThreshold - 1
        /\ Cardinality(Since(at, c.start)) <= c.count /\ c.count <= LockThreshold
    BY <1>4 DEF LockFits, MissesOf
  <2> QED BY <1>1, <1>2, <2>1, SMT
<1> QED BY <1>3, <1>4

---------------------------------------------------------------------------
(* The cap on minted tokens *)

LEMMA MintsBound ==
  ASSUME NEW c \in Count, NEW at \in [Times -> Nat], NEW n, MintsFit(c, at, n)
  PROVE  Total(at) <= 2 * MintCap
<1>1. c.count \in Nat /\ c.start \in Times /\ MintCap \in Nat /\ 0 \in Times
  BY CountOf, SeatLimits
<1>2. /\ Total(at) \in Nat /\ Cardinality(Until(at, c.start)) \in Nat /\ Cardinality(Since(at, c.start)) \in Nat
      /\ Total(at) = Cardinality(Until(at, c.start)) + Cardinality(Since(at, c.start))
  BY <1>1, EventsAreCounted
<1>3. CASE c = NoCount
  <2>1. Total(at) = 0
    BY <1>3, NothingEver DEF MintsFit
  <2> QED BY <1>1, <2>1, SMT
<1>4. CASE c # NoCount
  <2>1. /\ Cardinality(Until(at, c.start)) <= MintCap
        /\ Cardinality(Since(at, c.start)) <= c.count /\ c.count <= MintCap
    BY <1>4 DEF MintsFit, MintsOf
  <2> QED BY <1>1, <1>2, <2>1, SMT
<1> QED BY <1>3, <1>4

\* The window a join counts in has its mints, and may be new.
LEMMA MintsNowFits ==
  ASSUME GuessesInv, live
  PROVE  /\ MintsNow \in Count
         /\ MintsOf(MintsNow, mintsAt, now)
         /\ now < MintsNow.start + MintTerm
         /\ mints # NoCount => MintsNow # NoCount
<1>1. /\ now \in Times /\ mints \in Count /\ mintsAt \in [Times -> Nat] /\ now \in Nat /\ MintTerm <= now
      /\ Times \subseteq Nat
      /\ MintsFit(mints, mintsAt, now) /\ Recent(mintsAt, MintTerm, now)
  BY CountersAreFit DEF GuessesInv
<1>2. mints.count \in Nat /\ mints.start \in Nat /\ MintCap \in Nat \ {0} /\ MintTerm \in Nat \ {0}
  BY <1>1, CountOf, SeatLimits
<1>3. CASE now - mints.start >= MintTerm
  <2>1. MintsNow = [count |-> 0, start |-> now]
    BY <1>3 DEF MintsNow
  <2>2. MintsNow \in Count
    BY <1>1, <2>1 DEF Count
  <2>3. now # 0
    BY <1>1, <1>2, SMT
  <2>4. Total(mintsAt) <= MintCap /\ \A t \in Times : mintsAt[t] > 0 => t < now
    <3>1. CASE mints = NoCount
      <4>1. Total(mintsAt) = 0 /\ \A t \in Times : mintsAt[t] = 0
        BY <1>1, <3>1, NothingEver DEF MintsFit
      <4> QED BY <1>2, <4>1, SMT
    <3>2. CASE mints # NoCount
      <4>1. /\ mints.count <= MintCap
            /\ Cardinality(Since(mintsAt, mints.start)) <= mints.count
            /\ \A t \in Times : mintsAt[t] > 0 => t < mints.start + MintTerm
        BY <1>1, <3>2 DEF MintsFit, MintsOf
      <4>2. ASSUME NEW t \in Times, mintsAt[t] > 0 PROVE t < now /\ mints.start < t
        <5>1. t \in Nat /\ t < mints.start + MintTerm /\ now - MintTerm < t
          BY <1>1, <4>1, <4>2 DEF Recent
        <5> QED BY <1>1, <1>2, <1>3, <5>1, SMT
      <4>3. Cardinality(Since(mintsAt, mints.start)) = Total(mintsAt)
        BY <1>1, <1>2, <4>2, AllCameAfter
      <4>4. Total(mintsAt) \in Nat
        BY <1>1, EventsAreCounted
      <4>5. Total(mintsAt) <= MintCap
        BY <1>2, <4>1, <4>3, <4>4, SMT
      <4> QED BY <4>2, <4>5
    <3> QED BY <3>1, <3>2
  <2>5. Cardinality(Until(mintsAt, now)) = Total(mintsAt) /\ Cardinality(Since(mintsAt, now)) = 0
    BY <1>1, <2>4, AllWereBefore
  <2>6. now < now + MintTerm /\ now <= now /\ 0 <= 0 /\ 0 <= MintCap
    BY <1>1, <1>2
  <2>7. \A t \in Times : mintsAt[t] > 0 => t < now + MintTerm
    <3>1. \A t \in Nat : t < now => t < now + MintTerm
      BY <1>1, <1>2, SMT
    <3> QED BY <1>1, <2>4, <3>1
  <2>8. ~(0 > 0)
    OBVIOUS
  <2>9. MintsOf([count |-> 0, start |-> now], mintsAt, now)
    BY <2>4, <2>5, <2>6, <2>7, <2>8 DEF MintsOf
  <2> QED BY <2>1, <2>2, <2>3, <2>6, <2>9 DEF NoCount
<1>4. CASE ~(now - mints.start >= MintTerm)
  <2>1. MintsNow = mints
    BY <1>4 DEF MintsNow
  <2>2. mints # NoCount
    <3> SUFFICES ASSUME mints = NoCount PROVE FALSE
      OBVIOUS
    <3>1. mints.start = 0
      BY DEF NoCount
    <3> QED BY <1>1, <1>2, <1>4, <3>1, SMT
  <2>3. now < mints.start + MintTerm
    BY <1>1, <1>2, <1>4, SMT
  <2> QED BY <1>1, <2>1, <2>2, <2>3 DEF MintsFit
<1> QED BY <1>3, <1>4

LEMMA RenewedFits ==
  ASSUME GuessesInv, live
  PROVE  MintsFit(Renewed, mintsAt, now)
<1>1. CASE mints = NoCount
  BY <1>1 DEF GuessesInv, Renewed
<1>2. CASE mints # NoCount
  <2>1. Renewed = MintsNow /\ MintsNow # NoCount /\ MintsOf(MintsNow, mintsAt, now)
    BY <1>2, MintsNowFits DEF Renewed
  <2> QED BY <2>1 DEF MintsFit
<1> QED BY <1>1, <1>2

LEMMA MintFits ==
  ASSUME GuessesInv, live, MintsNow.count < MintCap
  PROVE  MintsFit([MintsNow EXCEPT !.count = @ + 1], [mintsAt EXCEPT ![now] = @ + 1], now)
<1>1. PICK c : c = MintsNow
  OBVIOUS
<1>2. PICK more : more = [mintsAt EXCEPT ![now] = @ + 1]
  OBVIOUS
<1>3. c \in Count /\ MintsOf(c, mintsAt, now) /\ now < c.start + MintTerm /\ c.count < MintCap
  BY <1>1, MintsNowFits
<1>4. now \in Times /\ mintsAt \in [Times -> Nat] /\ now \in Nat /\ Times \subseteq Nat
  BY CountersAreFit
<1>5. c.count \in Nat /\ c.start \in Nat /\ c.start \in Times /\ MintCap \in Nat \ {0}
      /\ c = [count |-> c.count, start |-> c.start]
  BY <1>3, CountOf, SeatLimits
<1>6. more \in [Times -> Nat] /\ more[now] = mintsAt[now] + 1 /\ \A t \in Times \ {now} : more[t] = mintsAt[t]
  BY <1>2, <1>4
<1>7. /\ c.count <= MintCap /\ c.start <= now
      /\ Cardinality(Until(mintsAt, c.start)) <= MintCap
      /\ Cardinality(Since(mintsAt, c.start)) <= c.count
      /\ \A t \in Times : mintsAt[t] > 0 => t < c.start + MintTerm
  BY <1>3 DEF MintsOf
<1>8. PICK d : d = [count |-> c.count + 1, start |-> c.start]
  OBVIOUS
<1>9. [MintsNow EXCEPT !.count = @ + 1] = d
  BY <1>1, <1>5, <1>8
<1>10. Until(more, c.start) = Until(mintsAt, c.start)
       /\ Cardinality(Since(more, c.start)) = Cardinality(Since(mintsAt, c.start)) + 1
  <2>1. ASSUME NEW s \in Times, s <= now
        PROVE  /\ Until(more, s) = Until(mintsAt, s)
               /\ Cardinality(Since(more, s)) = Cardinality(Since(mintsAt, s)) + 1
    BY <1>4, <1>6, <2>1, OneEventMore
  <2> QED BY <1>5, <1>7, <2>1
<1>11. Cardinality(Since(more, c.start)) <= c.count + 1
  <2>1. Cardinality(Since(mintsAt, c.start)) \in Nat
    BY <1>4, <1>5, EventsAreCounted
  <2> QED BY <1>5, <1>7, <1>10, <2>1, SMT
<1>12. \A t \in Times : more[t] > 0 => t < c.start + MintTerm
  <2> SUFFICES ASSUME NEW t \in Times, more[t] > 0 PROVE t < c.start + MintTerm
    OBVIOUS
  <2>1. CASE t = now
    BY <1>3, <2>1
  <2>2. CASE t # now
    BY <1>6, <1>7, <2>2
  <2> QED BY <2>1, <2>2
<1>13. now >= c.start /\ more[now] > 0
  BY <1>4, <1>5, <1>6, <1>7, SMT
<1>14. d.count = c.count + 1 /\ d.start = c.start /\ c.count + 1 <= MintCap /\ d # NoCount
  <2>1. c.count + 1 <= MintCap /\ c.count + 1 # 0
    BY <1>3, <1>5, SMT
  <2>2. d.count = c.count + 1 /\ d.start = c.start /\ NoCount.count = 0
    BY <1>8 DEF NoCount
  <2> QED BY <2>1, <2>2
<1>15. MintsOf(d, more, now)
  BY <1>4, <1>7, <1>10, <1>11, <1>12, <1>13, <1>14 DEF MintsOf
<1> QED BY <1>2, <1>9, <1>14, <1>15 DEF MintsFit

LEMMA MintsOutliveTicks ==
  ASSUME NEW c \in Count, NEW at \in [Times -> Nat], NEW n \in Nat, MintsFit(c, at, n)
  PROVE  MintsFit(c, [t \in Times |-> IF (n + 1) - MintTerm < t THEN at[t] ELSE 0], n + 1)
<1> DEFINE less == [t \in Times |-> IF (n + 1) - MintTerm < t THEN at[t] ELSE 0]
<1>1. less \in [Times -> Nat] /\ \A t \in Times : less[t] \in {at[t], 0}
  OBVIOUS
<1>2. \A t \in Times : less[t] > 0 => at[t] > 0
  BY <1>1
<1>3. c.count \in Nat /\ c.start \in Nat /\ c.start \in Times /\ MintCap \in Nat \ {0} /\ MintTerm \in Nat
      /\ Times \subseteq Nat /\ 0 \in Times
  BY CountOf, SeatLimits
<1>4. \A t \in Times : (n + 1) - MintTerm < t => less[t] = at[t]
  BY <1>3
<1> HIDE DEF less
<1>5. CASE c = NoCount
  <2>1. at = Never
    BY <1>5 DEF MintsFit
  <2>2. \A t \in Times : less[t] = 0
    BY <1>1, <2>1, NothingEver
  <2>3. less = Never
    BY <1>1, <2>2 DEF Never
  <2> QED BY <1>5, <2>3 DEF MintsFit, less
<1>6. CASE c # NoCount
  <2>1. /\ c.count <= MintCap
        /\ c.start <= n
        /\ Cardinality(Until(at, c.start)) <= MintCap
        /\ Cardinality(Since(at, c.start)) <= c.count
        /\ \A t \in Times : at[t] > 0 => t < c.start + MintTerm
        /\ n - c.start < MintTerm /\ c.count > 0 => \E t \in Times : t >= c.start /\ at[t] > 0
    BY <1>6 DEF MintsFit, MintsOf
  <2>2. /\ Cardinality(Until(less, c.start)) <= Cardinality(Until(at, c.start))
        /\ Cardinality(Since(less, c.start)) <= Cardinality(Since(at, c.start))
    BY <1>1, <1>3, FewerEvents
  <2>3. /\ Cardinality(Until(less, c.start)) \in Nat /\ Cardinality(Until(at, c.start)) \in Nat
        /\ Cardinality(Since(less, c.start)) \in Nat /\ Cardinality(Since(at, c.start)) \in Nat
    BY <1>1, <1>3, EventsAreCounted
  <2>4. /\ Cardinality(Until(less, c.start)) <= MintCap
        /\ Cardinality(Since(less, c.start)) <= c.count
        /\ c.start <= n + 1
    BY <1>3, <2>1, <2>2, <2>3, SMT
  <2>5. \A t \in Times : less[t] > 0 => t < c.start + MintTerm
    BY <1>2, <2>1
  <2>6. ASSUME (n + 1) - c.start < MintTerm, c.count > 0 PROVE \E t \in Times : t >= c.start /\ less[t] > 0
    <3>1. n - c.start < MintTerm /\ (n + 1) - MintTerm < c.start
      BY <1>3, <2>6, SMT
    <3>2. PICK t \in Times : t >= c.start /\ at[t] > 0
      BY <2>1, <2>6, <3>1
    <3>3. (n + 1) - MintTerm < t
      BY <1>3, <3>1, <3>2, SMT
    <3>4. less[t] = at[t]
      BY <1>4, <3>3
    <3> QED BY <3>2, <3>4
  <2>7. MintsOf(c, less, n + 1)
    BY <2>1, <2>4, <2>5, <2>6 DEF MintsOf
  <2> QED BY <1>6, <2>7 DEF MintsFit, less
<1> QED BY <1>5, <1>6

---------------------------------------------------------------------------
(* Every step keeps the counters to what the histories say. *)

GuessesCounted ==
  /\ JoinsAreBounded
  /\ Recent(missesAt, LockTerm, now) /\ Recent(mintsAt, MintTerm, now)
  /\ live => LockFits(fails, missesAt, now) /\ MintsFit(mints, mintsAt, now)

\* A history with one more event now.
LEMMA OneMoreIsRecent ==
  ASSUME NEW at \in [Times -> Nat], NEW n \in Nat, NEW term \in Nat \ {0}, Recent(at, term, n)
  PROVE  Recent([at EXCEPT ![n] = @ + 1], term, n)
<1> DEFINE more == [at EXCEPT ![n] = @ + 1]
<1> SUFFICES ASSUME NEW t \in Times, more[t] > 0 PROVE t <= n /\ n - term < t
  BY DEF Recent
<1>1. CASE t = n
  BY <1>1, SMT
<1>2. CASE t # n
  BY <1>2 DEF Recent
<1> QED BY <1>1, <1>2

LEMMA NothingIsRecent ==
  ASSUME NEW term, NEW n
  PROVE  Recent(Never, term, n)
<1>1. \A t \in Times : ~(Never[t] > 0)
  BY NothingEver
<1> QED BY <1>1 DEF Recent

\* A new window on a new code.
LEMMA FreshFits ==
  ASSUME NEW n
  PROVE  LockFits(NoCount, Never, n) /\ MintsFit(NoCount, Never, n)
<1>1. Total(Never) <= LockThreshold - 1
  BY SeatLimits, NothingEver, SMT
<1>2. \A t \in Times : ~(Never[t] > 0)
  BY NothingEver
<1>3. Unlocked(Never, n)
  BY <1>1, <1>2 DEF Unlocked
<1> QED BY <1>3, UnlockedFits DEF MintsFit

LEMMA CountedFrom ==
  ASSUME SeatsInv', Recent(missesAt', LockTerm, now'), Recent(mintsAt', MintTerm, now'),
         live' => LockFits(fails', missesAt', now') /\ MintsFit(mints', mintsAt', now'),
         ~live' => Total(missesAt') <= 2 * LockThreshold - 1 /\ Total(mintsAt') <= 2 * MintCap
  PROVE  GuessesCounted'
<1>1. fails' \in Count /\ mints' \in Count /\ missesAt' \in [Times -> Nat] /\ mintsAt' \in [Times -> Nat]
  BY DEF SeatsInv, TypeOK
<1>2. JoinsAreBounded'
  <2>1. CASE live'
    BY <1>1, <2>1, LockBounds, MintsBound DEF JoinsAreBounded
  <2>2. CASE ~live'
    BY <2>2 DEF JoinsAreBounded
  <2> QED BY <2>1, <2>2
<1> QED BY <1>2 DEF GuessesCounted

LEMMA TickCounts ==
  ASSUME GuessesInv, SeatsInv', Tick
  PROVE  GuessesCounted'
<1>1. /\ now \in Nat /\ fails \in Count /\ mints \in Count
      /\ missesAt \in [Times -> Nat] /\ mintsAt \in [Times -> Nat] /\ Times \subseteq Nat /\ 0 \in Times
  BY CountersAreFit
<1>2. /\ now' = now + 1 /\ UNCHANGED <<live, fails, mints>>
      /\ missesAt' = [t \in Times |-> IF (now + 1) - LockTerm < t THEN missesAt[t] ELSE 0]
      /\ mintsAt' = [t \in Times |-> IF (now + 1) - MintTerm < t THEN mintsAt[t] ELSE 0]
  BY DEF Tick, counters
<1>3. LockTerm \in Nat /\ MintTerm \in Nat /\ LockThreshold \in Nat /\ MintCap \in Nat
  BY SeatLimits
<1>4. Recent(missesAt', LockTerm, now') /\ Total(missesAt') <= Total(missesAt)
  BY <1>1, <1>2, <1>3, LetGoOf DEF GuessesInv
<1>5. Recent(mintsAt', MintTerm, now') /\ Total(mintsAt') <= Total(mintsAt)
  BY <1>1, <1>2, <1>3, LetGoOf DEF GuessesInv
<1>6. live' => LockFits(fails', missesAt', now')
  BY <1>1, <1>2, LockOutlivesTicks DEF GuessesInv
<1>7. live' => MintsFit(mints', mintsAt', now')
  BY <1>1, <1>2, MintsOutliveTicks DEF GuessesInv
<1>8. Total(missesAt') <= 2 * LockThreshold - 1 /\ Total(mintsAt') <= 2 * MintCap
  <2>1. Total(missesAt) <= 2 * LockThreshold - 1 /\ Total(mintsAt) <= 2 * MintCap
    BY DEF GuessesInv, JoinsAreBounded
  <2>2. missesAt' \in [Times -> Nat] /\ mintsAt' \in [Times -> Nat]
    BY DEF SeatsInv, TypeOK
  <2>3. Total(missesAt') \in Nat /\ Total(mintsAt') \in Nat /\ Total(missesAt) \in Nat /\ Total(mintsAt) \in Nat
    BY <1>1, <2>2, EventsAreCounted
  <2> QED BY <1>3, <1>4, <1>5, <2>1, <2>3, SMT
<1> QED BY <1>4, <1>5, <1>6, <1>7, <1>8, CountedFrom

LEMMA MissCounts ==
  ASSUME GuessesInv, SeatsInv', NEW g \in Codes, Miss(g)
  PROVE  GuessesCounted'
<1>1. /\ now \in Times /\ now \in Nat /\ missesAt \in [Times -> Nat] /\ LockTerm \in Nat \ {0}
  BY CountersAreFit, SeatLimits
<1>2. /\ ~Locked /\ fails' = Counted(FailsNow, LockTerm)
      /\ missesAt' = IF live THEN [missesAt EXCEPT ![now] = @ + 1] ELSE missesAt
      /\ UNCHANGED <<now, live, mints, mintsAt>>
  BY DEF Miss
<1>3. CASE live
  <2>1. missesAt' = [missesAt EXCEPT ![now] = @ + 1]
    BY <1>2, <1>3
  <2>2. Recent(missesAt', LockTerm, now') /\ Recent(mintsAt', MintTerm, now')
    BY <1>1, <1>2, <2>1, OneMoreIsRecent DEF GuessesInv
  <2>3. LockFits(fails', missesAt', now')
    BY <1>2, <1>3, <2>1, MissFits
  <2>4. MintsFit(mints', mintsAt', now')
    BY <1>2, <1>3 DEF GuessesInv
  <2> QED BY <1>2, <1>3, <2>2, <2>3, <2>4, CountedFrom
<1>4. CASE ~live
  BY <1>2, <1>4 DEF GuessesInv, GuessesCounted, JoinsAreBounded
<1> QED BY <1>3, <1>4

LEMMA JoinCounts ==
  ASSUME GuessesInv, SeatsInv', NEW g \in Codes, Join(g)
  PROVE  GuessesCounted'
<1>1. /\ now \in Times /\ now \in Nat /\ mintsAt \in [Times -> Nat] /\ MintTerm \in Nat \ {0}
  BY CountersAreFit, SeatLimits
<1>2. /\ live /\ MintsNow.count < MintCap
      /\ fails' = NoCount /\ mints' = [MintsNow EXCEPT !.count = @ + 1]
      /\ missesAt' = Never /\ mintsAt' = [mintsAt EXCEPT ![now] = @ + 1]
      /\ UNCHANGED <<now, live>>
  BY DEF Join, Entered, IsTheCode
<1>3. Recent(mintsAt', MintTerm, now')
  BY <1>1, <1>2, OneMoreIsRecent DEF GuessesInv
<1>4. Recent(missesAt', LockTerm, now')
  BY <1>2, NothingIsRecent
<1>5. LockFits(fails', missesAt', now')
  BY <1>2, FreshFits
<1>6. MintsFit(mints', mintsAt', now')
  BY <1>2, MintFits
<1> QED BY <1>2, <1>3, <1>4, <1>5, <1>6, CountedFrom

LEMMA RefusalsCount ==
  ASSUME GuessesInv, SeatsInv', NEW g \in Codes, RefuseBlocked(g) \/ RefuseMint(g) \/ RefuseSeat(g)
  PROVE  GuessesCounted'
<1>1. UNCHANGED <<now, live, mintsAt>>
  BY DEF RefuseBlocked, RefuseMint, RefuseSeat, history
<1>2. CASE RefuseBlocked(g)
  <2>1. ~Locked /\ fails' = FailsNow /\ UNCHANGED <<mints, missesAt>>
    BY <1>2 DEF RefuseBlocked, history
  <2>2. live => LockFits(FailsNow, missesAt, now)
    BY <2>1, FailsNowFits
  <2> QED BY <1>1, <2>1, <2>2 DEF GuessesInv, GuessesCounted, JoinsAreBounded
<1>3. CASE RefuseMint(g)
  <2>1. live /\ ~Locked /\ fails' = FailsNow /\ mints' = Renewed /\ UNCHANGED missesAt
    BY <1>3 DEF RefuseMint, Entered, IsTheCode, history
  <2>2. LockFits(FailsNow, missesAt, now) /\ MintsFit(Renewed, mintsAt, now)
    BY <2>1, FailsNowFits, RenewedFits
  <2> QED BY <1>1, <2>1, <2>2 DEF GuessesInv, GuessesCounted, JoinsAreBounded
<1>4. CASE RefuseSeat(g)
  <2>1. live /\ fails' = NoCount /\ mints' = Renewed /\ missesAt' = Never
    BY <1>4 DEF RefuseSeat, Entered, IsTheCode
  <2>2. LockFits(fails', missesAt', now') /\ MintsFit(mints', mintsAt', now')
    BY <1>1, <2>1, FreshFits, RenewedFits
  <2>3. Recent(missesAt', LockTerm, now') /\ Recent(mintsAt', MintTerm, now')
    BY <1>1, <2>1, NothingIsRecent DEF GuessesInv
  <2> QED BY <1>1, <2>1, <2>2, <2>3, CountedFrom
<1> QED BY <1>2, <1>3, <1>4

LEMMA RegistrationsCount ==
  ASSUME GuessesInv, SeatsInv', RegisterNew \/ Restart \/ Resume \/ End
  PROVE  GuessesCounted'
<1>1. CASE RegisterNew \/ Restart
  <2>1. /\ fails' = NoCount /\ mints' = NoCount /\ missesAt' = Never /\ mintsAt' = Never
    BY <1>1 DEF RegisterNew, Registered, ForgetsMisses, ForgetsMints, Restart
  <2>2. LockFits(fails', missesAt', now') /\ MintsFit(mints', mintsAt', now')
    BY <2>1, FreshFits
  <2>3. Recent(missesAt', LockTerm, now') /\ Recent(mintsAt', MintTerm, now')
    BY <2>1, NothingIsRecent
  <2>4. Total(missesAt') <= 2 * LockThreshold - 1 /\ Total(mintsAt') <= 2 * MintCap
    BY <2>1, NothingEver, SeatLimits, SMT
  <2> QED BY <2>2, <2>3, <2>4, CountedFrom
<1>2. CASE Resume
  BY <1>2 DEF Resume, Registered, ForgetsMisses, ForgetsMints, GuessesInv, GuessesCounted, JoinsAreBounded
<1>3. CASE End
  BY <1>3 DEF End, history, GuessesInv, GuessesCounted, JoinsAreBounded
<1> QED BY <1>1, <1>2, <1>3

LEMMA GuessesStart ==
  ASSUME Init
  PROVE  GuessesInv
<1>1. SeatsInv
  BY SeatsStart
<1>2. fails = NoCount /\ mints = NoCount /\ missesAt = Never /\ mintsAt = Never
  BY DEF Init
<1>3. LockFits(fails, missesAt, now) /\ MintsFit(mints, mintsAt, now)
  BY <1>2, FreshFits
<1>4. Recent(missesAt, LockTerm, now) /\ Recent(mintsAt, MintTerm, now)
  BY <1>2, NothingIsRecent
<1>5. Total(missesAt) <= 2 * LockThreshold - 1 /\ Total(mintsAt) <= 2 * MintCap
  BY <1>2, NothingEver, SeatLimits, SMT
<1> QED BY <1>1, <1>3, <1>4, <1>5 DEF GuessesInv, JoinsAreBounded

LEMMA GuessesKept ==
  ASSUME GuessesInv, [Next]_vars
  PROVE  GuessesInv'
<1>1. SeatsInv'
  BY SeatsKept DEF GuessesInv
<1>2. GuessesCounted'
  <2>1. CASE UNCHANGED <<now, live, fails, mints, history>>
    BY <2>1 DEF history, GuessesInv, GuessesCounted, JoinsAreBounded
  <2>2. CASE UNCHANGED vars \/ \E t \in Tokens : Use(t) \/ Leave(t)
    BY <2>1, <2>2 DEF vars, counters, Use, Leave
  <2> QED BY <1>1, <2>2, TickCounts, MissCounts, JoinCounts, RefusalsCount, RegistrationsCount DEF Next
<1> QED BY <1>1, <1>2 DEF GuessesInv, GuessesCounted

\* With no miss in its history the lock is open, and with no mint the cap is not reached.
LEMMA GuessesSuffice ==
  ASSUME GuessesInv
  PROVE  GuessesAreBounded
<1>1. /\ now \in Nat /\ fails \in Count /\ mints \in Count
      /\ missesAt \in [Times -> Nat] /\ mintsAt \in [Times -> Nat]
  BY CountersAreFit
<1>2. /\ fails.count \in Nat /\ fails.start \in Times /\ fails.start \in Nat
      /\ mints.count \in Nat /\ mints.start \in Nat
      /\ LockThreshold \in Nat \ {0} /\ MintCap \in Nat \ {0} /\ MintTerm \in Nat
  BY <1>1, CountOf, SeatLimits
<1>3. ASSUME live, missesAt = Never, Locked PROVE FALSE
  <2>1. fails.count # 0 /\ now - fails.start < LockTerm
    BY <1>2, <1>3, SMT DEF Locked
  <2>2. missesAt[fails.start] > 0
    BY <1>3, <2>1 DEF GuessesInv, LockFits, MissesOf
  <2> QED BY <1>2, <1>3, <2>2, NothingEver
<1>4. ASSUME live, mintsAt = Never PROVE MintsNow.count < MintCap
  <2>1. CASE now - mints.start >= MintTerm
    <3>1. MintsNow.count = 0
      BY <2>1 DEF MintsNow
    <3> QED BY <1>2, <3>1
  <2>2. CASE ~(now - mints.start >= MintTerm)
    <3>1. MintsNow = mints /\ now - mints.start < MintTerm
      BY <1>1, <1>2, <2>2, SMT DEF MintsNow
    <3>2. mints.count = 0
      <4> SUFFICES ASSUME mints.count > 0 PROVE FALSE
        BY <1>2
      <4>1. mints # NoCount
        BY DEF NoCount
      <4>2. \E t \in Times : mintsAt[t] > 0
        BY <1>4, <3>1, <4>1 DEF GuessesInv, MintsFit, MintsOf
      <4> QED BY <1>4, <4>2, NothingEver
    <3> QED BY <1>2, <3>1, <3>2
  <2> QED BY <2>1, <2>2
<1>5. JoinsAreBounded
  BY DEF GuessesInv
<1> QED BY <1>3, <1>4, <1>5 DEF GuessesAreBounded, FreshCodeOpens

\* However often a share is resumed and whatever else is guessed at, within a lock's
\* term a code is tried wrongly at most as often as two windows that meet allow, tokens
\* are minted within a mint's term as often as two of those do, and a code that was
\* not missed, or of which none was minted, is not refused for what went before it.
THEOREM GuessesStayBounded == Spec => []GuessesAreBounded
<1>1. Init => GuessesInv
  BY GuessesStart
<1>2. GuessesInv /\ [Next]_vars => GuessesInv'
  BY GuessesKept
<1>3. GuessesInv => GuessesAreBounded
  BY GuessesSuffice
<1> QED BY <1>1, <1>2, <1>3, PTL DEF Spec
=============================================================================
