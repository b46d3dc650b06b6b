-------------------------- MODULE TrampolineProofs --------------------------
(***************************************************************************)
(* Proofs about Trampoline, for every address space, layout and pool its   *)
(* assumptions allow: the remembered stubs never overlap, no two           *)
(* trampolines share a block, call sites and saved previous targets keep   *)
(* leading to the functions they were given, and a block found below the   *)
(* code is within its reach.                                               *)
(*                                                                         *)
(* The argument follows the addresses that something leads to: each is on  *)
(* a page that stays taken, is behind all that its trampoline or the pool  *)
(* still hands out, and is in no block that a trampoline can give back.    *)
(***************************************************************************)
EXTENDS Trampoline, WellFoundedInduction, TLAPS

-----------------------------------------------------------------------------
\* The order of the naturals is well founded.
LessThan == {ss \in Nat \X Nat : ss[1] < ss[2]}

\* The library's fact, for the relation written as a set of pairs.
LEMMA LessThanWellFounded == IsWellFoundedOn(LessThan, Nat)
<1>1. LessThan = OpToRel(<, Nat)
  BY DEF OpToRel, LessThan
<1> QED BY <1>1, NatLessThanWellFounded

\* Min of a set of naturals is its least member.
LEMMA MinNat ==
  ASSUME NEW S \in SUBSET Nat, S # {}
  PROVE  Min(S) \in S /\ \A y \in S : Min(S) <= y
<1>1. PICK x \in S : \A y \in S : <<y, x>> \notin LessThan
  BY WFMin, LessThanWellFounded
<1>2. ASSUME NEW y \in S PROVE x <= y
  <2>1. x \in Nat /\ y \in Nat
    OBVIOUS
  <2>2. y < x => <<y, x>> \in LessThan
    BY <2>1 DEF LessThan
  <2>3. <<y, x>> \notin LessThan
    BY <1>1
  <2> QED BY <2>1, <2>2, <2>3
<1> QED BY <1>2 DEF Min

\* Remainders.
LEMMA Remainder ==
  ASSUME NEW a \in Nat, NEW m \in Nat \ {0}
  PROVE  /\ a % m \in 0..(m - 1)
         /\ a \div m \in Nat
         /\ a = m * (a \div m) + (a % m)
  OBVIOUS

\* Products with the page size.
LEMMA Times ==
  ASSUME NEW a \in Int, NEW b \in Int, NEW m \in Nat \ {0}
  PROVE  /\ a * m \in Int
         /\ a <= b => a * m <= b * m
         /\ a * m < b * m => a < b
         /\ (a + 1) * m = a * m + m
         /\ (m * a) \div m = a
  OBVIOUS

\* RoundUp gives the next multiple.
LEMMA RoundUpFacts ==
  ASSUME NEW a \in Nat, NEW m \in Nat \ {0}
  PROVE  /\ RoundUp(a, m) \in Nat
         /\ a <= RoundUp(a, m)
         /\ RoundUp(a, m) <= a + m - 1
         /\ \E k \in Nat : RoundUp(a, m) = m * k
<1> DEFINE b == a + m - 1
<1>1. b \in Nat
  OBVIOUS
<1>2. /\ b % m \in 0..(m - 1) /\ b \div m \in Nat
      /\ b = m * (b \div m) + (b % m)
  BY <1>1, Remainder
<1>3. RoundUp(a, m) = b - (b % m)
  BY DEF RoundUp, RoundDown
<1>4. m * (b \div m) \in Nat
  BY <1>2
<1>5. RoundUp(a, m) = m * (b \div m)
  BY <1>1, <1>2, <1>3, <1>4
<1> HIDE DEF b
<1>6. a <= b - (b % m) /\ b - (b % m) <= a + m - 1 
  BY <1>2 DEF b
<1> QED BY <1>2, <1>3, <1>4, <1>5, <1>6

-----------------------------------------------------------------------------
\* The sizes in terms of which addresses are counted.
LEMMA SpaceFacts ==
  /\ PageSize \in Nat \ {0} /\ Pages \in Nat \ {0} /\ Granularity \in Nat \ {0}
  /\ Reach \in Nat \ {0} /\ TextEnd \in Nat /\ PoolBase \in Nat /\ PoolSize \in Nat
  /\ AddressEnd \in Nat
  /\ TextEnd <= AddressEnd /\ Granularity <= Reach
  /\ PoolBase + PoolSize < AddressEnd /\ PoolBase + Reach >= TextEnd
<1>1. /\ PageSize \in Nat \ {0} /\ Pages \in Nat \ {0} /\ Granularity \in Nat \ {0}
      /\ Reach \in Nat \ {0} /\ TextEnd \in Nat /\ PoolBase \in Nat /\ PoolSize \in Nat
      /\ TextEnd <= AddressEnd /\ Granularity <= Reach
  BY TrampolineAssumption
<1>2. AddressEnd \in Nat
  BY <1>1 DEF AddressEnd
<1> QED BY <1>1, <1>2, PoolAssumption

\* Every address is on a page.
LEMMA PageExists ==
  ASSUME NEW a \in Nat, a < AddressEnd
  PROVE  PagesOf(a, 1) # {}
<1> DEFINE p == a \div PageSize
<1> USE SpaceFacts
<1>1. /\ a % PageSize \in 0..(PageSize - 1) /\ p \in Nat
      /\ a = PageSize * p + (a % PageSize)
  BY Remainder
<1>2. PageSize * p = p * PageSize /\ (p + 1) * PageSize = p * PageSize + PageSize
  BY <1>1, Times
<1> HIDE DEF p
<1>3. p * PageSize \in Nat /\ p * PageSize <= a /\ a < (p + 1) * PageSize
  BY <1>1, <1>2, Times
<1>4. p * PageSize < Pages * PageSize
  BY <1>3 DEF AddressEnd
<1>5. p < Pages
  BY <1>1, <1>4, Times
<1>6. p \in 0..(Pages - 1) /\ p * PageSize < a + 1 /\ (p + 1) * PageSize > a
  BY <1>1, <1>3, <1>5, Times
<1> QED BY <1>6 DEF PagesOf

\* The page of an address in a block is a page of the block.
LEMMA PageOfBlock ==
  ASSUME NEW b \in Nat, NEW t \in Nat, NEW a \in b..(b + t - 1)
  PROVE  PagesOf(a, 1) \subseteq PagesOf(b, t)
<1>1. SUFFICES ASSUME NEW p \in 0..(Pages - 1),
                      p * PageSize < a + 1, (p + 1) * PageSize > a
               PROVE  p * PageSize < b + t /\ (p + 1) * PageSize > b
  BY DEF PagesOf
<1>2. p * PageSize \in Int /\ (p + 1) * PageSize \in Int
  BY SpaceFacts
<1> QED BY <1>1, <1>2

\* Blocks without a common page have no common address.
LEMMA BlocksApart ==
  ASSUME NEW a \in Nat, NEW s \in Nat \ {0}, a + s <= AddressEnd,
         NEW b \in Nat, NEW t \in Nat \ {0}, b + t <= AddressEnd,
         PagesOf(a, s) \cap PagesOf(b, t) = {}
  PROVE  a + s <= b \/ b + t <= a
<1>1. SUFFICES ASSUME a + s > b, b + t > a PROVE FALSE
  BY SpaceFacts
<1>2. PICK c \in Nat : c \in a..(a + s - 1) /\ c \in b..(b + t - 1)
  <2>1. CASE a <= b
    <3>1. b \in a..(a + s - 1) /\ b \in b..(b + t - 1)
      BY <2>1, <1>1
    <3> QED BY <3>1
  <2>2. CASE b < a
    <3>1. a \in a..(a + s - 1) /\ a \in b..(b + t - 1)
      BY <2>2, <1>1
    <3> QED BY <3>1
  <2> QED BY <2>1, <2>2
<1>3. PagesOf(c, 1) \subseteq PagesOf(a, s)
  BY <1>2, PageOfBlock
<1>4. PagesOf(c, 1) \subseteq PagesOf(b, t)
  BY <1>2, PageOfBlock
<1>5. PagesOf(c, 1) # {}
  <2>1. c < AddressEnd
    BY <1>2, SpaceFacts
  <2> QED BY <2>1, PageExists
<1> QED BY <1>3, <1>4, <1>5

\* A region is of one state up to its end.
LEMMA RegionFacts ==
  ASSUME NEW p \in 0..(Pages - 1)
  PROVE  /\ RegionEnd(p) \in (p + 1)..Pages
         /\ p \notin taken => \A q \in p..(RegionEnd(p) - 1) : q \notin taken
<1> DEFINE S == {q \in (p + 1)..Pages : q = Pages \/ (q \in taken) # (p \in taken)}
<1>1. S \in SUBSET Nat /\ Pages \in S
  BY SpaceFacts
<1>2. RegionEnd(p) \in S /\ \A y \in S : RegionEnd(p) <= y
  <2>1. RegionEnd(p) = Min(S)
    BY DEF RegionEnd
  <2> HIDE DEF S
  <2> QED BY <1>1, <2>1, MinNat
<1>3. ASSUME p \notin taken, NEW q \in p..(RegionEnd(p) - 1) PROVE q \notin taken
  <2>1. RegionEnd(p) \in Nat /\ RegionEnd(p) <= Pages
    BY <1>2, SpaceFacts
  <2>2. SUFFICES ASSUME q \in taken PROVE FALSE
    OBVIOUS
  <2>3. q \in (p + 1)..Pages
    BY <2>1, <2>2, <1>3, SpaceFacts
  <2>4. q \in S
    BY <2>2, <2>3, <1>3
  <2>5. RegionEnd(p) <= q
    BY <1>2, <2>4
  <2> QED BY <2>1, <2>5, SpaceFacts
<1> QED BY <1>2, <1>3

\* The search starts on a page boundary not below the reach.
LEMMA SearchMinFacts ==
  /\ SearchMin \div PageSize \in 0..(Pages - 1)
  /\ (SearchMin \div PageSize) * PageSize = SearchMin
  /\ SearchMin \in Nat /\ TextEnd <= SearchMin + Reach
<1> USE SpaceFacts
<1>1. SearchMin \in Nat /\ TextEnd <= SearchMin + Reach /\ SearchMin < AddressEnd
  <2>1. CASE TextEnd >= Reach
    <3>1. TextEnd - Reach \in Nat
      BY <2>1
    <3>2. /\ SearchMin \in Nat /\ TextEnd - Reach <= SearchMin
          /\ SearchMin <= TextEnd - Reach + Granularity - 1
      BY <3>1, <2>1, RoundUpFacts DEF SearchMin
    <3> QED BY <3>2
  <2>2. CASE ~(TextEnd >= Reach)
    <3>1. SearchMin = 0
      BY <2>2 DEF SearchMin
    <3>2. AddressEnd > 0
      BY DEF AddressEnd
    <3> QED BY <3>1, <3>2, <2>2
  <2> QED BY <2>1, <2>2
<1>2. PICK k \in Nat : SearchMin = PageSize * k
  <2>1. CASE TextEnd >= Reach
    <3>1. PICK j \in Nat : SearchMin = Granularity * j
      <4>1. TextEnd - Reach \in Nat
        BY <2>1
      <4> QED BY <4>1, <2>1, RoundUpFacts DEF SearchMin
    <3>2. PICK i \in Nat : Granularity = PageSize * i
      <4>1. Granularity % PageSize = 0
        BY TrampolineAssumption
      <4>2. /\ Granularity \div PageSize \in Nat
            /\ Granularity = PageSize * (Granularity \div PageSize) + (Granularity % PageSize)
        BY Remainder
      <4>3. Granularity = PageSize * (Granularity \div PageSize)
        <5>1. PageSize * (Granularity \div PageSize) \in Nat
          BY <4>2
        <5> QED BY <5>1, <4>1, <4>2
      <4> QED BY <4>2, <4>3
    <3>3. Granularity * j = PageSize * (i * j) /\ i * j \in Nat
      BY <3>1, <3>2
    <3> QED BY <3>1, <3>3
  <2>2. CASE ~(TextEnd >= Reach)
    <3>1. SearchMin = PageSize * 0
      BY <2>2 DEF SearchMin
    <3> QED BY <3>1
  <2> QED BY <2>1, <2>2
<1>3. SearchMin \div PageSize = k /\ k * PageSize = SearchMin
  BY <1>2, Times
<1>4. k * PageSize < Pages * PageSize
  BY <1>1, <1>3 DEF AddressEnd
<1>5. k < Pages
  BY <1>4, Times
<1> QED BY <1>1, <1>2, <1>3, <1>5

\* do_create tries free blocks of the address space only, none below the reach.
LEMMA CandidateFacts ==
  ASSUME NEW size \in Nat \ {0}, NEW at \in Candidates(size)
  PROVE  /\ at \in Nat /\ at + size <= AddressEnd
         /\ PagesOf(at, size) \cap taken = {}
         /\ TextEnd <= at + Reach
<1> USE SpaceFacts
<1>1. PICK p \in Queried \ taken :
        /\ at = RoundUp(p * PageSize, Granularity)
        /\ at + size <= RegionEnd(p) * PageSize
  BY DEF Candidates
<1>2. /\ p \in 0..(Pages - 1)
      /\ SearchMin \div PageSize <= p
  <2>1. p = SearchMin \div PageSize \/ p \in ((SearchMin \div PageSize) + 1)..(Pages - 1)
    BY <1>1 DEF Queried
  <2> QED BY <2>1, SearchMinFacts
<1>3. p * PageSize \in Nat /\ SearchMin <= p * PageSize
  BY <1>2, SearchMinFacts, Times
<1>4. at \in Nat /\ p * PageSize <= at
  BY <1>1, <1>3, RoundUpFacts
<1>5. /\ RegionEnd(p) \in (p + 1)..Pages
      /\ \A q \in p..(RegionEnd(p) - 1) : q \notin taken
  BY <1>1, <1>2, RegionFacts
<1>6. RegionEnd(p) * PageSize \in Nat /\ RegionEnd(p) * PageSize <= AddressEnd
  BY <1>2, <1>5, Times DEF AddressEnd
<1>7. ASSUME NEW q \in PagesOf(at, size) PROVE q \notin taken
  <2>1. /\ q \in 0..(Pages - 1)
        /\ q * PageSize < at + size /\ (q + 1) * PageSize > at
    BY DEF PagesOf
  <2>2. /\ q * PageSize < RegionEnd(p) * PageSize
        /\ p * PageSize < (q + 1) * PageSize
    <3>1. q * PageSize \in Int /\ (q + 1) * PageSize \in Int
      BY <2>1
    <3> QED BY <3>1, <2>1, <1>1, <1>3, <1>4, <1>6
  <2>3. q < RegionEnd(p) /\ p < q + 1
    BY <2>1, <2>2, <1>2, <1>5, Times
  <2> QED BY <1>5, <2>3, <2>1, <1>2
<1> QED BY <1>1, <1>3, <1>4, <1>6, <1>7, SearchMinFacts

-----------------------------------------------------------------------------
\* The inductive invariant.

PoolPages == PagesOf(PoolBase, PoolSize + 1)

TrampolineRecord == [data : Address, capacity : Nat, size : Nat, owned : BOOLEAN,
                branches : [{5, 6} -> [Targets -> Address]]]

Types ==
    /\ taken \in SUBSET (0..(Pages - 1))
    /\ poolUsed \in 0..PoolSize
    /\ tramp \in [Trampolines -> TrampolineRecord]
    /\ \A a \in DOMAIN stub : a \in 0..(AddressEnd - 1) /\ stub[a] \in [n : {5, 6}, dst : Targets]
    /\ site \in [Sites -> {Unpatched} \cup
                    [n : {5, 6}, to : 0..(AddressEnd - 1), dst : Targets]]
    /\ \A src \in Sites : site[src] # Unpatched => site[src].n = LengthAt[src]
    /\ saved \in SUBSET [func : 0..(AddressEnd - 1), dst : Targets]
    /\ writing \in {NotWriting} \cup
                    [n : {5, 6}, at : 0..(AddressEnd - 1), dst : Targets]

\* A block, if there is one: an owned one is made of taken pages that are not
\* the pool's, another one is a piece of the pool.
BlockSound(g) ==
    /\ tramp[g].data = NoMem => tramp[g] = Empty
    /\ tramp[g].data # NoMem =>
        /\ tramp[g].data + tramp[g].capacity <= AddressEnd
        /\ tramp[g].size <= tramp[g].capacity
        /\ TextEnd <= tramp[g].data + Reach
    /\ tramp[g].data # NoMem /\ tramp[g].owned =>
        /\ tramp[g].capacity # 0
        /\ OwnedPages(g) \subseteq taken
        /\ OwnedPages(g) \cap PoolPages = {}
    /\ tramp[g].data # NoMem /\ ~tramp[g].owned =>
        /\ PoolBase <= tramp[g].data
        /\ tramp[g].data + tramp[g].capacity <= PoolBase + poolUsed

\* Two trampolines have no page and no address in common.
Apart(g, h) ==
    /\ OwnedPages(g) \cap OwnedPages(h) = {}
    /\ tramp[g].data # NoMem /\ tramp[h].data # NoMem =>
           \/ tramp[g].data + tramp[g].capacity <= tramp[h].data
           \/ tramp[h].data + tramp[h].capacity <= tramp[g].data

\* The remembered stubs lie one after another in the allocated part.
KnownApart(g) ==
    \A n, m \in {5, 6}, d, e \in Targets :
        CachedStub(g, n, d) # NoMem =>
            /\ tramp[g].data # NoMem
            /\ tramp[g].data <= CachedStub(g, n, d)
            /\ CachedStub(g, n, d) + StubSize(n) <= tramp[g].data + tramp[g].size
            /\ (n # m \/ d # e) /\ CachedStub(g, m, e) # NoMem =>
                   \/ CachedStub(g, n, d) + StubSize(n) <= CachedStub(g, m, e)
                   \/ CachedStub(g, m, e) + StubSize(m) <= CachedStub(g, n, d)

\* Something leads to the stub at a, as to a branch of length n to d: a call
\* site, a saved previous target, or a trampoline's memory of its stubs.
Used(n, a, d) ==
    \/ \E src \in Sites : site[src] = [n |-> n, to |-> a, dst |-> d]
    \/ n = 5 /\ [func |-> a, dst |-> d] \in saved

Known(n, a, d) == \E g \in Trampolines : CachedStub(g, n, d) = a

\* Address a stays what it is: its page is taken, by the trampoline whose
\* block it is in if any, and it is behind all that is still to be handed out.
Kept(a) ==
    /\ PagesOf(a, 1) \subseteq taken
    /\ a < PoolBase + poolUsed \/ a >= PoolBase + PoolSize
    /\ \A g \in Trampolines : tramp[g].data # NoMem =>
        /\ PagesOf(a, 1) \cap OwnedPages(g) # {} => Within(a, g)
        /\ Within(a, g) => a < tramp[g].data + tramp[g].size

UsesKept == \A n \in {5, 6}, a \in 0..(AddressEnd - 1), d \in Targets :
    Used(n, a, d) => Kept(a)

\* A use leads where it should, or is the one being written.
UsesLead == \A n \in {5, 6}, a \in 0..(AddressEnd - 1), d \in Targets :
    Used(n, a, d) => Leads(a, n, d) \/ writing = [n |-> n, at |-> a, dst |-> d]

KnownLead == failure = NoFailure =>
    \A n \in {5, 6}, a \in 0..(AddressEnd - 1), d \in Targets :
        Known(n, a, d) => Leads(a, n, d) \/ writing = [n |-> n, at |-> a, dst |-> d]

\* No two readings of the stub that is being written.
WritingSound == writing # NotWriting =>
    /\ failure = NoFailure
    /\ \A n \in {5, 6}, d \in Targets :
        Used(n, writing.at, d) \/ Known(n, writing.at, d) =>
            writing.n = n /\ writing.dst = d

IInv ==
    /\ Types
    /\ PoolPages \subseteq taken
    /\ \A g \in Trampolines : BlockSound(g) /\ KnownApart(g)
    /\ \A g, h \in Trampolines : g # h => Apart(g, h)
    /\ UsesKept
    /\ UsesLead /\ KnownLead /\ WritingSound
    /\ ChainsReachTargets
    /\ ReachDownward

-----------------------------------------------------------------------------
\* What the types say of one trampoline.
LEMMA TrampolineFacts ==
  ASSUME Types, NEW g \in Trampolines
  PROVE  /\ tramp[g] \in TrampolineRecord
         /\ tramp[g].data \in Address /\ (tramp[g].data # NoMem => tramp[g].data \in Nat)
         /\ tramp[g].capacity \in Nat /\ tramp[g].size \in Nat
         /\ tramp[g].owned \in BOOLEAN
         /\ \A n \in {5, 6}, d \in Targets :
                /\ CachedStub(g, n, d) \in Address
                /\ CachedStub(g, n, d) # NoMem =>
                       CachedStub(g, n, d) \in 0..(AddressEnd - 1)
<1>1. tramp[g] \in TrampolineRecord
  BY DEF Types
<1>2. /\ tramp[g].data \in Address
      /\ tramp[g].capacity \in Nat /\ tramp[g].size \in Nat /\ tramp[g].owned \in BOOLEAN
      /\ tramp[g].branches \in [{5, 6} -> [Targets -> Address]]
  BY <1>1 DEF TrampolineRecord
<1>3. \A a \in Address : a # NoMem => a \in 0..(AddressEnd - 1) /\ a \in Nat
  BY SpaceFacts DEF Address
<1>4. \A n \in {5, 6}, d \in Targets : CachedStub(g, n, d) \in Address
  BY <1>2 DEF CachedStub
<1> QED BY <1>1, <1>2, <1>3, <1>4

\* A trampoline without a block.
LEMMA EmptyFacts ==
  /\ Empty \in TrampolineRecord /\ Empty.data = NoMem /\ Empty.capacity = 0 /\ Empty.size = 0
  /\ Empty.owned = FALSE
  /\ \A n \in {5, 6}, d \in Targets : Empty.branches[n][d] = NoMem
BY DEF Empty, TrampolineRecord, Address

\* Only a trampoline with a block of its own has pages to give back.
LEMMA OwnedFacts ==
  ASSUME IInv, NEW g \in Trampolines, OwnedPages(g) # {}
  PROVE  tramp[g].owned /\ tramp[g].data # NoMem
<1>1. tramp[g].owned
  BY DEF OwnedPages
<1> QED BY <1>1, EmptyFacts DEF IInv, BlockSound

\* The initial states.
LEMMA InitIInv ==
  ASSUME Init PROVE IInv
<1> USE SpaceFacts, EmptyFacts DEF Init
<1>1. taken \in SUBSET (0..(Pages - 1)) /\ PoolPages \subseteq taken
  BY TrampolineAssumption, PoolAssumption DEF PoolPages
<1>2. Types
  <2>1. tramp \in [Trampolines -> TrampolineRecord]
    OBVIOUS
  <2>2. DOMAIN stub = {}
    OBVIOUS
  <2> QED BY <1>1, <2>1, <2>2 DEF Types
<1>3. \A g \in Trampolines : BlockSound(g) /\ KnownApart(g)
  BY DEF BlockSound, KnownApart, CachedStub
<1>4. \A g, h \in Trampolines : Apart(g, h)
  BY DEF Apart, OwnedPages
<1>5. ASSUME NEW n \in {5, 6}, NEW a \in 0..(AddressEnd - 1), NEW d \in Targets
      PROVE  ~Used(n, a, d) /\ ~Known(n, a, d)
  <2>1. ~Used(n, a, d)
    BY DEF Used, Unpatched
  <2>2. ~Known(n, a, d)
    BY TrampolineAssumption DEF Known, CachedStub
  <2> QED BY <2>1, <2>2
<1>6. UsesKept /\ UsesLead /\ KnownLead /\ WritingSound
  BY <1>5 DEF UsesKept, UsesLead, KnownLead, WritingSound
<1>7. ChainsReachTargets /\ ReachDownward
  BY DEF ChainsReachTargets, ReachDownward, NoFailure
<1> QED BY <1>1, <1>2, <1>3, <1>4, <1>6, <1>7 DEF IInv

\* report_and_fail, other than for a displacement.
LEMMA FailIInv ==
  ASSUME IInv, Running, NEW why \in {"memory", "create"}, failure' = [why |-> why, at |-> NoMem],
         UNCHANGED <<trampVars, stub, site, saved, writing>>
  PROVE  IInv'
<1> USE DEF trampVars
<1>1. Types' /\ PoolPages \subseteq taken'
  BY DEF IInv, Types
<1>2. \A g \in Trampolines : BlockSound(g)' /\ KnownApart(g)'
  BY DEF IInv, BlockSound, KnownApart, OwnedPages, CachedStub
<1>3. \A g, h \in Trampolines : g # h => Apart(g, h)'
  BY DEF IInv, Apart, OwnedPages
<1>4. UsesKept'
  BY DEF IInv, UsesKept, Used, Kept, OwnedPages, Within
<1>5. UsesLead'
  BY DEF IInv, UsesLead, Used, Leads
<1>6. KnownLead' /\ WritingSound' /\ ReachDownward'
  BY DEF KnownLead, WritingSound, Running, ReachDownward, NoFailure
<1>7. ChainsReachTargets'
  BY DEF IInv, ChainsReachTargets, Leads
<1> QED BY <1>1, <1>2, <1>3, <1>4, <1>5, <1>6, <1>7 DEF IInv, PoolPages

\* A step that changes nothing.
LEMMA StutterIInv ==
  ASSUME IInv, UNCHANGED vars
  PROVE  IInv'
<1> USE DEF vars, trampVars
<1>1. Types' /\ PoolPages \subseteq taken'
  BY DEF IInv, Types
<1>2. \A g \in Trampolines : BlockSound(g)' /\ KnownApart(g)'
  BY DEF IInv, BlockSound, KnownApart, OwnedPages, CachedStub
<1>3. \A g, h \in Trampolines : g # h => Apart(g, h)'
  BY DEF IInv, Apart, OwnedPages
<1>4. UsesKept'
  BY DEF IInv, UsesKept, Used, Kept, OwnedPages, Within
<1>5. UsesLead' /\ KnownLead'
  BY DEF IInv, UsesLead, KnownLead, Used, Known, CachedStub, Leads
<1>6. WritingSound' /\ ReachDownward'
  BY DEF IInv, WritingSound, Used, Known, CachedStub, ReachDownward
<1>7. ChainsReachTargets'
  BY DEF IInv, ChainsReachTargets, Leads
<1> QED BY <1>1, <1>2, <1>3, <1>4, <1>5, <1>6, <1>7 DEF IInv, PoolPages

-----------------------------------------------------------------------------
\* Every use and every remembered stub leads where it should when nothing is
\* being written.
LEMMA RunningLeads ==
  ASSUME IInv, Running, NEW n \in {5, 6}, NEW a \in 0..(AddressEnd - 1), NEW d \in Targets,
         Used(n, a, d) \/ Known(n, a, d)
  PROVE  Leads(a, n, d)
<1>1. writing # [n |-> n, at |-> a, dst |-> d]
  BY DEF Running, NotWriting
<1> QED BY <1>1 DEF IInv, UsesLead, KnownLead, Running

\* The members b that set_trampoline, or release, gives trampoline g, in place
\* of the block it had: what every trampoline and everything that leads to a
\* stub relies on remains.
LEMMA ReplaceIInv ==
  ASSUME IInv, Running, NEW g \in Trampolines, Releasable(g),
         NEW b \in TrampolineRecord,
         b.size = 0, \A n \in {5, 6}, d \in Targets : b.branches[n][d] = NoMem,
         tramp' = [tramp EXCEPT ![g] = b],
         taken' = (taken \ OwnedPages(g)) \cup OwnedPages(g)',
         poolUsed' \in poolUsed..PoolSize,
         \A a \in DOMAIN stub' : a \in DOMAIN stub /\ stub'[a] = stub[a],
         \A a \in DOMAIN stub \ DOMAIN stub' :
            \/ tramp[g].owned /\ Within(a, g)
            \/ b.data # NoMem /\ b.data <= a /\ a < b.data + b.capacity,
         UNCHANGED <<site, saved, writing, failure>>,
         b.data = NoMem => b = Empty,
         b.data # NoMem => b.data + b.capacity <= AddressEnd /\ TextEnd <= b.data + Reach,
         b.data # NoMem /\ b.owned =>
            b.capacity # 0 /\ PagesOf(b.data, b.capacity) \cap taken = {},
         b.data # NoMem /\ ~b.owned =>
            b.data = PoolBase + poolUsed /\ poolUsed' = poolUsed + b.capacity
  PROVE  IInv'
<1> USE SpaceFacts
<1>1. /\ tramp'[g] = b
      /\ \A h \in Trampolines : h # g => tramp'[h] = tramp[h]
      /\ Types /\ poolUsed \in Nat /\ poolUsed' \in Nat
      /\ b.data \in Address /\ (b.data # NoMem => b.data \in Nat)
      /\ b.capacity \in Nat
  <2>1. Types
    BY DEF IInv
  <2>2. b.data \in Address /\ b.capacity \in Nat
    BY DEF TrampolineRecord
  <2>3. poolUsed \in Nat /\ tramp \in [Trampolines -> TrampolineRecord]
    BY <2>1 DEF Types
  <2> QED BY <2>1, <2>2, <2>3 DEF Address
<1>2. /\ \A h \in Trampolines : h # g => OwnedPages(h)' = OwnedPages(h)
      /\ OwnedPages(g)' = IF b.owned THEN PagesOf(b.data, b.capacity) ELSE {}
  BY <1>1 DEF OwnedPages
<1>3. /\ OwnedPages(g)' \cap taken = {}
      /\ OwnedPages(g)' \subseteq 0..(Pages - 1)
  <2>1. b.owned => b.data # NoMem
    BY EmptyFacts
  <2>2. OwnedPages(g)' \subseteq 0..(Pages - 1)
    BY <1>2 DEF PagesOf
  <2> QED BY <1>2, <2>1, <2>2
<1>4. Types'
  <2>1. tramp' \in [Trampolines -> TrampolineRecord]
    BY <1>1 DEF Types
  <2>2. taken' \in SUBSET (0..(Pages - 1))
    BY <1>1, <1>3 DEF Types
  <2>3. poolUsed' \in 0..PoolSize
    BY <1>1
  <2>4. \A a \in DOMAIN stub' :
          a \in 0..(AddressEnd - 1) /\ stub'[a] \in [n : {5, 6}, dst : Targets]
    BY <1>1 DEF Types
  <2> QED BY <1>1, <2>1, <2>2, <2>3, <2>4 DEF Types
<1>5. /\ OwnedPages(g) \cap PoolPages = {}
      /\ \A h \in Trampolines : h # g => OwnedPages(g) \cap OwnedPages(h) = {}
  <2>1. OwnedPages(g) # {} => OwnedPages(g) \cap PoolPages = {}
    BY OwnedFacts DEF IInv, BlockSound
  <2> QED BY <2>1 DEF IInv, Apart
<1>6. PoolPages \subseteq taken'
  BY <1>5 DEF IInv
<1>7. ASSUME NEW h \in Trampolines PROVE BlockSound(h)'
  <2>1. CASE h = g
    <3>1. OwnedPages(g)' \cap PoolPages = {} /\ OwnedPages(g)' \subseteq taken'
      BY <1>3 DEF IInv
    <3> QED BY <2>1, <3>1, <1>1 DEF BlockSound, PoolPages
  <2>2. CASE h # g
    <3>1. tramp'[h] = tramp[h] /\ OwnedPages(h)' = OwnedPages(h) /\ BlockSound(h)
      BY <2>2, <1>1, <1>2 DEF IInv
    <3>2. OwnedPages(h) \subseteq taken => OwnedPages(h) \subseteq taken'
      BY <2>2, <1>5
    <3>3. tramp[h].data # NoMem => tramp[h].data \in Nat /\ tramp[h].capacity \in Nat
      BY <1>1, TrampolineFacts
    <3> QED BY <3>1, <3>2, <3>3, <1>1 DEF BlockSound, PoolPages
  <2> QED BY <2>1, <2>2
<1>8. ASSUME NEW h \in Trampolines, h # g, b.data # NoMem, tramp[h].data # NoMem
      PROVE  \/ b.data + b.capacity <= tramp[h].data
             \/ tramp[h].data + tramp[h].capacity <= b.data
  <2>1. tramp[h].data \in Nat /\ tramp[h].capacity \in Nat /\ BlockSound(h)
    BY <1>1, <1>8, TrampolineFacts DEF IInv
  <2>2. PoolPages \subseteq taken /\ PoolBase + (PoolSize + 1) <= AddressEnd
    BY DEF IInv
  <2>3. CASE b.owned /\ tramp[h].owned
    <3>1. PagesOf(tramp[h].data, tramp[h].capacity) \subseteq taken /\ tramp[h].capacity # 0
          /\ tramp[h].data + tramp[h].capacity <= AddressEnd
      BY <2>1, <2>3, <1>8 DEF BlockSound, OwnedPages
    <3>2. PagesOf(b.data, b.capacity) \cap PagesOf(tramp[h].data, tramp[h].capacity) = {}
      BY <3>1, <2>3, <1>8
    <3> QED BY <3>1, <3>2, <2>1, <1>1, <1>8, <2>3, BlocksApart
  <2>4. CASE b.owned /\ ~tramp[h].owned
    <3>1. PagesOf(b.data, b.capacity) \cap PagesOf(PoolBase, PoolSize + 1) = {}
      BY <2>2, <2>4, <1>8 DEF PoolPages
    <3>2. b.data + b.capacity <= PoolBase \/ PoolBase + (PoolSize + 1) <= b.data
      BY <3>1, <2>2, <1>1, <1>8, <2>4, BlocksApart
    <3>3. /\ PoolBase <= tramp[h].data
          /\ tramp[h].data + tramp[h].capacity <= PoolBase + PoolSize
      BY <2>1, <2>4, <1>8, <1>1 DEF BlockSound
    <3> QED BY <3>2, <3>3, <2>1, <1>1, <1>8
  <2>5. CASE ~b.owned /\ tramp[h].owned
    <3>1. /\ PagesOf(tramp[h].data, tramp[h].capacity) \cap PagesOf(PoolBase, PoolSize + 1) = {}
          /\ tramp[h].capacity # 0 /\ tramp[h].data + tramp[h].capacity <= AddressEnd
      BY <2>1, <2>5, <1>8 DEF BlockSound, OwnedPages, PoolPages
    <3>2. \/ tramp[h].data + tramp[h].capacity <= PoolBase
          \/ PoolBase + (PoolSize + 1) <= tramp[h].data
      <4>1. PoolSize + 1 \in Nat \ {0} /\ tramp[h].capacity \in Nat \ {0}
        BY <3>1, <2>1
      <4> QED BY <4>1, <3>1, <2>1, <2>2, BlocksApart
    <3>3. PoolBase <= b.data /\ b.data + b.capacity <= PoolBase + PoolSize
      BY <2>5, <1>8, <1>1
    <3> QED BY <3>2, <3>3, <2>1, <1>1, <1>8
  <2>6. CASE ~b.owned /\ ~tramp[h].owned
    <3>1. tramp[h].data + tramp[h].capacity <= PoolBase + poolUsed
      BY <2>1, <2>6, <1>8 DEF BlockSound
    <3> QED BY <3>1, <2>6, <1>8
  <2> QED BY <2>3, <2>4, <2>5, <2>6
<1>9. ASSUME NEW h \in Trampolines, NEW k \in Trampolines, h # k PROVE Apart(h, k)'
  <2>1. ASSUME NEW l \in Trampolines, l # g PROVE Apart(g, l)' /\ Apart(l, g)'
    <3>1. OwnedPages(l) \subseteq taken
      BY OwnedFacts DEF IInv, BlockSound
    <3> QED BY <3>1, <2>1, <1>1, <1>2, <1>3, <1>8 DEF Apart
  <2>2. CASE h # g /\ k # g
    <3>1. Apart(h, k)
      BY <1>9 DEF IInv
    <3> QED BY <3>1, <2>2, <1>1, <1>2 DEF Apart
  <2> QED BY <2>1, <2>2, <1>9
<1>10. ASSUME NEW h \in Trampolines PROVE KnownApart(h)'
  <2>1. CASE h = g
    BY <2>1, <1>1 DEF KnownApart, CachedStub
  <2>2. CASE h # g
    <3>1. KnownApart(h) /\ tramp'[h] = tramp[h]
      BY <2>2, <1>1 DEF IInv
    <3> QED BY <3>1 DEF KnownApart, CachedStub
  <2> QED BY <2>1, <2>2
<1>11. /\ \A n, a, d : Used(n, a, d)' <=> Used(n, a, d)
       /\ \A n \in {5, 6}, a \in 0..(AddressEnd - 1), d \in Targets : Known(n, a, d)' =>
            \E h \in Trampolines : h # g /\ CachedStub(h, n, d) = a
  <2>1. \A n, a, d : Used(n, a, d)' <=> Used(n, a, d)
    BY DEF Used
  <2>2. ASSUME NEW n \in {5, 6}, NEW a \in 0..(AddressEnd - 1), NEW d \in Targets, Known(n, a, d)'
        PROVE  \E h \in Trampolines : h # g /\ CachedStub(h, n, d) = a
    <3>1. PICK h \in Trampolines : tramp'[h].branches[n][d] = a
      BY <2>2 DEF Known, CachedStub
    <3>2. h # g
      BY <3>1, <1>1, TrampolineAssumption
    <3> QED BY <3>1, <3>2, <1>1 DEF CachedStub
  <2> QED BY <2>1, <2>2
\* Nothing that still leads to a stub leads into the old block or the new one.
<1>12. ASSUME NEW n \in {5, 6}, NEW a \in 0..(AddressEnd - 1), NEW d \in Targets, Used(n, a, d)
       PROVE  /\ Kept(a)
              /\ tramp[g].owned => ~Within(a, g)
              /\ b.data # NoMem => ~(b.data <= a /\ a < b.data + b.capacity)
  <2>1. Kept(a)
    BY <1>12 DEF IInv, UsesKept
  <2>2. tramp[g].owned => ~Within(a, g)
    <3>1. CASE \E src \in Sites : site[src] = [n |-> n, to |-> a, dst |-> d]
      BY <3>1 DEF Releasable
    <3>2. CASE n = 5 /\ [func |-> a, dst |-> d] \in saved
      BY <3>2 DEF Releasable
    <3> QED BY <3>1, <3>2, <1>12 DEF Used
  <2>3. ASSUME b.data # NoMem, b.data <= a /\ a < b.data + b.capacity PROVE FALSE
    <3>1. CASE b.owned
      <4>1. PagesOf(a, 1) # {}
        BY PageExists
      <4>2. PagesOf(a, 1) \subseteq PagesOf(b.data, b.capacity)
        <5>1. a \in b.data..(b.data + b.capacity - 1)
          BY <2>3, <1>1
        <5> QED BY <5>1, <2>3, <1>1, PageOfBlock
      <4>3. PagesOf(a, 1) \subseteq taken
        BY <2>1 DEF Kept
      <4> QED BY <4>1, <4>2, <4>3, <3>1, <2>3
    <3>2. CASE ~b.owned
      BY <3>2, <2>1, <2>3, <1>1 DEF Kept
    <3> QED BY <3>1, <3>2
  <2> QED BY <2>1, <2>2, <2>3
<1>13. ASSUME NEW n \in {5, 6}, NEW a \in 0..(AddressEnd - 1), NEW d \in Targets,
              NEW h \in Trampolines, h # g, CachedStub(h, n, d) = a
       PROVE  /\ tramp[g].owned => ~Within(a, g)
              /\ b.data # NoMem => ~(b.data <= a /\ a < b.data + b.capacity)
  <2>1. /\ tramp[h].data # NoMem /\ tramp[h].data \in Nat /\ tramp[h].capacity \in Nat
        /\ tramp[h].data <= a /\ a < tramp[h].data + tramp[h].capacity
    <3>1. a # NoMem /\ tramp[h].size \in Nat /\ KnownApart(h) /\ BlockSound(h)
      BY <1>1, TrampolineFacts, TrampolineAssumption DEF IInv
    <3>2. /\ tramp[h].data # NoMem /\ tramp[h].data <= a
          /\ a + StubSize(n) <= tramp[h].data + tramp[h].size
      BY <3>1, <1>13 DEF KnownApart
    <3>3. tramp[h].size <= tramp[h].capacity
      BY <3>1, <3>2 DEF BlockSound
    <3>4. StubSize(n) \in Nat \ {0}
      BY DEF StubSize
    <3>5. tramp[h].data \in Nat /\ tramp[h].capacity \in Nat
      BY <3>2, <1>1, TrampolineFacts
    <3> QED BY <3>1, <3>2, <3>3, <3>4, <3>5
  <2>2. b.data # NoMem => ~(b.data <= a /\ a < b.data + b.capacity)
    BY <2>1, <1>1, <1>8, <1>13
  <2>3. tramp[g].owned => ~Within(a, g)
    <3>1. tramp[g].owned => tramp[g].data # NoMem
      BY EmptyFacts DEF IInv, BlockSound
    <3>2. Apart(g, h)
      BY <1>13 DEF IInv
    <3>3. tramp[g].data # NoMem => tramp[g].data \in Nat /\ tramp[g].capacity \in Nat
      BY <1>1, TrampolineFacts
    <3> QED BY <2>1, <3>1, <3>2, <3>3 DEF Apart, Within
  <2> QED BY <2>2, <2>3
<1>14. ASSUME NEW n \in {5, 6}, NEW a \in 0..(AddressEnd - 1), NEW d \in Targets,
              Used(n, a, d) \/ Known(n, a, d)'
       PROVE  Leads(a, n, d)'
  <2>1. /\ Leads(a, n, d)
        /\ tramp[g].owned => ~Within(a, g)
        /\ b.data # NoMem => ~(b.data <= a /\ a < b.data + b.capacity)
    <3>1. CASE Used(n, a, d)
      BY <3>1, <1>12, RunningLeads
    <3>2. CASE Known(n, a, d)'
      <4>1. PICK h \in Trampolines : h # g /\ CachedStub(h, n, d) = a
        BY <3>2, <1>11
      <4>2. Leads(a, n, d)
        BY <4>1, RunningLeads DEF Known
      <4> QED BY <4>1, <4>2, <1>13
    <3> QED BY <3>1, <3>2, <1>14
  <2>2. a \in DOMAIN stub'
    BY <2>1 DEF Leads
  <2> QED BY <2>1, <2>2 DEF Leads
<1>15. ASSUME NEW n \in {5, 6}, NEW a \in 0..(AddressEnd - 1), NEW d \in Targets, Used(n, a, d)
       PROVE  Kept(a)'
  <2>1. /\ Kept(a) /\ PagesOf(a, 1) \subseteq taken
        /\ tramp[g].owned => ~Within(a, g)
        /\ b.data # NoMem => ~(b.data <= a /\ a < b.data + b.capacity)
    BY <1>12, <1>15 DEF Kept
  <2>2. PagesOf(a, 1) \subseteq taken'
    <3>1. PagesOf(a, 1) \cap OwnedPages(g) = {}
      BY <2>1, OwnedFacts DEF Kept
    <3> QED BY <3>1, <2>1
  <2>3. a < PoolBase + poolUsed' \/ a >= PoolBase + PoolSize
    <3>1. a < PoolBase + poolUsed \/ a >= PoolBase + PoolSize
      BY <2>1 DEF Kept
    <3>2. poolUsed <= poolUsed'
      BY <1>1
    <3> QED BY <3>1, <3>2, <1>1
  <2>4. ASSUME NEW h \in Trampolines, tramp'[h].data # NoMem
        PROVE  /\ PagesOf(a, 1) \cap OwnedPages(h)' # {} => Within(a, h)'
               /\ Within(a, h)' => a < tramp'[h].data + tramp'[h].size
    <3>1. CASE h = g
      <4>1. PagesOf(a, 1) \cap OwnedPages(g)' = {}
        BY <2>1, <1>3
      <4>2. ~Within(a, g)'
        BY <2>1, <2>4, <3>1, <1>1 DEF Within
      <4> QED BY <3>1, <4>1, <4>2
    <3>2. CASE h # g
      <4>1. tramp'[h] = tramp[h] /\ OwnedPages(h)' = OwnedPages(h)
        BY <3>2, <1>1, <1>2
      <4> QED BY <4>1, <2>1, <2>4 DEF Kept, Within
    <3> QED BY <3>1, <3>2
  <2> QED BY <2>2, <2>3, <2>4 DEF Kept
<1>16. UsesKept' /\ UsesLead' /\ KnownLead'
  BY <1>11, <1>14, <1>15 DEF UsesKept, UsesLead, KnownLead
<1>17. WritingSound' /\ ReachDownward'
  BY DEF IInv, WritingSound, Running, ReachDownward
<1>18. ChainsReachTargets'
  <2>1. ASSUME NEW hook \in saved PROVE Leads(hook.func, 5, hook.dst)'
    <3>1. /\ hook = [func |-> hook.func, dst |-> hook.dst]
          /\ hook.func \in 0..(AddressEnd - 1) /\ hook.dst \in Targets
      BY <1>1 DEF Types
    <3>2. Used(5, hook.func, hook.dst)
      BY <3>1 DEF Used
    <3> QED BY <3>1, <3>2, <1>14
  <2> QED BY <2>1 DEF ChainsReachTargets
<1> QED BY <1>4, <1>6, <1>7, <1>9, <1>10, <1>16, <1>17, <1>18 DEF IInv, PoolPages

-----------------------------------------------------------------------------
\* set_trampoline, given a block that is free, or the next piece of the pool.
LEMMA SetTrampolineIInv ==
  ASSUME IInv, Running, NEW g \in Trampolines, Releasable(g),
         NEW at \in 0..(AddressEnd - 1), NEW size \in Nat, NEW owned \in BOOLEAN,
         SetTrampoline(g, at, size, owned),
         UNCHANGED <<site, saved, writing, failure>>,
         at + size <= AddressEnd, TextEnd <= at + Reach,
         poolUsed' \in poolUsed..PoolSize,
         owned => size # 0 /\ PagesOf(at, size) \cap taken = {},
         ~owned => at = PoolBase + poolUsed /\ poolUsed' = poolUsed + size
  PROVE  IInv'
<1> DEFINE b == [Empty EXCEPT !.data = at, !.capacity = size, !.owned = owned]
<1>1. at # NoMem /\ at \in Address
  BY SpaceFacts, TrampolineAssumption DEF Address
<1>2. /\ b \in TrampolineRecord /\ b.data = at /\ b.capacity = size /\ b.owned = owned
      /\ b.size = 0 /\ \A n \in {5, 6}, d \in Targets : b.branches[n][d] = NoMem
  BY <1>1 DEF Empty, TrampolineRecord, Address
<1>3. tramp' = [tramp EXCEPT ![g] = b]
  BY DEF SetTrampoline
<1>4. OwnedPages(g)' = IF owned THEN PagesOf(at, size) ELSE {}
  <2>1. tramp'[g] = b
    BY <1>3 DEF IInv, Types
  <2> QED BY <2>1, <1>2 DEF OwnedPages
<1>5. taken' = (taken \ OwnedPages(g)) \cup OwnedPages(g)'
  BY <1>4 DEF SetTrampoline
<1>6. /\ tramp[g].owned => tramp[g].data # NoMem
      /\ tramp[g].data # NoMem => tramp[g].data \in Nat
      /\ tramp[g].capacity \in Nat
  BY EmptyFacts, TrampolineFacts DEF IInv, BlockSound
<1>7. /\ \A a \in DOMAIN stub' : a \in DOMAIN stub /\ stub'[a] = stub[a]
      /\ \A a \in DOMAIN stub \ DOMAIN stub' :
            \/ tramp[g].owned /\ Within(a, g)
            \/ b.data # NoMem /\ b.data <= a /\ a < b.data + b.capacity
  <2>1. /\ DOMAIN stub' = {a \in DOMAIN stub : a < at \/ a >= at + size}
                \ (IF tramp[g].owned
                   THEN tramp[g].data..(tramp[g].data + tramp[g].capacity - 1) ELSE {})
        /\ \A a \in DOMAIN stub' : stub'[a] = stub[a]
    BY DEF SetTrampoline, StubsOutside
  <2>2. ASSUME NEW a \in DOMAIN stub \ DOMAIN stub'
        PROVE  \/ tramp[g].owned /\ Within(a, g)
               \/ at <= a /\ a < at + size
    <3>1. a \in Nat /\ a # NoMem
      BY SpaceFacts, TrampolineAssumption DEF IInv, Types
    <3>2. \/ tramp[g].owned /\ a \in tramp[g].data..(tramp[g].data + tramp[g].capacity - 1)
          \/ at <= a /\ a < at + size
      BY <2>1, <3>1
    <3> QED BY <3>1, <3>2, <1>6 DEF Within
  <2> QED BY <2>1, <2>2, <1>1, <1>2
<1> HIDE DEF b
<1> QED BY <1>1, <1>2, <1>3, <1>5, <1>7, ReplaceIInv

\* ~Trampoline()
LEMMA DestroyIInv ==
  ASSUME IInv, NEW g \in Trampolines, Destroy(g)
  PROVE  IInv'
<1>1. /\ Running /\ Releasable(g) /\ Release(g)
      /\ UNCHANGED <<poolUsed, site, saved, writing, failure>>
  BY DEF Destroy
<1>2. tramp' = [tramp EXCEPT ![g] = Empty] /\ taken' = taken \ OwnedPages(g)
  BY <1>1 DEF Release
<1>3. OwnedPages(g)' = {}
  <2>1. tramp'[g] = Empty
    BY <1>2 DEF IInv, Types
  <2> QED BY <2>1, EmptyFacts DEF OwnedPages
<1>4. poolUsed' \in poolUsed..PoolSize
  BY <1>1, SpaceFacts DEF IInv, Types
<1>5. /\ tramp[g].owned => tramp[g].data # NoMem
      /\ tramp[g].data # NoMem => tramp[g].data \in Nat
      /\ tramp[g].capacity \in Nat
  BY EmptyFacts, TrampolineFacts DEF IInv, BlockSound
<1>6. /\ \A a \in DOMAIN stub' : a \in DOMAIN stub /\ stub'[a] = stub[a]
      /\ \A a \in DOMAIN stub \ DOMAIN stub' : tramp[g].owned /\ Within(a, g)
  <2>1. CASE ~tramp[g].owned
    BY <2>1, <1>1 DEF Release
  <2>2. CASE tramp[g].owned
    <3>1. stub' = StubsOutside(tramp[g].data, tramp[g].capacity)
      BY <2>2, <1>1 DEF Release
    <3>2. /\ DOMAIN stub' = {a \in DOMAIN stub :
                 a < tramp[g].data \/ a >= tramp[g].data + tramp[g].capacity}
          /\ \A a \in DOMAIN stub' : stub'[a] = stub[a]
      BY <3>1 DEF StubsOutside
    <3>3. ASSUME NEW a \in DOMAIN stub \ DOMAIN stub' PROVE Within(a, g)
      <4>1. a \in Nat /\ a # NoMem
        BY SpaceFacts, TrampolineAssumption DEF IInv, Types
      <4> QED BY <4>1, <3>2, <1>5, <2>2 DEF Within
    <3> QED BY <3>2, <3>3, <2>2
  <2> QED BY <2>1, <2>2
<1> QED BY <1>1, <1>2, <1>3, <1>4, <1>6, EmptyFacts, ReplaceIInv

\* AllocTrampoline(): out of the pool, or with a block of its own.
LEMMA AllocTrampolineIInv ==
  ASSUME IInv, NEW g \in Trampolines, NEW size \in BlockSizes, AllocTrampoline(g, size)
  PROVE  IInv'
<1> USE SpaceFacts
<1>1. /\ Running /\ Releasable(g) /\ UNCHANGED <<site, saved, writing>>
      /\ size \in Nat /\ poolUsed \in 0..PoolSize
  BY TrampolineAssumption DEF AllocTrampoline, IInv, Types
<1>2. CASE /\ poolUsed + size <= PoolSize
           /\ SetTrampoline(g, PoolBase + poolUsed, size, FALSE)
           /\ poolUsed' = poolUsed + size
           /\ UNCHANGED failure
  <2>1. /\ PoolBase + poolUsed \in 0..(AddressEnd - 1)
        /\ PoolBase + poolUsed + size <= AddressEnd
        /\ TextEnd <= PoolBase + poolUsed + Reach
        /\ poolUsed' \in poolUsed..PoolSize
    BY <1>1, <1>2
  <2> QED BY <2>1, <1>1, <1>2, SetTrampolineIInv
<1>3. CASE /\ size # 0
           /\ \E at \in Candidates(size) : SetTrampoline(g, at, size, TRUE)
           /\ UNCHANGED <<poolUsed, failure>>
  <2>1. PICK at \in Candidates(size) : SetTrampoline(g, at, size, TRUE)
    BY <1>3
  <2>2. /\ at \in Nat /\ at + size <= AddressEnd
        /\ PagesOf(at, size) \cap taken = {} /\ TextEnd <= at + Reach
    BY <1>1, <1>3, CandidateFacts
  <2>3. at \in 0..(AddressEnd - 1) /\ poolUsed' \in poolUsed..PoolSize
    BY <1>1, <1>3, <2>2
  <2> QED BY <2>1, <2>2, <2>3, <1>1, <1>3, SetTrampolineIInv
<1>4. CASE Fail("create", NoMem) /\ UNCHANGED <<trampVars, stub>>
  BY <1>1, <1>4, FailIInv DEF Fail
<1> QED BY <1>2, <1>3, <1>4 DEF AllocTrampoline, Create

\* operator=(&&): the members of h are g's from here on.
LEMMA MoveIInv ==
  ASSUME IInv, NEW g \in Trampolines, NEW h \in Trampolines, Move(g, h)
  PROVE  IInv'
<1>1. /\ Running /\ g # h
      /\ UNCHANGED <<taken, poolUsed, stub, site, saved, writing, failure>>
  BY DEF Move
<1>2. /\ tramp'[g] = tramp[h] /\ tramp'[h] = Empty
      /\ \A k \in Trampolines : k # g /\ k # h => tramp'[k] = tramp[k]
      /\ tramp' \in [Trampolines -> TrampolineRecord]
  BY <1>1, EmptyFacts DEF Move, IInv, Types
<1>3. Types'
  BY <1>1, <1>2 DEF IInv, Types
<1> DEFINE from(k) == IF k = g THEN h ELSE k
<1>4. /\ \A k \in Trampolines : k # h =>
            from(k) \in Trampolines /\ from(k) # g /\ tramp'[k] = tramp[from(k)]
      /\ \A k, l \in Trampolines : k # h /\ l # h /\ k # l => from(k) # from(l)
  BY <1>1, <1>2
<1> HIDE DEF from
<1>5. /\ \A k \in Trampolines : k # h => OwnedPages(k)' = OwnedPages(from(k))
      /\ OwnedPages(h)' = {}
  BY <1>2, <1>4, EmptyFacts DEF OwnedPages
<1>6. ASSUME NEW k \in Trampolines PROVE BlockSound(k)' /\ KnownApart(k)'
  <2>1. CASE k = h
    BY <2>1, <1>2, EmptyFacts DEF BlockSound, KnownApart, CachedStub
  <2>2. CASE k # h
    <3>1. /\ BlockSound(from(k)) /\ KnownApart(from(k)) /\ tramp'[k] = tramp[from(k)]
          /\ OwnedPages(k)' = OwnedPages(from(k))
      BY <2>2, <1>4, <1>5 DEF IInv
    <3>2. BlockSound(k)'
      BY <3>1, <1>1 DEF BlockSound, PoolPages
    <3>3. KnownApart(k)'
      BY <3>1 DEF KnownApart, CachedStub
    <3> QED BY <3>2, <3>3
  <2> QED BY <2>1, <2>2
<1>7. ASSUME NEW k \in Trampolines, NEW l \in Trampolines, k # l PROVE Apart(k, l)'
  <2>1. CASE k = h \/ l = h
    BY <2>1, <1>2, <1>5, EmptyFacts DEF Apart
  <2>2. CASE k # h /\ l # h
    <3>1. Apart(from(k), from(l))
      BY <2>2, <1>4, <1>7 DEF IInv
    <3> QED BY <3>1, <2>2, <1>4, <1>5 DEF Apart
  <2> QED BY <2>1, <2>2
<1>8. /\ \A n, a, d : Used(n, a, d)' <=> Used(n, a, d)
      /\ \A n \in {5, 6}, a \in 0..(AddressEnd - 1), d \in Targets :
            Known(n, a, d)' => Known(n, a, d)
  <2>1. ASSUME NEW n \in {5, 6}, NEW a \in 0..(AddressEnd - 1), NEW d \in Targets, Known(n, a, d)'
        PROVE  Known(n, a, d)
    <3>1. PICK k \in Trampolines : tramp'[k].branches[n][d] = a
      BY <2>1 DEF Known, CachedStub
    <3>2. k # h
      BY <3>1, <1>2, EmptyFacts, TrampolineAssumption, SpaceFacts
    <3> QED BY <3>1, <3>2, <1>4 DEF Known, CachedStub
  <2> QED BY <2>1, <1>1 DEF Used
<1>9. ASSUME NEW n \in {5, 6}, NEW a \in 0..(AddressEnd - 1), NEW d \in Targets, Used(n, a, d)
      PROVE  Kept(a)'
  <2>1. Kept(a)
    BY <1>9 DEF IInv, UsesKept
  <2>2. ASSUME NEW k \in Trampolines, tramp'[k].data # NoMem
        PROVE  /\ PagesOf(a, 1) \cap OwnedPages(k)' # {} => Within(a, k)'
               /\ Within(a, k)' => a < tramp'[k].data + tramp'[k].size
    <3>1. k # h
      BY <2>2, <1>2, EmptyFacts
    <3> QED BY <3>1, <2>1, <2>2, <1>4, <1>5 DEF Kept, Within
  <2> QED BY <2>1, <2>2, <1>1 DEF Kept
<1>10. UsesKept' /\ UsesLead' /\ KnownLead'
  <2>1. UsesKept'
    BY <1>8, <1>9 DEF UsesKept
  <2>2. UsesLead'
    BY <1>1, <1>8 DEF IInv, UsesLead, Leads
  <2>3. KnownLead'
    BY <1>1, <1>8 DEF IInv, KnownLead, Leads
  <2> QED BY <2>1, <2>2, <2>3
<1>11. WritingSound' /\ ReachDownward' /\ ChainsReachTargets' /\ PoolPages' \subseteq taken'
  BY <1>1 DEF IInv, WritingSound, Running, ReachDownward, ChainsReachTargets, Leads, PoolPages
<1> QED BY <1>3, <1>6, <1>7, <1>10, <1>11 DEF IInv

-----------------------------------------------------------------------------
\* allocate(size)
LEMMA AllocateIInv ==
  ASSUME IInv, NEW g \in Trampolines, NEW bytes \in RawSizes, Allocate(g, bytes)
  PROVE  IInv'
<1>1. /\ Running /\ UNCHANGED <<taken, poolUsed, stub, site, saved, writing>>
      /\ bytes \in Nat
  BY TrampolineAssumption DEF Allocate
<1>2. CASE ~HasRoom(g, bytes) /\ Fail("memory", NoMem) /\ UNCHANGED tramp
  BY <1>1, <1>2, FailIInv DEF Fail, trampVars
<1>3. CASE /\ HasRoom(g, bytes)
           /\ tramp' = [tramp EXCEPT ![g].size = @ + bytes]
           /\ UNCHANGED failure
  <2>1. /\ tramp[g] \in TrampolineRecord /\ tramp[g].size \in Nat /\ tramp[g].capacity \in Nat
        /\ tramp[g].data # NoMem => tramp[g].data \in Nat
    BY TrampolineFacts DEF IInv
  <2>2. /\ tramp' = [tramp EXCEPT ![g] = [tramp[g] EXCEPT !.size = tramp[g].size + bytes]]
        /\ tramp \in [Trampolines -> TrampolineRecord]
    BY <1>3 DEF IInv, Types
  <2>3. /\ \A k \in Trampolines :
              /\ tramp'[k].data = tramp[k].data /\ tramp'[k].capacity = tramp[k].capacity
              /\ tramp'[k].owned = tramp[k].owned /\ tramp'[k].branches = tramp[k].branches
              /\ k # g => tramp'[k] = tramp[k]
        /\ tramp'[g].size = tramp[g].size + bytes
        /\ tramp'[g] = [tramp[g] EXCEPT !.size = tramp[g].size + bytes]
        /\ tramp' \in [Trampolines -> TrampolineRecord]
    BY <2>1, <2>2, <1>1 DEF TrampolineRecord
  <2>4. /\ \A k \in Trampolines : OwnedPages(k)' = OwnedPages(k)
        /\ \A k \in Trampolines : \A n, d : CachedStub(k, n, d)' = CachedStub(k, n, d)
        /\ \A n, a, d : (Used(n, a, d)' <=> Used(n, a, d)) /\ (Known(n, a, d)' <=> Known(n, a, d))
    BY <1>1, <2>3 DEF OwnedPages, CachedStub, Used, Known
  <2>5. Types'
    BY <1>1, <2>3 DEF IInv, Types
  <2>6. BlockSound(g)' /\ KnownApart(g)'
    <3>1. tramp'[g].size <= tramp'[g].capacity
      BY <1>3, <2>3 DEF HasRoom
    <3>2. tramp[g].data = NoMem => tramp'[g] = Empty
      <4>1. SUFFICES ASSUME tramp[g].data = NoMem PROVE tramp'[g] = Empty
        OBVIOUS
      <4>2. tramp[g] = Empty
        BY <4>1 DEF IInv, BlockSound
      <4>3. bytes = 0
        BY <4>2, <1>1, <1>3, EmptyFacts DEF HasRoom
      <4>4. [Empty EXCEPT !.size = 0] = Empty
        BY EmptyFacts DEF TrampolineRecord
      <4> QED BY <4>2, <4>3, <4>4, <2>3, EmptyFacts
    <3>3. BlockSound(g)'
      BY <3>1, <3>2, <1>1, <2>3, <2>4 DEF IInv, BlockSound, PoolPages
    <3>4. ASSUME NEW n \in {5, 6}, NEW d \in Targets, CachedStub(g, n, d) # NoMem
          PROVE  CachedStub(g, n, d) + StubSize(n) <= tramp'[g].data + tramp'[g].size
      <4>1. /\ CachedStub(g, n, d) + StubSize(n) <= tramp[g].data + tramp[g].size
            /\ tramp[g].data # NoMem
        BY <3>4 DEF IInv, KnownApart
      <4>2. CachedStub(g, n, d) \in Nat /\ StubSize(n) \in Nat
        BY <3>4, TrampolineFacts, SpaceFacts DEF IInv, StubSize
      <4> QED BY <4>1, <4>2, <2>1, <2>3, <1>1
    <3>5. KnownApart(g)'
      BY <3>4, <2>3, <2>4 DEF IInv, KnownApart
    <3> QED BY <3>3, <3>5
  <2>7. ASSUME NEW k \in Trampolines, k # g PROVE BlockSound(k)' /\ KnownApart(k)'
    BY <2>7, <1>1, <2>3, <2>4 DEF IInv, BlockSound, KnownApart, PoolPages
  <2>8. \A k, l \in Trampolines : k # l => Apart(k, l)'
    BY <2>3, <2>4 DEF IInv, Apart
  <2>9. ASSUME NEW a \in 0..(AddressEnd - 1), Kept(a) PROVE Kept(a)'
    <3>1. ASSUME NEW k \in Trampolines, tramp[k].data # NoMem, Within(a, k)
          PROVE  a < tramp'[k].data + tramp'[k].size
      <4>1. a < tramp[k].data + tramp[k].size
        BY <2>9, <3>1 DEF Kept
      <4>2. k # g => tramp'[k].data + tramp'[k].size = tramp[k].data + tramp[k].size
        BY <2>3
      <4>3. k = g => tramp'[k].data + tramp'[k].size = tramp[k].data + (tramp[k].size + bytes)
        BY <2>3
      <4>4. a \in Nat
        BY SpaceFacts
      <4>5. CASE k = g
        BY <4>1, <4>3, <4>4, <4>5, <3>1, <2>1, <1>1
      <4>6. CASE k # g
        BY <4>1, <4>2, <4>6
      <4> QED BY <4>5, <4>6
    <3> QED BY <3>1, <2>9, <1>1, <2>3, <2>4 DEF Kept, Within
  <2>10. UsesKept'
    BY <2>4, <2>9 DEF IInv, UsesKept
  <2>11. UsesLead' /\ KnownLead'
    BY <1>1, <1>3, <2>4 DEF IInv, UsesLead, KnownLead, Leads
  <2>12. WritingSound' /\ ReachDownward' /\ ChainsReachTargets' /\ PoolPages' \subseteq taken'
    BY <1>1, <1>3
    DEF IInv, WritingSound, Running, ReachDownward, ChainsReachTargets, Leads, PoolPages
  <2> QED BY <2>5, <2>6, <2>7, <2>8, <2>10, <2>11, <2>12 DEF IInv
<1> QED BY <1>2, <1>3 DEF Allocate

\* The stub is filled: whatever leads to it agrees on what it should be.
LEMMA FillStubIInv ==
  ASSUME IInv, FillStub
  PROVE  IInv'
<1>1. /\ writing \in [n : {5, 6}, at : 0..(AddressEnd - 1), dst : Targets]
      /\ writing' = NotWriting /\ writing # NotWriting
      /\ UNCHANGED <<trampVars, site, saved, failure>>
      /\ DOMAIN stub' = DOMAIN stub \cup {writing.at}
      /\ stub'[writing.at] = [n |-> writing.n, dst |-> writing.dst]
      /\ \A a \in DOMAIN stub : a # writing.at => stub'[a] = stub[a]
  BY DEF FillStub, IInv, Types
<1> USE <1>1 DEF trampVars
<1>2. Types' /\ PoolPages' \subseteq taken'
  <2>1. \A a \in DOMAIN stub' :
          a \in 0..(AddressEnd - 1) /\ stub'[a] \in [n : {5, 6}, dst : Targets]
    BY DEF IInv, Types
  <2> QED BY <2>1 DEF IInv, Types, PoolPages
<1>3. \A g \in Trampolines : BlockSound(g)' /\ KnownApart(g)'
  BY DEF IInv, BlockSound, KnownApart, OwnedPages, CachedStub, PoolPages
<1>4. \A g, h \in Trampolines : g # h => Apart(g, h)'
  BY DEF IInv, Apart, OwnedPages
<1>5. /\ \A n, a, d : (Used(n, a, d)' <=> Used(n, a, d)) /\ (Known(n, a, d)' <=> Known(n, a, d))
      /\ failure = NoFailure
  BY DEF Used, Known, CachedStub, IInv, WritingSound
<1>6. UsesKept'
  BY <1>5 DEF IInv, UsesKept, Kept, OwnedPages, Within
<1>7. ASSUME NEW n \in {5, 6}, NEW a \in 0..(AddressEnd - 1), NEW d \in Targets,
             Used(n, a, d) \/ Known(n, a, d)
      PROVE  Leads(a, n, d)'
  <2>1. CASE a = writing.at
    <3>1. writing.n = n /\ writing.dst = d
      BY <2>1, <1>7 DEF IInv, WritingSound
    <3> QED BY <2>1, <3>1 DEF Leads
  <2>2. CASE a # writing.at
    <3>1. Leads(a, n, d)
      <4>1. writing # [n |-> n, at |-> a, dst |-> d]
        BY <2>2
      <4> QED BY <4>1, <1>5, <1>7 DEF IInv, UsesLead, KnownLead
    <3> QED BY <2>2, <3>1 DEF Leads
  <2> QED BY <2>1, <2>2
<1>8. UsesLead' /\ KnownLead'
  BY <1>5, <1>7 DEF UsesLead, KnownLead
<1>9. WritingSound' /\ ReachDownward'
  BY DEF IInv, WritingSound, ReachDownward
<1>10. ChainsReachTargets'
  <2>1. ASSUME NEW hook \in saved PROVE Leads(hook.func, 5, hook.dst)'
    <3>1. /\ hook = [func |-> hook.func, dst |-> hook.dst]
          /\ hook.func \in 0..(AddressEnd - 1) /\ hook.dst \in Targets
      BY DEF IInv, Types
    <3>2. Used(5, hook.func, hook.dst)
      BY <3>1 DEF Used
    <3> QED BY <3>1, <3>2, <1>7
  <2> QED BY <2>1 DEF ChainsReachTargets
<1> QED BY <1>2, <1>3, <1>4, <1>6, <1>8, <1>9, <1>10 DEF IInv

-----------------------------------------------------------------------------
\* An address inside the allocated part of a block is kept, whichever way the
\* block was come by, and is not below the reach.
LEMMA InsideKept ==
  ASSUME IInv, NEW g \in Trampolines, tramp[g].data # NoMem,
         NEW a \in Nat, tramp[g].data <= a, a < tramp[g].data + tramp[g].capacity
  PROVE  /\ a \in 0..(AddressEnd - 1) /\ TextEnd <= a + Reach
         /\ PagesOf(a, 1) \subseteq taken
         /\ a < PoolBase + poolUsed \/ a >= PoolBase + PoolSize
         /\ Within(a, g)
         /\ \A h \in Trampolines : h # g /\ tramp[h].data # NoMem =>
                PagesOf(a, 1) \cap OwnedPages(h) = {} /\ ~Within(a, h)
<1> USE SpaceFacts
<1>1. /\ tramp[g].data \in Nat /\ tramp[g].capacity \in Nat /\ BlockSound(g)
      /\ PoolPages \subseteq taken /\ poolUsed \in 0..PoolSize
  BY TrampolineFacts DEF IInv, Types
<1>2. a \in 0..(AddressEnd - 1) /\ TextEnd <= a + Reach
  BY <1>1 DEF BlockSound
<1>3. Within(a, g)
  BY TrampolineAssumption DEF Within
<1>4. ASSUME NEW h \in Trampolines, h # g, tramp[h].data # NoMem
      PROVE  ~Within(a, h) /\ OwnedPages(h) \cap OwnedPages(g) = {}
  <2>1. /\ tramp[h].data \in Nat /\ tramp[h].capacity \in Nat /\ Apart(g, h)
    BY <1>4, TrampolineFacts DEF IInv
  <2> QED BY <2>1, <1>1, <1>4 DEF Apart, Within
<1>5. CASE tramp[g].owned
  <2>1. PagesOf(a, 1) \subseteq OwnedPages(g)
    <3>1. a \in tramp[g].data..(tramp[g].data + tramp[g].capacity - 1)
      BY <1>1
    <3> QED BY <3>1, <1>1, <1>5, PageOfBlock DEF OwnedPages
  <2>2. /\ OwnedPages(g) \subseteq taken /\ OwnedPages(g) \cap PoolPages = {}
        /\ tramp[g].capacity \in Nat \ {0} /\ tramp[g].data + tramp[g].capacity <= AddressEnd
    BY <1>1, <1>5 DEF BlockSound
  <2>3. \/ tramp[g].data + tramp[g].capacity <= PoolBase
        \/ PoolBase + (PoolSize + 1) <= tramp[g].data
    <3>1. PagesOf(tramp[g].data, tramp[g].capacity) \cap PagesOf(PoolBase, PoolSize + 1) = {}
      BY <2>2, <1>5 DEF OwnedPages, PoolPages
    <3>2. PoolSize + 1 \in Nat \ {0} /\ PoolBase + (PoolSize + 1) <= AddressEnd
      OBVIOUS
    <3> QED BY <3>1, <3>2, <2>2, <1>1, BlocksApart
  <2>4. a < PoolBase + poolUsed \/ a >= PoolBase + PoolSize
    BY <2>3, <1>1
  <2> QED BY <2>1, <2>2, <2>4, <1>2, <1>3, <1>4
<1>6. CASE ~tramp[g].owned
  <2>1. /\ PoolBase <= tramp[g].data
        /\ tramp[g].data + tramp[g].capacity <= PoolBase + poolUsed
    BY <1>1, <1>6 DEF BlockSound
  <2>2. a < PoolBase + poolUsed /\ a \in PoolBase..(PoolBase + (PoolSize + 1) - 1)
    BY <2>1, <1>1
  <2>3. PagesOf(a, 1) \subseteq PoolPages
    BY <2>2, PageOfBlock DEF PoolPages
  <2>4. \A h \in Trampolines : OwnedPages(h) \cap PoolPages = {}
    BY OwnedFacts DEF IInv, BlockSound
  <2> QED BY <2>2, <2>3, <2>4, <1>1, <1>2, <1>3, <1>4
<1> QED BY <1>1, <1>5, <1>6

\* The stub a branch takes, remembered or new: afterwards it is one of the
\* remembered ones, everything else is as it was, and whatever already led to
\* its address led there for the same function.
LEMMA TakeStubFacts ==
  ASSUME IInv, Running, NEW g \in Trampolines, NEW n \in {5, 6}, NEW dst \in Targets,
         NEW mem,
         mem = IF CachedStub(g, n, dst) # NoMem THEN CachedStub(g, n, dst)
               ELSE tramp[g].data + tramp[g].size,
         CachedStub(g, n, dst) # NoMem \/ HasRoom(g, StubSize(n)),
         TakeStub(g, n, dst, mem), UNCHANGED <<taken, poolUsed>>
  PROVE  /\ mem \in 0..(AddressEnd - 1) /\ TextEnd <= mem + Reach
         /\ tramp' \in [Trampolines -> TrampolineRecord]
         /\ \A k \in Trampolines : BlockSound(k)' /\ KnownApart(k)'
         /\ \A k, l \in Trampolines : k # l => Apart(k, l)'
         /\ Kept(mem)'
         /\ \A a \in 0..(AddressEnd - 1) : Kept(a) => Kept(a)'
         /\ \A m \in {5, 6}, a \in 0..(AddressEnd - 1), d \in Targets :
                Known(m, a, d)' => Known(m, a, d) \/ (m = n /\ a = mem /\ d = dst)
         /\ \A m \in {5, 6}, d \in Targets :
                Used(m, mem, d) \/ Known(m, mem, d) => m = n /\ d = dst
         /\ CachedStub(g, n, dst) # NoMem => Leads(mem, n, dst)
<1> USE SpaceFacts
<1> DEFINE fresh == CachedStub(g, n, dst) = NoMem
           s == IF fresh THEN StubSize(n) ELSE 0
<1>1. /\ Types /\ tramp[g] \in TrampolineRecord /\ tramp \in [Trampolines -> TrampolineRecord]
      /\ tramp[g].size \in Nat /\ tramp[g].capacity \in Nat /\ StubSize(n) \in Nat \ {0}
      /\ tramp[g].data # NoMem => tramp[g].data \in Nat
      /\ BlockSound(g) /\ KnownApart(g)
  BY TrampolineFacts DEF IInv, Types, StubSize
<1>2. tramp[g].data # NoMem
  <2>1. ASSUME tramp[g].data = NoMem PROVE FALSE
    <3>1. tramp[g] = Empty
      BY <2>1, <1>1 DEF BlockSound
    <3>2. CachedStub(g, n, dst) = NoMem /\ ~HasRoom(g, StubSize(n))
      BY <3>1, <1>1, EmptyFacts DEF CachedStub, HasRoom
    <3> QED BY <3>2
  <2> QED BY <2>1
<1>3. /\ tramp[g].data \in Nat /\ tramp[g].size + s \in Nat
      /\ tramp[g].size + s <= tramp[g].capacity
  BY <1>1, <1>2 DEF BlockSound, HasRoom
<1>4. /\ mem \in Nat /\ mem # NoMem /\ tramp[g].data <= mem
      /\ mem + StubSize(n) <= tramp[g].data + (tramp[g].size + s)
  <2>1. CASE fresh
    BY <2>1, <1>1, <1>3, TrampolineAssumption
  <2>2. CASE ~fresh
    <3>1. CachedStub(g, n, dst) \in Nat
      BY <2>2, <1>1, TrampolineFacts
    <3> QED BY <2>2, <3>1, <1>1, <1>3 DEF KnownApart
  <2> QED BY <2>1, <2>2
<1>5. mem < tramp[g].data + (tramp[g].size + s) /\ mem < tramp[g].data + tramp[g].capacity
  BY <1>1, <1>3, <1>4
<1>6. /\ mem \in 0..(AddressEnd - 1) /\ TextEnd <= mem + Reach
      /\ PagesOf(mem, 1) \subseteq taken
      /\ mem < PoolBase + poolUsed \/ mem >= PoolBase + PoolSize
      /\ Within(mem, g)
      /\ \A h \in Trampolines : h # g /\ tramp[h].data # NoMem =>
             PagesOf(mem, 1) \cap OwnedPages(h) = {} /\ ~Within(mem, h)
  BY <1>2, <1>4, <1>5, InsideKept
<1>7. /\ \A k \in Trampolines :
            /\ tramp'[k].data = tramp[k].data /\ tramp'[k].capacity = tramp[k].capacity
            /\ tramp'[k].owned = tramp[k].owned
            /\ k # g => tramp'[k] = tramp[k]
      /\ tramp'[g].size = tramp[g].size + s
      /\ tramp' \in [Trampolines -> TrampolineRecord]
  <2>1. CASE fresh
    <3>1. tramp' = [tramp EXCEPT ![g] =
             [tramp[g] EXCEPT !.branches[n][dst] = mem, !.size = tramp[g].size + StubSize(n)]]
      BY <2>1, <1>1 DEF TakeStub, TrampolineRecord
    <3>2. mem \in Address
      BY <1>6 DEF Address
    <3>3. [tramp[g] EXCEPT !.branches[n][dst] = mem, !.size = tramp[g].size + StubSize(n)]
             \in TrampolineRecord
      <4>1. tramp[g].branches \in [{5, 6} -> [Targets -> Address]]
        BY <1>1 DEF TrampolineRecord
      <4>2. [tramp[g].branches EXCEPT ![n][dst] = mem] \in [{5, 6} -> [Targets -> Address]]
        BY <4>1, <3>2
      <4>3. tramp[g].size + StubSize(n) \in Nat
        BY <1>1
      <4> QED BY <4>2, <4>3, <1>1 DEF TrampolineRecord
    <3> QED BY <3>1, <3>3, <2>1, <1>1 DEF TrampolineRecord
  <2>2. CASE ~fresh
    BY <2>2, <1>1 DEF TakeStub
  <2> QED BY <2>1, <2>2
<1>8. /\ \A k \in Trampolines : \A m, d : k # g => CachedStub(k, m, d)' = CachedStub(k, m, d)
      /\ CachedStub(g, n, dst)' = mem
      /\ \A m \in {5, 6}, d \in Targets : m # n \/ d # dst =>
            CachedStub(g, m, d)' = CachedStub(g, m, d)
  <2>1. CASE fresh
    <3>1. tramp' = [tramp EXCEPT ![g] =
             [tramp[g] EXCEPT !.branches[n][dst] = mem, !.size = tramp[g].size + StubSize(n)]]
      BY <2>1, <1>1 DEF TakeStub, TrampolineRecord
    <3> QED BY <3>1, <1>1, <1>7 DEF CachedStub, TrampolineRecord
  <2>2. CASE ~fresh
    BY <2>2 DEF TakeStub, CachedStub
  <2> QED BY <2>1, <2>2
<1> HIDE DEF s
<1>9. \A k \in Trampolines : OwnedPages(k)' = OwnedPages(k)
  BY <1>7 DEF OwnedPages
<1>10. BlockSound(g)'
  BY <1>1, <1>2, <1>3, <1>7, <1>9 DEF BlockSound, PoolPages
<1>11. KnownApart(g)'
  <2>1. \A m \in {5, 6}, d \in Targets : (m # n \/ d # dst) /\ CachedStub(g, m, d) # NoMem =>
          /\ CachedStub(g, m, d) \in Nat /\ tramp[g].data <= CachedStub(g, m, d)
          /\ CachedStub(g, m, d) + StubSize(m) <= tramp[g].data + tramp[g].size
    BY <1>1, TrampolineFacts DEF KnownApart
  <2>2. \A m \in {5, 6}, d \in Targets : (m # n \/ d # dst) /\ CachedStub(g, m, d) # NoMem =>
          /\ CachedStub(g, m, d) + StubSize(m) <= tramp[g].data + (tramp[g].size + s)
          /\ \/ CachedStub(g, m, d) + StubSize(m) <= mem
             \/ mem + StubSize(n) <= CachedStub(g, m, d)
    <3>1. CASE fresh
      <4>1. s = StubSize(n) /\ mem = tramp[g].data + tramp[g].size
        BY <3>1 DEF s
      <4>2. \A m \in {5, 6} : StubSize(m) \in Nat
        BY DEF StubSize
      <4> QED BY <4>1, <4>2, <2>1, <1>1, <1>3
    <3>2. CASE ~fresh
      <4>1. s = 0 /\ mem = CachedStub(g, n, dst)
        BY <3>2 DEF s
      <4>2. tramp[g].size + s = tramp[g].size
        BY <4>1, <1>1
      <4> QED BY <4>1, <4>2, <2>1, <1>1, <1>4 DEF KnownApart
    <3> QED BY <3>1, <3>2
  <2>3. \A m, m2 \in {5, 6}, d, d2 \in Targets :
          (m # n \/ d # dst) /\ (m2 # n \/ d2 # dst) /\ CachedStub(g, m, d) # NoMem
          /\ CachedStub(g, m2, d2) # NoMem /\ (m # m2 \/ d # d2) =>
             \/ CachedStub(g, m, d) + StubSize(m) <= CachedStub(g, m2, d2)
             \/ CachedStub(g, m2, d2) + StubSize(m2) <= CachedStub(g, m, d)
    BY <1>1 DEF KnownApart
  <2> QED BY <2>1, <2>2, <2>3, <1>2, <1>4, <1>7, <1>8 DEF KnownApart
<1>12. ASSUME NEW k \in Trampolines, k # g PROVE BlockSound(k)' /\ KnownApart(k)'
  BY <1>7, <1>8, <1>9, <1>12 DEF IInv, BlockSound, KnownApart, PoolPages
<1>13. \A k, l \in Trampolines : k # l => Apart(k, l)'
  BY <1>7, <1>9 DEF IInv, Apart
<1>14. Kept(mem)'
  <2>1. ASSUME NEW k \in Trampolines, tramp'[k].data # NoMem
        PROVE  /\ PagesOf(mem, 1) \cap OwnedPages(k)' # {} => Within(mem, k)'
               /\ Within(mem, k)' => mem < tramp'[k].data + tramp'[k].size
    BY <2>1, <1>5, <1>6, <1>7, <1>9 DEF Within
  <2> QED BY <2>1, <1>6 DEF Kept
<1>15. ASSUME NEW a \in 0..(AddressEnd - 1), Kept(a) PROVE Kept(a)'
  <2>1. ASSUME NEW k \in Trampolines, tramp[k].data # NoMem, Within(a, k)
        PROVE  a < tramp'[k].data + tramp'[k].size
    <3>1. a < tramp[k].data + tramp[k].size
      BY <1>15, <2>1 DEF Kept
    <3>2. CASE k # g
      BY <3>1, <3>2, <1>7
    <3>3. CASE k = g
      <4>1. a \in Nat /\ s \in Nat
        BY <1>1 DEF s
      <4> QED BY <3>1, <3>3, <4>1, <1>1, <1>3, <1>7
    <3> QED BY <3>2, <3>3
  <2> QED BY <2>1, <1>15, <1>7, <1>9 DEF Kept, Within
<1>16. ASSUME NEW m \in {5, 6}, NEW a \in 0..(AddressEnd - 1), NEW d \in Targets, Known(m, a, d)'
       PROVE  Known(m, a, d) \/ (m = n /\ a = mem /\ d = dst)
  <2>1. PICK k \in Trampolines : CachedStub(k, m, d)' = a
    BY <1>16 DEF Known
  <2> QED BY <2>1, <1>8 DEF Known
<1>17. CachedStub(g, n, dst) # NoMem => Leads(mem, n, dst)
  <2>1. ASSUME CachedStub(g, n, dst) # NoMem PROVE Leads(mem, n, dst)
    <3>1. Known(n, mem, dst)
      BY <2>1 DEF Known
    <3> QED BY <3>1, <1>6, RunningLeads
  <2> QED BY <2>1
<1>18. ASSUME NEW m \in {5, 6}, NEW d \in Targets, Used(m, mem, d) \/ Known(m, mem, d)
       PROVE  m = n /\ d = dst
  <2>1. Leads(mem, m, d)
    BY <1>18, <1>6, RunningLeads
  <2>2. CASE ~fresh
    BY <2>1, <2>2, <1>17 DEF Leads
  <2>3. CASE fresh
    <3>1. mem = tramp[g].data + tramp[g].size
      BY <2>3
    <3>2. ~Used(m, mem, d)
      <4>1. SUFFICES ASSUME Used(m, mem, d) PROVE FALSE
        OBVIOUS
      <4>2. Kept(mem)
        BY <4>1, <1>6 DEF IInv, UsesKept
      <4>3. mem < tramp[g].data + tramp[g].size
        BY <4>2, <1>2, <1>6 DEF Kept
      <4> QED BY <3>1, <4>3, <1>4
    <3>3. ASSUME NEW h \in Trampolines, CachedStub(h, m, d) = mem PROVE FALSE
      <4>1. /\ tramp[h].data # NoMem /\ tramp[h].data <= mem
            /\ mem + StubSize(m) <= tramp[h].data + tramp[h].size
        BY <3>3, <1>4 DEF IInv, KnownApart
      <4>2. /\ tramp[h].data \in Nat /\ tramp[h].size \in Nat /\ tramp[h].capacity \in Nat
            /\ StubSize(m) \in Nat \ {0} /\ tramp[h].size <= tramp[h].capacity
        BY <4>1, TrampolineFacts DEF IInv, BlockSound, StubSize
      <4>3. mem < tramp[h].data + tramp[h].size
        BY <4>1, <4>2, <1>4
      <4>4. CASE h = g
        BY <4>3, <4>4, <3>1, <1>4
      <4>5. CASE h # g
        <5>1. Within(mem, h)
          BY <4>1, <4>2, <4>3, <1>4 DEF Within
        <5> QED BY <5>1, <4>1, <4>5, <1>6
      <4> QED BY <4>4, <4>5
    <3> QED BY <3>2, <3>3, <1>18 DEF Known
  <2> QED BY <2>2, <2>3
<1> QED BY <1>6, <1>7, <1>10, <1>11, <1>12, <1>13, <1>14, <1>15, <1>16, <1>17, <1>18

\* write_branch up to the patch: the site, and what it led to before, lead to
\* stubs; or the process has ended.
LEMMA WriteBranchIInv ==
  ASSUME IInv, NEW g \in Trampolines, NEW src \in Sites, NEW dst \in Targets,
         WriteBranch(g, src, dst)
  PROVE  IInv'
<1> USE SpaceFacts
<1> DEFINE n == LengthAt[src]
           cached == CachedStub(g, n, dst)
<1>1. /\ Running /\ UNCHANGED <<taken, poolUsed, stub>> /\ Types
      /\ n \in {5, 6} /\ src \in Nat /\ src + n <= TextEnd /\ TextEnd < src + Reach
  BY TrampolineAssumption, TextAssumption DEF WriteBranch, IInv
<1>2. CASE /\ cached = NoMem /\ ~HasRoom(g, StubSize(n))
           /\ Fail("memory", NoMem)
           /\ UNCHANGED <<tramp, site, saved, writing>>
  BY <1>1, <1>2, FailIInv DEF Fail, trampVars
<1>3. ASSUME NEW mem,
             mem = IF cached # NoMem THEN cached ELSE tramp[g].data + tramp[g].size,
             cached # NoMem \/ HasRoom(g, StubSize(n)),
             TakeStub(g, n, dst, mem),
             IF InRange(mem - (src + n))
             THEN Patch(src, mem, dst) /\ UNCHANGED failure
             ELSE Fail("range", mem) /\ UNCHANGED <<site, saved, writing>>
      PROVE  IInv'
  <2>1. /\ mem \in 0..(AddressEnd - 1) /\ TextEnd <= mem + Reach
        /\ tramp' \in [Trampolines -> TrampolineRecord]
        /\ \A k \in Trampolines : BlockSound(k)' /\ KnownApart(k)'
        /\ \A k, l \in Trampolines : k # l => Apart(k, l)'
        /\ Kept(mem)'
        /\ \A a \in 0..(AddressEnd - 1) : Kept(a) => Kept(a)'
        /\ \A m \in {5, 6}, a \in 0..(AddressEnd - 1), d \in Targets :
               Known(m, a, d)' => Known(m, a, d) \/ (m = n /\ a = mem /\ d = dst)
        /\ \A m \in {5, 6}, d \in Targets :
               Used(m, mem, d) \/ Known(m, mem, d) => m = n /\ d = dst
    <3>1. /\ mem = IF CachedStub(g, n, dst) # NoMem THEN CachedStub(g, n, dst)
                   ELSE tramp[g].data + tramp[g].size
          /\ CachedStub(g, n, dst) # NoMem \/ HasRoom(g, StubSize(n))
          /\ TakeStub(g, n, dst, mem) /\ UNCHANGED <<taken, poolUsed>>
          /\ Running /\ n \in {5, 6}
      BY <1>1, <1>3
    <3> HIDE DEF n, cached
    <3> QED BY ONLY IInv, g \in Trampolines, dst \in Targets, <3>1, TakeStubFacts
  <2>2. /\ PoolPages' \subseteq taken'
        /\ \A m, a, d : Leads(m, a, d)' <=> Leads(m, a, d)
    BY <1>1 DEF IInv, PoolPages, Leads
  <2>3. CASE Patch(src, mem, dst) /\ UNCHANGED failure
    <3>1. /\ site \in [Sites -> {Unpatched} \cup
                          [n : {5, 6}, to : 0..(AddressEnd - 1), dst : Targets]]
          /\ site' = [site EXCEPT ![src] = [n |-> n, to |-> mem, dst |-> dst]]
          /\ writing' = [n |-> n, at |-> mem, dst |-> dst]
      BY <2>3, <1>1 DEF Patch, Types
    <3>2. ASSUME NEW hook \in saved' \ saved
          PROVE  /\ hook \in [func : 0..(AddressEnd - 1), dst : Targets]
                 /\ Used(5, hook.func, hook.dst)
      <4>1. /\ n = 5 /\ site[src] # Unpatched
            /\ hook = [func |-> site[src].to, dst |-> site[src].dst]
        BY <2>3, <3>2 DEF Patch
      <4>2. site[src] \in [n : {5, 6}, to : 0..(AddressEnd - 1), dst : Targets]
            /\ site[src].n = 5
        BY <4>1, <1>1, <3>1 DEF Types
      <4>3. site[src] = [n |-> 5, to |-> hook.func, dst |-> hook.dst]
        BY <4>1, <4>2
      <4> QED BY <4>1, <4>2, <4>3 DEF Used
    <3>3. saved \subseteq saved'
      BY <2>3 DEF Patch
    <3>4. Types'
      <4>1. [n |-> n, to |-> mem, dst |-> dst] # Unpatched
        BY <1>1 DEF Unpatched
      <4>2. /\ site' \in [Sites -> {Unpatched} \cup
                          [n : {5, 6}, to : 0..(AddressEnd - 1), dst : Targets]]
            /\ \A s \in Sites : site'[s] # Unpatched => site'[s].n = LengthAt[s]
        BY <1>1, <2>1, <3>1 DEF Types
      <4>3. saved' \in SUBSET [func : 0..(AddressEnd - 1), dst : Targets]
        BY <1>1, <3>2 DEF Types
      <4>4. writing' \in [n : {5, 6}, at : 0..(AddressEnd - 1), dst : Targets]
        BY <1>1, <2>1, <3>1
      <4> QED BY <4>2, <4>3, <4>4, <1>1, <2>1 DEF Types
    <3>5. \A m \in {5, 6}, a \in 0..(AddressEnd - 1), d \in Targets :
            Used(m, a, d)' => Used(m, a, d) \/ (m = n /\ a = mem /\ d = dst)
      <4>1. ASSUME NEW m \in {5, 6}, NEW a \in 0..(AddressEnd - 1), NEW d \in Targets,
                   Used(m, a, d)'
            PROVE  Used(m, a, d) \/ (m = n /\ a = mem /\ d = dst)
        <5>1. CASE \E s \in Sites : site'[s] = [n |-> m, to |-> a, dst |-> d]
          <6>1. PICK s \in Sites : site'[s] = [n |-> m, to |-> a, dst |-> d]
            BY <5>1
          <6>2. CASE s = src
            BY <6>1, <6>2, <3>1
          <6>3. CASE s # src
            <7>1. site[s] = [n |-> m, to |-> a, dst |-> d]
              BY <6>1, <6>3, <3>1
            <7> QED BY <7>1 DEF Used
          <6> QED BY <6>2, <6>3
        <5>2. CASE m = 5 /\ [func |-> a, dst |-> d] \in saved'
          <6>1. CASE [func |-> a, dst |-> d] \in saved
            BY <5>2, <6>1 DEF Used
          <6>2. CASE [func |-> a, dst |-> d] \notin saved
            <7>1. Used(5, [func |-> a, dst |-> d].func, [func |-> a, dst |-> d].dst)
              BY <5>2, <6>2, <3>2
            <7> QED BY <7>1, <5>2
          <6> QED BY <6>1, <6>2
        <5> QED BY <4>1, <5>1, <5>2 DEF Used
      <4> QED BY <4>1
    <3>6. UsesKept'
      BY <2>1, <3>5 DEF IInv, UsesKept
    <3>7. ASSUME NEW m \in {5, 6}, NEW a \in 0..(AddressEnd - 1), NEW d \in Targets,
                 Used(m, a, d)' \/ Known(m, a, d)'
          PROVE  Leads(a, m, d)' \/ writing' = [n |-> m, at |-> a, dst |-> d]
      <4>1. CASE Used(m, a, d) \/ Known(m, a, d)
        BY <4>1, <1>1, <2>2, RunningLeads
      <4>2. CASE m = n /\ a = mem /\ d = dst
        BY <4>2, <3>1
      <4> QED BY <4>1, <4>2, <3>5, <3>7, <2>1
    <3>8. UsesLead' /\ KnownLead'
      BY <3>7 DEF UsesLead, KnownLead
    <3>9. WritingSound'
      <4>1. failure' = NoFailure /\ writing'.at = mem /\ writing'.n = n /\ writing'.dst = dst
        BY <2>3, <3>1, <1>1 DEF Running
      <4>2. ASSUME NEW m \in {5, 6}, NEW d \in Targets, Used(m, mem, d)' \/ Known(m, mem, d)'
            PROVE  n = m /\ dst = d
        BY <4>2, <2>1, <3>5
      <4>3. \A m, d : /\ Used(m, writing.at, d)' => Used(m, mem, d)'
                      /\ Known(m, writing.at, d)' => Known(m, mem, d)'
        BY <4>1 DEF Used, Known
      <4> QED BY <4>1, <4>2, <4>3 DEF WritingSound
    <3>10. ChainsReachTargets'
      <4>1. ASSUME NEW hook \in saved' PROVE Leads(hook.func, 5, hook.dst)
        <5>1. CASE hook \in saved
          BY <5>1 DEF IInv, ChainsReachTargets
        <5>2. CASE hook \notin saved
          <6>1. Used(5, hook.func, hook.dst)
                /\ hook.func \in 0..(AddressEnd - 1) /\ hook.dst \in Targets
            BY <5>2, <3>2
          <6> QED BY <6>1, <1>1, RunningLeads
        <5> QED BY <5>1, <5>2
      <4> QED BY <4>1, <2>2 DEF ChainsReachTargets
    <3>11. ReachDownward'
      BY <2>3 DEF IInv, ReachDownward
    <3> QED BY <2>1, <2>2, <3>4, <3>6, <3>8, <3>9, <3>10, <3>11 DEF IInv
  <2>4. CASE ~InRange(mem - (src + n)) /\ Fail("range", mem) /\ UNCHANGED <<site, saved, writing>>
    <3>1. Types'
      BY <2>4, <1>1, <2>1 DEF Types
    <3>2. \A m, a, d : Used(m, a, d)' <=> Used(m, a, d)
      BY <2>4 DEF Used
    <3>3. UsesKept' /\ UsesLead'
      <4>1. UsesKept'
        BY <3>2, <2>1 DEF IInv, UsesKept
      <4>2. UsesLead'
        BY <3>2, <2>2, <2>4 DEF IInv, UsesLead
      <4> QED BY <4>1, <4>2
    <3>4. KnownLead' /\ WritingSound'
      BY <2>4, <1>1 DEF Running, Fail, NoFailure, KnownLead, WritingSound
    <3>5. ChainsReachTargets'
      BY <2>2, <2>4 DEF IInv, ChainsReachTargets
    <3>6. ReachDownward'
      <4>1. mem > TextEnd
        BY <2>4, <2>1, <1>1 DEF InRange
      <4> QED BY <4>1, <2>4 DEF Fail, ReachDownward
    <3> QED BY <2>1, <2>2, <3>1, <3>3, <3>4, <3>5, <3>6 DEF IInv
  <2> QED BY <1>3, <2>3, <2>4
<1> QED BY <1>2, <1>3 DEF WriteBranch

-----------------------------------------------------------------------------
\* The invariant holds throughout.
LEMMA IInvHolds == Spec => []IInv
<1>1. Init => IInv
  BY InitIInv
<1>2. IInv /\ [Next]_vars => IInv'
  <2> SUFFICES ASSUME IInv, [Next]_vars PROVE IInv'
    OBVIOUS
  <2>1. CASE FillStub
    BY <2>1, FillStubIInv
  <2>2. ASSUME NEW g \in Trampolines, Destroy(g) PROVE IInv'
    BY <2>2, DestroyIInv
  <2>3. ASSUME NEW g \in Trampolines, NEW size \in BlockSizes, AllocTrampoline(g, size)
        PROVE  IInv'
    BY <2>3, AllocTrampolineIInv
  <2>4. ASSUME NEW g \in Trampolines, NEW h \in Trampolines, Move(g, h) PROVE IInv'
    BY <2>4, MoveIInv
  <2>5. ASSUME NEW g \in Trampolines, NEW bytes \in RawSizes, Allocate(g, bytes) PROVE IInv'
    BY <2>5, AllocateIInv
  <2>6. ASSUME NEW g \in Trampolines, NEW src \in Sites, NEW dst \in Targets,
               WriteBranch(g, src, dst)
        PROVE  IInv'
    BY <2>6, WriteBranchIInv
  <2>7. CASE UNCHANGED vars
    BY <2>7, StutterIInv
  <2> QED BY <2>1, <2>2, <2>3, <2>4, <2>5, <2>6, <2>7 DEF Next
<1> QED BY <1>1, <1>2, PTL DEF Spec

\* The stubs a trampoline remembers never overlap, and lie in the part of its
\* block that is handed out (do_allocate, write_5branch, write_6branch).
THEOREM StubsNeverOverlap == Spec => []StubsDisjoint
<1>1. IInv => StubsDisjoint
  <2> SUFFICES ASSUME IInv PROVE StubsDisjoint
    OBVIOUS
  <2>1. TypeOK
    <3>1. /\ taken \subseteq 0..(Pages - 1) /\ poolUsed \in 0..PoolSize
          /\ \A a \in DOMAIN stub : a \in Address /\ stub[a] \in [n : {5, 6}, dst : Targets]
          /\ saved \subseteq [func : Address, dst : Targets]
      BY DEF IInv, Types, Address
    <3>2. ASSUME NEW g \in Trampolines
          PROVE  /\ tramp[g].data \in Address
                 /\ tramp[g].size \in 0..tramp[g].capacity
                 /\ tramp[g].data = NoMem => tramp[g] = Empty
                 /\ tramp[g].branches \in [{5, 6} -> [Targets -> Address]]
      <4>1. tramp[g] \in TrampolineRecord /\ BlockSound(g)
        BY DEF IInv, Types
      <4> QED BY <4>1, EmptyFacts DEF BlockSound, TrampolineRecord
    <3>3. ASSUME NEW src \in Sites PROVE site[src].to \in Address
      <4>1. site[src] = Unpatched
            \/ site[src] \in [n : {5, 6}, to : 0..(AddressEnd - 1), dst : Targets]
        BY DEF IInv, Types
      <4> QED BY <4>1 DEF Unpatched, Address
    <3> QED BY <3>1, <3>2, <3>3 DEF TypeOK
  <2>2. ASSUME NEW g \in Trampolines, NEW k \in {5, 6} \X Targets, NEW l \in {5, 6} \X Targets,
               CachedStub(g, k[1], k[2]) # NoMem, CachedStub(g, l[1], l[2]) # NoMem
        PROVE  /\ CachedStub(g, k[1], k[2]) >= tramp[g].data
               /\ CachedStub(g, k[1], k[2]) + StubSize(k[1]) <= tramp[g].data + tramp[g].size
               /\ CachedStub(g, k[1], k[2]) <= CachedStub(g, l[1], l[2]) /\ k # l =>
                      CachedStub(g, k[1], k[2]) + StubSize(k[1]) <= CachedStub(g, l[1], l[2])
    <3>1. /\ KnownApart(g) /\ Types
          /\ k[1] \in {5, 6} /\ k[2] \in Targets /\ l[1] \in {5, 6} /\ l[2] \in Targets
          /\ k = <<k[1], k[2]>> /\ l = <<l[1], l[2]>>
      BY DEF IInv
    <3>2. /\ tramp[g].data # NoMem /\ tramp[g].data <= CachedStub(g, k[1], k[2])
          /\ CachedStub(g, k[1], k[2]) + StubSize(k[1]) <= tramp[g].data + tramp[g].size
          /\ k # l =>
               \/ CachedStub(g, k[1], k[2]) + StubSize(k[1]) <= CachedStub(g, l[1], l[2])
               \/ CachedStub(g, l[1], l[2]) + StubSize(l[1]) <= CachedStub(g, k[1], k[2])
      BY <2>2, <3>1 DEF KnownApart
    <3>3. /\ CachedStub(g, k[1], k[2]) \in Nat /\ CachedStub(g, l[1], l[2]) \in Nat
          /\ StubSize(k[1]) \in Nat \ {0} /\ StubSize(l[1]) \in Nat \ {0}
          /\ tramp[g].data \in Nat
      BY <2>2, <3>1, <3>2, TrampolineFacts, SpaceFacts DEF StubSize
    <3> QED BY <3>2, <3>3
  <2> QED BY <2>1, <2>2 DEF StubsDisjoint
<1> QED BY <1>1, IInvHolds, PTL

\* No trampoline frees another's block, or one twice (set_trampoline, release,
\* move_from).
THEOREM BlocksStayExclusive == Spec => []BlocksExclusive
<1>1. IInv => BlocksExclusive
  <2>1. ASSUME IInv, NEW g \in Trampolines PROVE OwnedPages(g) \subseteq taken
    BY <2>1, OwnedFacts DEF IInv, BlockSound
  <2> QED BY <2>1 DEF IInv, Apart, BlocksExclusive
<1> QED BY <1>1, IInvHolds, PTL

\* Every patched call site leads for ever to the function it was last given,
\* but for the moment in which its stub is written (write_branch).
THEOREM SitesKeepTargets == Spec => []SitesReachTargets
<1>1. IInv => SitesReachTargets
  <2> SUFFICES ASSUME IInv, NEW src \in Sites, site[src] # Unpatched
               PROVE  \/ Leads(site[src].to, site[src].n, site[src].dst)
                      \/ site[src].to = writing.at /\ site[src].dst = writing.dst
    BY DEF SitesReachTargets
  <2>1. site[src] \in [n : {5, 6}, to : 0..(AddressEnd - 1), dst : Targets]
    BY DEF IInv, Types
  <2>2. Used(site[src].n, site[src].to, site[src].dst)
    BY <2>1 DEF Used
  <2>3. \/ Leads(site[src].to, site[src].n, site[src].dst)
        \/ writing = [n |-> site[src].n, at |-> site[src].to, dst |-> site[src].dst]
    BY <2>1, <2>2 DEF IInv, UsesLead
  <2> QED BY <2>3
<1> QED BY <1>1, IInvHolds, PTL

\* What write_call returned over an earlier hook leads for ever to that hook.
THEOREM ChainsKeepTargets == Spec => []ChainsReachTargets
<1>1. IInv => ChainsReachTargets
  BY DEF IInv
<1> QED BY <1>1, IInvHolds, PTL

\* Only a stub beyond the end of the code can be out of its reach (do_create).
THEOREM ReachOnlyUpward == Spec => []ReachDownward
<1>1. IInv => ReachDownward
  BY DEF IInv
<1> QED BY <1>1, IInvHolds, PTL
=============================================================================
