----------------------------- MODULE Trampoline -----------------------------
(***************************************************************************)
(* F4SE::Trampoline (F4SE/Trampoline.h, .cpp) and AllocTrampoline          *)
(* (F4SE/API.cpp): a block of executable memory within reach of the game's *)
(* code, handed out bump-wise as jump stubs; call sites in the game are    *)
(* patched to go through a stub to a plugin's function.  Addresses are     *)
(* numbers of a small address space that keeps the proportions of the real *)
(* one; a stub is known by its address and the function it leads to.       *)
(***************************************************************************)
EXTENDS Integers, FiniteSets, SequencesExt

CONSTANTS
    Trampolines,    \* the Trampoline objects
    Sites,          \* a_src: addresses of call sites in .text
    LengthAt,       \* LengthAt[src]: 5 or 6, the length of the call there
    Targets,        \* a_dst: the functions plugins hook in
    BlockSizes,     \* the sizes plugins ask for
    RawSizes,       \* the sizes passed to allocate() directly
    TextEnd,        \* the end of .text: the default a_module
    Reach,          \* 2^31: the reach of a rel32 displacement
    PageSize,
    Granularity,    \* SYSTEM_INFO::allocationGranularity
    Pages,          \* the number of pages of the address space
    Layouts,        \* the sets of pages that may be taken at start
    PoolBase, PoolSize,     \* F4SE's branch pool
    NoMem           \* nullptr

\* sizeof(TrampolineAssembly) for a 5-byte branch, sizeof(std::uintptr_t) for
\* the indirect 6-byte one.
StubSize(n) == IF n = 5 THEN 14 ELSE 8

AddressEnd == Pages * PageSize

PagesOf(at, size) == {p \in 0..(Pages - 1) :
    p * PageSize < at + size /\ (p + 1) * PageSize > at}

ASSUME TrampolineAssumption ==
    /\ Sites \subseteq Nat /\ TextEnd \in Nat /\ NoMem \notin Nat
    /\ \A src \in Sites : LengthAt[src] \in {5, 6} /\ src + LengthAt[src] <= TextEnd
    /\ {Reach, PageSize, Granularity, Pages} \subseteq Nat \ {0}
    /\ Granularity % PageSize = 0 /\ Granularity <= Reach
    /\ TextEnd <= AddressEnd
    /\ Layouts \subseteq SUBSET (0..(Pages - 1))
    /\ PoolBase \in Nat /\ PoolSize \in Nat
    /\ BlockSizes \subseteq Nat /\ RawSizes \subseteq Nat

\* F4SE has allocated its pool, up to the page its end is in, not too far below
\* the game's code or above it.
ASSUME PoolAssumption ==
    /\ PoolBase + PoolSize < AddressEnd
    /\ PoolBase + Reach >= TextEnd
    /\ \A layout \in Layouts : PagesOf(PoolBase, PoolSize + 1) \subseteq layout

\* The game's code is shorter than the reach.
ASSUME TextAssumption == \A src \in Sites : TextEnd < src + Reach

VARIABLES
    taken,      \* the pages that are not MEM_FREE
    poolUsed,   \* how much of the branch pool F4SE has handed out
    tramp,      \* the members of each trampoline
    stub,       \* stub[a]: the branch completed at address a
    site,       \* site[src]: the branch written over src
    saved,      \* what write_call<5> has returned over earlier hooks
    writing,    \* the stub a write_branch has not filled yet
    failure     \* why report_and_fail ended the process

trampVars == <<taken, poolUsed, tramp>>
vars == <<trampVars, stub, site, saved, writing, failure>>

-----------------------------------------------------------------------------
Empty ==
    [data |-> NoMem, capacity |-> 0, size |-> 0, owned |-> FALSE,
     branches |-> [n \in {5, 6} |-> [dst \in Targets |-> NoMem]]]

Unpatched == [n |-> 0, to |-> NoMem, dst |-> NoMem]
NotWriting == [n |-> 0, at |-> NoMem, dst |-> NoMem]
NoFailure == [why |-> "none", at |-> NoMem]

Init ==
    /\ taken \in Layouts
    /\ poolUsed = 0
    /\ tramp = [g \in Trampolines |-> Empty]
    /\ stub = <<>>
    /\ site = [src \in Sites |-> Unpatched]
    /\ saved = {}
    /\ writing = NotWriting
    /\ failure = NoFailure

Running == failure = NoFailure /\ writing = NotWriting

Fail(why, at) == failure' = [why |-> why, at |-> at]

-----------------------------------------------------------------------------
\* do_create: the search for a block near a_address.
RoundDown(a, multiple) == a - (a % multiple)
RoundUp(a, multiple) == RoundDown(a + multiple - 1, multiple)

\* Mutant: the window starts below the reach.
SearchMinRoundedDown ==
    IF TextEnd >= Reach THEN RoundDown(TextEnd - Reach, Granularity) ELSE 0

SearchMin == IF TextEnd >= Reach THEN RoundUp(TextEnd - Reach, Granularity) ELSE 0
SearchMax == IF TextEnd < AddressEnd - Reach
             THEN RoundDown(TextEnd + Reach, Granularity) ELSE AddressEnd

\* VirtualQuery at page p: the run of pages from p on in the same state.
RegionEnd(p) ==
    Min({q \in (p + 1)..Pages : q = Pages \/ (q \in taken) # (p \in taken)})

\* Where the loop queries: its first address, then every region boundary up
\* to max.
Queried ==
    LET first == SearchMin \div PageSize
    IN  {first} \cup {p \in (first + 1)..(Pages - 1) :
                        /\ (p \in taken) # ((p - 1) \in taken)
                        /\ p * PageSize < SearchMax}

\* The addresses do_create passes to VirtualAlloc, lowest first.
Candidates(size) ==
    {RoundUp(p * PageSize, Granularity) : p \in
        {p \in Queried \ taken :
            RoundUp(p * PageSize, Granularity) + size <= RegionEnd(p) * PageSize}}

\* The completed stubs outside a block that is overwritten or given back.
StubsOutside(at, size) ==
    [a \in {a \in DOMAIN stub : a < at \/ a >= at + size} |-> stub[a]]

OwnedPages(g) ==
    IF tramp[g].owned THEN PagesOf(tramp[g].data, tramp[g].capacity) ELSE {}

Within(a, g) == a # NoMem /\ a >= tramp[g].data /\ a < tramp[g].data + tramp[g].capacity

\* The discipline this asks of plugins: a trampoline that owns its block is
\* replaced or destroyed only when no call site and no saved previous target
\* leads into the block, which the code has no means to tell.
Releasable(g) ==
    tramp[g].owned =>
        /\ \A src \in Sites : ~Within(site[src].to, g)
        /\ \A hook \in saved : ~Within(hook.func, g)

-----------------------------------------------------------------------------
\* release()
Release(g) ==
    /\ taken' = taken \ OwnedPages(g)
    /\ tramp' = [tramp EXCEPT ![g] = Empty]
    /\ stub' = IF tramp[g].owned
               THEN StubsOutside(tramp[g].data, tramp[g].capacity) ELSE stub

\* Mutant: the caches of the old block survive in the new one.
SetTrampolineKeepsCaches(g, at, size, owned) ==
    /\ taken' = (taken \ OwnedPages(g)) \cup (IF owned THEN PagesOf(at, size) ELSE {})
    /\ tramp' = [tramp EXCEPT ![g] =
           [@ EXCEPT !.data = at, !.capacity = size, !.size = 0, !.owned = owned]]
    /\ stub' = [a \in (DOMAIN StubsOutside(at, size))
                   \ (IF tramp[g].owned
                      THEN tramp[g].data..(tramp[g].data + tramp[g].capacity - 1)
                      ELSE {}) |-> stub[a]]

\* set_trampoline: fill the new block with INT3, release the old one.
SetTrampoline(g, at, size, owned) ==
    /\ taken' = (taken \ OwnedPages(g)) \cup (IF owned THEN PagesOf(at, size) ELSE {})
    /\ tramp' = [tramp EXCEPT ![g] =
           [Empty EXCEPT !.data = at, !.capacity = size, !.owned = owned]]
    /\ stub' = [a \in (DOMAIN StubsOutside(at, size))
                   \ (IF tramp[g].owned
                      THEN tramp[g].data..(tramp[g].data + tramp[g].capacity - 1)
                      ELSE {}) |-> stub[a]]

\* create(): VirtualAlloc may refuse an address, which moves the search on;
\* with no address left, or a size of zero, the process ends.
Create(g, size) ==
    \/ /\ size # 0
       /\ \E at \in Candidates(size) : SetTrampoline(g, at, size, TRUE)
       /\ UNCHANGED <<poolUsed, failure>>
    \/ /\ Fail("create", NoMem)
       /\ UNCHANGED <<trampVars, stub>>

\* AllocTrampoline(): F4SE's branch pool if it has room, else create().
AllocTrampoline(g, size) ==
    /\ Running
    /\ Releasable(g)
    /\ \/ /\ poolUsed + size <= PoolSize
          /\ SetTrampoline(g, PoolBase + poolUsed, size, FALSE)
          /\ poolUsed' = poolUsed + size
          /\ UNCHANGED failure
       \/ poolUsed + size > PoolSize /\ Create(g, size)
    /\ UNCHANGED <<site, saved, writing>>

\* Mutant: a moved-from trampoline keeps its block.
MoveKeepsData(g, h) ==
    /\ Running /\ Releasable(g)
    /\ g # h
    /\ tramp' = [tramp EXCEPT ![g] = tramp[h]]
    /\ UNCHANGED <<taken, poolUsed, stub, site, saved, writing, failure>>

\* operator=(&&), move_from: h's members go to g.  g's old block is not
\* released: it stays allocated and no trampoline refers to it.
Move(g, h) ==
    /\ Running
    /\ g # h
    /\ tramp' = [tramp EXCEPT ![g] = tramp[h], ![h] = Empty]
    /\ UNCHANGED <<taken, poolUsed, stub, site, saved, writing, failure>>

\* ~Trampoline(), and a new object in its place.
Destroy(g) ==
    /\ Running
    /\ Releasable(g)
    /\ Release(g)
    /\ UNCHANGED <<poolUsed, site, saved, writing, failure>>

HasRoom(g, bytes) == tramp[g].size + bytes <= tramp[g].capacity

\* allocate(size), for code a plugin assembles itself.
Allocate(g, bytes) ==
    /\ Running
    /\ \/ /\ HasRoom(g, bytes)
          /\ tramp' = [tramp EXCEPT ![g].size = @ + bytes]
          /\ UNCHANGED failure
       \/ /\ ~HasRoom(g, bytes)
          /\ Fail("memory", NoMem)
          /\ UNCHANGED tramp
    /\ UNCHANGED <<taken, poolUsed, stub, site, saved, writing>>

InRange(disp) == -Reach <= disp /\ disp <= Reach - 1

\* safe_write over the call: the site leads to mem, and the caller gets what
\* it led to before (the five-byte call's target; the six-byte one returns
\* the address of a pointer, which nobody can jump to).
Patch(src, mem, dst) ==
    /\ site' = [site EXCEPT ![src] = [n |-> LengthAt[src], to |-> mem, dst |-> dst]]
    /\ saved' = IF LengthAt[src] = 5 /\ site[src] # Unpatched
                THEN saved \cup {[func |-> site[src].to, dst |-> site[src].dst]}
                ELSE saved
    /\ writing' = [n |-> LengthAt[src], at |-> mem, dst |-> dst]

\* Mutant: one cache of stubs for both lengths.
StubOfEitherLength(g, n, dst) ==
    IF tramp[g].branches[5][dst] # NoMem THEN tramp[g].branches[5][dst]
    ELSE tramp[g].branches[6][dst]

\* _5branches.find(a_dst) and _6branches.find(a_dst)
CachedStub(g, n, dst) == tramp[g].branches[n][dst]

\* Mutant: a cached stub still takes room, a new one none.
TakeStubNoAdvance(g, n, dst, mem) ==
    tramp' = [tramp EXCEPT ![g].branches[n][dst] = mem]

TakeStub(g, n, dst, mem) ==
    tramp' = IF CachedStub(g, n, dst) # NoMem THEN tramp
             ELSE [tramp EXCEPT ![g].branches[n][dst] = mem,
                                ![g].size = @ + StubSize(n)]

\* write_branch<N>/write_call<N> up to and including safe_write.
WriteBranch(g, src, dst) ==
    LET n      == LengthAt[src]
        cached == CachedStub(g, n, dst)
        mem    == IF cached # NoMem THEN cached ELSE tramp[g].data + tramp[g].size
    IN  /\ Running
        /\ \/ /\ cached = NoMem /\ ~HasRoom(g, StubSize(n))
              /\ Fail("memory", NoMem)
              /\ UNCHANGED <<tramp, site, saved, writing>>
           \/ /\ cached # NoMem \/ HasRoom(g, StubSize(n))
              /\ TakeStub(g, n, dst, mem)
              /\ IF InRange(mem - (src + n))
                 THEN Patch(src, mem, dst) /\ UNCHANGED failure
                 ELSE Fail("range", mem) /\ UNCHANGED <<site, saved, writing>>
        /\ UNCHANGED <<taken, poolUsed, stub>>

\* The stub itself is written last, after the site that leads to it.
FillStub ==
    /\ writing # NotWriting
    /\ stub' = [a \in DOMAIN stub \cup {writing.at} |->
           IF a = writing.at THEN [n |-> writing.n, dst |-> writing.dst] ELSE stub[a]]
    /\ writing' = NotWriting
    /\ UNCHANGED <<trampVars, site, saved, failure>>

Next ==
    \/ FillStub
    \/ \E g \in Trampolines :
        \/ Destroy(g)
        \/ \E size \in BlockSizes : AllocTrampoline(g, size)
        \/ \E h \in Trampolines : Move(g, h)
        \/ \E bytes \in RawSizes : Allocate(g, bytes)
        \/ \E src \in Sites, dst \in Targets : WriteBranch(g, src, dst)

Spec == Init /\ [][Next]_vars

-----------------------------------------------------------------------------
Address == (0..(AddressEnd - 1)) \cup {NoMem}

\* Types; in particular _size never passes _capacity, and a trampoline without
\* a block remembers no stubs.
TypeOK ==
    /\ taken \subseteq 0..(Pages - 1)
    /\ poolUsed \in 0..PoolSize
    /\ \A g \in Trampolines :
        /\ tramp[g].data \in Address
        /\ tramp[g].size \in 0..tramp[g].capacity
        /\ tramp[g].data = NoMem => tramp[g] = Empty
        /\ tramp[g].branches \in [{5, 6} -> [Targets -> Address]]
    /\ \A a \in DOMAIN stub : a \in Address /\ stub[a] \in [n : {5, 6}, dst : Targets]
    /\ \A src \in Sites : site[src].to \in Address
    /\ saved \subseteq [func : Address, dst : Targets]

\* Following address `to` with a branch of length n ends at dst.
Leads(to, n, dst) == to \in DOMAIN stub /\ stub[to] = [n |-> n, dst |-> dst]

\* Outside the window in which its own stub is being written, every patched
\* call site leads to the function it was last given: no later branch,
\* allocation, move or new block has reused or overwritten its stub.
SitesReachTargets ==
    \A src \in Sites :
        site[src] # Unpatched =>
            \/ Leads(site[src].to, site[src].n, site[src].dst)
            \/ site[src].to = writing.at /\ site[src].dst = writing.dst

\* What write_call<5> returned leads for ever to the hook it replaced:
\* a chain of hooks on one site can be followed to its end.
ChainsReachTargets ==
    \A hook \in saved : Leads(hook.func, 5, hook.dst)

\* The stubs a trampoline remembers lie in the allocated part of its block
\* and do not overlap (and everything has its type).
StubsDisjoint ==
    /\ TypeOK
    /\ \A g \in Trampolines :
        LET known == {k \in {5, 6} \X Targets : CachedStub(g, k[1], k[2]) # NoMem}
            at(k) == CachedStub(g, k[1], k[2])
        IN  /\ \A k \in known :
                   /\ at(k) >= tramp[g].data
                   /\ at(k) + StubSize(k[1]) <= tramp[g].data + tramp[g].size
            /\ \A k, l \in known :
                   at(k) <= at(l) /\ k # l => at(k) + StubSize(k[1]) <= at(l)

\* No two trampolines have the same block, so none frees a block twice or
\* frees one another's, and a block one owns is not free to VirtualAlloc.
BlocksExclusive ==
    \A g \in Trampolines :
        /\ OwnedPages(g) \subseteq taken
        /\ \A h \in Trampolines \ {g} :
               tramp[g].data # NoMem /\ tramp[h].data # NoMem =>
                   \/ tramp[g].data + tramp[g].capacity <= tramp[h].data
                   \/ tramp[h].data + tramp[h].capacity <= tramp[g].data

\* A block found below the code is within reach of all of it: a displacement
\* can be out of range only towards a stub beyond the code's end.
ReachDownward == failure.why = "range" => failure.at > TextEnd

\* F4SE/Trampoline.cpp says of the displacement check in write_5branch and
\* write_6branch: "the trampoline should already be in range, so this should
\* never happen".
NeverOutOfRange == failure.why # "range"
=============================================================================
