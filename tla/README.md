# CommonLibF4VR in TLA+

CommonLibF4VR is a C++ library that plugins for Fallout 4 VR link against. Most
of its lines declare the layout of the game's objects and call the game's own
functions by address. This directory models the part that is a program in its
own right: the containers, locks, reference counts and registries the library
*reimplements* so that a plugin and the game can work on the same object in
memory, the trampoline that rewrites call sites of the game, and the table that
says where the game's functions are. The code is inlined into every
plugin, runs on the game's threads, and has no tests in the repository.

Paths below are relative to `src/CommonLibF4/`. `PROJECT.json` maps every
definition to its lines.

## 1. The system

| Component | State | Operations | Interaction |
|---|---|---|---|
| Locks (`include/RE/Bethesda/BSLock.h`) | two words each: owner id, count or lock word | `lock`, `try_lock`, `unlock`; the same for read and write; `BSAutoLock` scopes | embedded in event sources, extra data lists, form maps |
| Event sources (`BSTEvent.h`) | `_sinks`, `_pendingRegisters`, `_pendingUnregisters`, `_notifying`, a spin lock | `Notify`, `RegisterSink`, `UnregisterSink`; `BSTGlobalEvent` constructs and kills sources | calls every sink back while it holds its lock; sinks call in again |
| Scatter tables (`BSTHashMap.h`) | `_capacity`, `_free`, `_good`, the entry array | insert, emplace, erase, find, reserve, clear, copy, move, iteration | allocators: heap, fixed array, scrap heap; base of maps and sets |
| Trampoline (`src/F4SE/Trampoline.cpp`, `include/F4SE/Trampoline.h`) | the block, its size and use, caches of stubs by target | `create`, `set_trampoline`, `allocate`, `write_branch`, `write_call`, move, destroy | takes memory from F4SE's pool (`AllocTrampoline`) or the OS; rewrites game code |
| Extra data lists (`BSExtraData.h`) | `_head`, `_tail`, `_flags`, each extra's `next`, a read/write lock | `AddExtra`, `RemoveExtra`, `HasType`, `GetByType` | read and changed by game threads and plugins |
| Smart pointers (`BSTSmartPointer.h`, `NiSmartPointer.h`, `Scaleform/Kernel/SF_RefCount.h`) | the pointer, a count per object | construction, copy, move, `reset`, the destructors they run | objects shared between game and plugins |
| Packed counts (`Havok/hkReferencedObject.h`, `BSStringPool.h`, `BSResource/StreamBase.cpp`) | a count and other fields in one word | compare-and-swap loops; `Stream::Open` changes the same word | as above |
| Papyrus values (`BSScript/Variable.h`, `Variable.cpp`) | a tagged union | `reset`, assignments, copy, move | owns strings, objects, structs, arrays, boxes |
| Arrays, arena, list (`BSTArray.h`, `BSTObjectArena.h`, `BSTList.h`) | elements, capacity, pages and free list, nodes | insertion, erasure, growth, clear, copy, move | one thread at a time |
| Address library (`src/REL/IDDB.cpp`, `Offset2ID.cpp`) | sorted tables read at load | `id2offset`, `Offset2ID` | asked by every relocation |
| Form lookup (`TESForms.h`) | two maps, two read/write locks | `GetFormByID`, `GetFormByEditorID` | a scatter table under a read/write lock |
| Thin layers: F4SE interfaces, input map, logger, REX, memory manager | none of their own | calls through function tables | the script extender, Windows, the game's allocator |
| Game types, generated tables, offline tools | layouts, constants, files | declarations | |

What is hard in it, and is listed line by line as hazards in `PROJECT.json`:

* **Interleaving.** `unlock` of the spin lock and `unlock_write` are two or three
  separate memory accesses; readers walk an extra data list side by side; game
  threads run through a call site while it is being patched; threads drop the
  last references to an object together.
* **Re-entrance.** `Notify` iterates over `_sinks` while the sinks it calls
  register, unregister and notify the very same source, or delete themselves.
* **Arguments that are part of what a call changes.** `p = p->next`, a value
  assigned from what it keeps alive, an element of an array inserted into it.
* **Long call sequences.** A stale link in a scatter table, a tail pointer that
  is not reset, or a count that is one off shows only many calls later.
* **Limits.** A full table, a full block, the reach of a 32-bit displacement, an
  8-bit nesting counter, a count that sticks at its largest value.
* **Waiting.** A source holds its lock while it calls back, so two sources can
  wait for one another; a round that does not end blocks registrations for ever.

There is nothing to recover after a crash: none of these objects is persistent.
The process ends in `report_and_fail`, which the models keep as a final state.

What makes each component correct, in one sentence:

* locks: a mutex (a shared mutex) that its owner may take again and that is free
  exactly when the last scope has closed;
* event sources: registering and unregistering behave as if they took effect at
  once, a running loop's iterators stay valid, nobody is called after it is gone,
  every notification ends;
* scatter tables: a set of keys, whatever evictions, erasures and rehashes did;
* trampoline: a patched site, and a hook that a later one replaced, leads to its
  function for as long as the plugin runs;
* extra data lists: at most one extra of each type, found by its type, with the
  high-use types in front;
* counts: the number of references there are; what is counted dies with the last;
* Papyrus values: a variable owns what its type says, and nothing else does;
* containers: a sequence, a queue, whatever calls came before, in storage that is
  neither lost nor freed twice;
* address library: an id has the offset the file gives it, or none.

## 2. The modules

```
 abstract        RecursiveMutex     SharedMutex       SinkRegistry       ExtraMap
                      ^                  ^                 ^                ^
 detailed         SpinLock         ReadWriteLock      EventSource      ExtraDataList     Trampoline
                      ^                  ^                 ^                ^                ^
 instances            |                  |           MCEventSource   MCExtraDataList  MCTrampoline
 proofs        SpinLockProofs   ReadWriteLockProofs  EventSourceProofs  ExtraDataListProofs  TrampolineProofs

 abstract         KeySets                 ObjectQueue
                      ^                        ^
 detailed        ScatterTable   Array   SimpleList   ObjectArena   AddressLibrary
                      ^    ^      ^         ^             ^             ^
 composition          |    Containers .................................
                      |       ^
 instances  MCScatterTable  MCContainers
 proofs     ScatterTableProofs  ContainersProofs

 detailed        SmartPointers     RefWords     ScriptVariables
                   ^        ^         ^               ^
 composition       |      Ownership ...................
                   |        ^
 instances   MCScaleform  MCOwnership
 proofs            OwnershipProofs
```

An arrow from a detailed module to an abstract one is a refinement: the module
has an `INSTANCE ... WITH` and a property `Implements...`, checked by TLC and
proved. The composition is layered:
`EventSource` uses its lock only as `RecursiveMutex` (a thread inside a method
keeps all others out and may enter again), which `SpinLock` implements;
`ExtraDataList` uses its lock only as `SharedMutex`, which `ReadWriteLock`
implements; `Trampoline` takes its blocks from the operating system or from the
pool F4SE hands out in `AllocTrampoline`, both of which it models.

The parts of the last two blocks share no state. `Ownership` and `Containers`
put several of them together: a variable `subject`, chosen by the initial state,
says which part a behaviour is about; the variables of the others keep the value
`Unused`. Their properties have one conjunct for each part, under
`subject = ...`.

### SpinLock implements RecursiveMutex (`BSLock.h` 23-57, 144-175)

`owningThread` and `lockCount` are the two words. `scopes[t]` counts the
`BSAutoLock` objects a thread has alive, `pc[t]` says where it is inside `lock`
or `unlock`. `unlock()` is in the repository and is modelled access by access:
`UnlockTest` is the load that chooses the branch, `Disown` the plain store of
the owner, `FreeCount` the compare-and-swap whose result is ignored, `CountDown`
the other branch. `lock()` and `try_lock()` are game functions; they are marked
external and follow the only protocol `unlock()` can undo: a thread that reads
its own id counts up (`Reenter`), any other swaps 0 for 1 (`Seize`) and then
stores its id (`Publish`); `GiveUp` is the failing `try_lock`. Each is a step.

### ReadWriteLock implements SharedMutex (`BSLock.h` 59-142)

The same for `BSReadWriteLock`. `scopes[t]` is the sequence of modes a thread has
open, innermost last, because which unlock runs depends on it. `UnlockRead` is
`--_lock`; `UnlockWriteTest`, `Disown`, `Free`, `CountDown` are the steps of
`unlock_write()`, whose test is for exactly `0x80000001`. `WriterBit` stands for
`0x80000000`: any number above every count. Two modes may be nested inside a
write scope; a reader that asks for the write side is allowed to, and spins or
gives up. Scopes close in the reverse order of opening, as automatic locks do;
closed by hand in another order, the word is left at `0x80000000`.

### EventSource implements SinkRegistry (`BSTEvent.h` 36-126, 205-228)

`sinks`, `pendingRegisters`, `pendingUnregisters` and `notifying` are the members
of each source. `stack[t]` holds the `Notify` calls a thread is in: for each the
loop it has reached, the position and the end of the range-for, and the sink that
is in `ProcessEvent`. `request[t]` is the next call the thread will make; it waits
there while the lock is taken.

| Action | Code |
|---|---|
| `Request` | the decision of a thread, or of the sink it is calling, to make a call |
| `Notify`, `AddPending`, `BeginLoop` | entry, one turn of the loop over the pending registrations, `clear()`, `++_notifying` and the two iterators |
| `Visit`, `Continue`, `Stop` | one turn of the main loop; the two results of `ProcessEvent` |
| `Finish` and `EndLoop` | `_notifying-- == 1`, return of a nested call |
| `RemovePending`, `Leave` | one turn of the loop over the pending unregistrations, its `clear()` |
| `RegisterSink`, `UnregisterSink`, `IgnoreNull` | the short methods, a step each: they call nobody and hold the lock throughout |
| `Construct`, `Die` | the constructor and `ProcessEvent` of the source that destroys itself on the kill event |

`_notifying` keeps its width (`NotifyModulus` = 256). `SinkRegistry` has no
pending lists: `Register` and `Unregister` take effect at once, a round addresses
the sinks that were registered when the outermost one began, each at most once,
never one that is not registered, and ends early only if a sink says so. The
mapping reads its state off the code's: the registered sinks are those of `_sinks`
and the pending registrations without the pending unregistrations (`Registered`),
the base is `_sinks` while `_notifying` is not 0 (`Base`), and the rounds are the
running loops of the thread that is inside, in the order of its stack (`Rounds`).
The abstract steps are not tied to a call: that a late, skipped or double callback
is not one of them is what the refinement shows, not that a `RegisterSink` which did
nothing would be found out; `ListsConsistent` and the mapping are about what it stores.

### ScatterTable implements KeySets (`BSTHashMap.h`)

`table[t]` holds `_capacity`, `_free`, `_good` and the slots; a slot is `Vacant`
(`next == nullptr`) or a key with the index of the next slot or `Sentinel`. A
table is used by one thread at a time, so each public member is one action that
applies the operators for `do_find`, `do_insert` (`PlaceAtHome`, `SpliceBehind`,
`Evict`), `do_erase`, `get_free_entry`, `reserve`. A walk along `next` is `Chain`,
the least set of slots closed under `next` that holds the first one; the loop
that puts the entries of one array into another (rehash, copy, insertion of a
range) is a function of the slot it has come to (`InsertAll`); the capacity for
a number of entries is the least of `Capacities` that is enough. Only a caller's loop of the
form "erase some, keep others" spans several calls: `SweepBegin`, `SweepErase`,
`SweepKeep`. Values other than keys play no part in any branch and are left out.
An allocation that fails, or a size above the maximum, is `Fail`. The steps of
`KeySets` insert or remove some key, not the one a call names; that a rehash keeps
all keys is checked on the growing table of `containers`, since one of two slots
never rehashes with keys in it.

### Trampoline (`src/F4SE/Trampoline.cpp`, `include/F4SE/Trampoline.h`, `src/F4SE/API.cpp` 182-192)

Addresses are numbers of a small address space in the proportions of the real
one. `tramp[g]` holds the members; `taken` says which pages `VirtualQuery` reports
as not free; `stub` is what is in memory at the stubs that have been written;
`site[src]` is what the call site jumps to; `saved` is every previous target a
plugin got back from a hook. `Candidates` is `do_create`'s walk over the regions
around the end of `.text`, with both roundings; `VirtualAlloc` may refuse any of
them. `WriteBranch` goes as far as the patch of the call site, `FillStub` writes
the stub afterwards: the order of the code. Both kinds of failure of the code end
the process (`failure`).

### ExtraDataList implements ExtraMap (`BSExtraData.h` 796-982)

`head`, `tail`, `next` and `flags` are the members; `tail` is `Head` or the extra
whose link `_tail` points at. The extras a walk from some link meets are `Reach`,
the least set of extras closed under `next` that holds the first one: the same as
following the links, in a form that proofs can use without an induction. Writers are one step; readers take a step for each
element (`GetByType`, `Walk`), several at a time. `status` follows an extra
through its caller's hands: ready, given to the list, out of it again; `Renew`
is its owner clearing the link or building another in its place.

### SmartPointers (`BSTSmartPointer.h`, `NiSmartPointer.h`, `SF_RefCount.h`)

`library` says whose pointers they are: the game's (`"bethesda"`) or Scaleform's.
`ptr` is what each smart pointer refers to: a thread's own (`LocalsOf`) or the one
inside an object (`Member`). `count`, `alive` and `made` describe the objects.
`call[t]` is the call a thread is in (`Make`, `Copy`, `Move`, `ResetTo`, `Reset`)
with its operands, `at[t]` the access it makes next, in the order of the code:
`Detach` drops the old object and `Null` nulls the pointer, `Load` or `Store`
sets it, `Clear` nulls the one moved from, `Attach` counts the new object.
Each access is a step. A drop is the atomic decrement together with the test of
its result; when the count was one, the destructor of the object (detach its
member, then free it) comes before what the call has still to do: `dying[t]` is
the stack of the objects being destroyed, so that one assignment may destroy a
chain. `Attach` is an atomic increment in `BSTSmartPointer` and `NiPointer`; in
`Scaleform::Ptr` it is a read, kept in `sum[t]`, and a write (`WriteBack`). An
object of the game is made with a count of 0, one of Scaleform's with 1.

A caller names an operand by a *route*: one of its own pointers, or the pointer
inside an object it comes to by following pointers from one of its own, through as
many objects as there are (`Usable`; `Trails` leaves out only those that visit an
object twice, which end at the same pointer as a shorter one). `call[t]` keeps for
each operand the pointers followed to it (`toLhs`, `toRhs`). Two threads may read
one pointer at a time, but a pointer that a thread is changing (`Changed`) is
neither an operand of another nor on its way to one (`Usable`, `Changeable`).

An access of an object that is gone sets `undefined`; nothing is asserted of what
comes after it. `ThroughSelf` is the one way to it: the left-hand side is among
the pointers followed to the right-hand side, so that the old object keeps the
right-hand side, at whatever distance (`p = p->next`, `p = p->next->next`,
`a->next = a->next->next`).

### RefWords (`hkReferencedObject.h`, `BSStringPool.h`, `StreamBase.cpp`, `Stream.cpp`)

A count in one word with other fields. `kind`, which the initial state chooses,
says which of the three loops runs on it; `LeftAlone` is their early return, `Swapped` the word they put in. `Read` and
`Swap`/`Retry` are the two halves of a turn. `havok`: the count sticks at its
limit, and an object of memory size 0 (`Weightless`) is not counted. `string`: the count sticks.
`stream`: plain count, and `Open` marks the same word, through the `atomic_ref`
that is a static local and so bound to the first stream ever opened (`opened`).
What `Swap` of the last reference destroys is gone (`living`); the swap of such a
word is `wild`.

### ScriptVariables (`BSScript/Variable.h`, `Variable.cpp`)

`cell` is the type and value of every variable: the program's, the ones inside
objects, and the boxes of `kVar` values. `assignment` is the assignment being
made and `stage` its next step: `StepReset` lets go of what the old value owns,
`StepBlank` blanks it, `StepPut` and `StepCopy` store. When the last reference
goes, or a box, the object or box is put on the stack `ending`: the variable
inside it is reset first, which may put another one there, then `StepFree` frees
it. The defaulted move assignment (`MoveAssign`) overwrites without a reset:
`leaked` records that a value which owned something was lost, `freed` that a copy
read a variable that no longer exists. As with the pointers, a variable is named by
a route from one of the program's, through the objects and boxes that lie between
(`Readable`, `Writable`); `assignment` keeps the variables on it (`toOn`, `toFrom`),
and `FreedOnlyThroughTarget` says that a copy reads a freed variable only when the
route to it goes through the one assigned to. `get<Variable>` hands out a pointer
through which a box could be assigned to as well; the model only reads boxes.

### Array (`BSTArray.h`), SimpleList (`BSTList.h`)

One thread at a time uses them, so each call is an operator from arrays (heaps)
to arrays (heaps), and an action applies it to any arguments in bounds. The
property then states for every reachable state what each of these operators does
to the elements. An array's `room` is the number of elements there is room for inside it, 0 for the
heap allocators; `place` says whether the elements are inside, on
the heap or nowhere; an argument is a value of the caller's or a reference to an
element of the array (`Own`), and what a call finds there after the elements have
moved, or been freed, is `Junk`. A list's first element is in its root; nodes come
from a small set, so that a node leaked or freed twice shows.

### ObjectArena implements ObjectQueue (`BSTObjectArena.h`)

`head`, `tail`, `free`, `nextAt` (`_next`), `first` (`_begin`), `last` (`_end`)
and `size` are the members, `next` and `buffer` the pages'. `EmplaceBack` takes a
page from the free list or asks for one; `Clear` destroys one element a step
(`DestroyFirst`), returning pages as it goes; `Destroy` is the rest of the
destructor, which deletes the pages of both lists. The abstract queue has
`Put` and `DestroyFirst`; the mapping is the sequence an iterator from `begin()`
goes through when it is moved on `size()` times (`Walk`).

### AddressLibrary (`IDDB.cpp`, `Offset2ID.cpp`)

`Load` is what becomes of a file of entries in the three games; `LowerBound` is
the binary search (a recursive function), `Id2Offset` and `Offset2Id` the lookups
with their different tests. `ById` and `ByOffset` are `std::sort`: the orders in which
no entry is below one before it; entries of one offset may come in any. The initial states are all files of up to
`MaxEntries` entries, sorted or not, with any declared length.

## 3. The runs

Each run is `tlc -config <cfg> <module>`; all are exhaustive for their bounds.
Each property of a passing run has in `PROJECT.json` a mutant: a plausible error
in one definition (a dropped guard, a swapped order, a missing reset), written
beside that definition in the module, with which the run fails on that property.

| Run | Instance | Distinct states | Shows |
|---|---|---|---|
| `spinlock` | 3 threads, scopes up to 3 deep | 128 | mutual exclusion; no thread spins on its own lock; the count is exact; `ImplementsMutex` |
| `rwlock` | 3 threads, scopes up to 3 deep | 3397 | a writer is alone; it never spins on its own lock; the word is exact; `ImplementsShared` |
| `eventsource` | 2 threads, 1 source, 3 sinks of which 1 deletes itself, nesting 2 | 415 088 | `ListsConsistent`, `LoopsAgree`, `FrozenWhileNotifying`, `NoCallAfterDelete`, `ImplementsRegistry` |
| `eventsource_order` | 2 threads, 2 sources in an order, 1 sink, nesting 2, fairness | 6736 | no ring of threads waits for itself (`NoCircularWait`); the notifications of the lower source end (`NotificationsEnd`) |
| `scatter` | 2 tables of 2 slots, 3 keys | 31 774 | chains at home and disjoint (`ChainsHome`), `FreeExact`, `SweepNeverRevisits`, `ImplementsSets`, with copy, move and insertion of one table into the other |
| `trampoline` | 2 trampolines, 2 call sites, 2 functions | 1 204 066 | sites and replaced hooks reach their functions, stubs and blocks do not overlap |
| `trampoline_range` | 1 trampoline, a crowded address space | violation | a block the search accepts may be out of reach (section 6) |
| `extradata` | 2 readers, 5 extras of 4 types | 474 769 | list, bits and tail agree, high-use types in front, `ImplementsMap` |
| `extradata_last` | 1 reader, 3 extras | violation | after the last extra is removed `_tail` dangles (section 6) |
| `ownership` | smart pointers: 2 threads, 3 pointers, 2 objects; Scaleform's: 1 thread; Havok, strings, streams: 2 threads, counts to 4, 4, 6; Papyrus: 2 variables, 2 objects, 2 boxes (symmetric) | 2 734 585 | `CountsExact`, `DiesWithLastReference`, `TouchesFreedOnlyThroughSelf`, `VariablesBalanced` |
| `scaleform` | Scaleform's pointers, 2 threads | violation | an object is destroyed while a pointer refers to it (section 6) |
| `containers` | two arrays of up to 3 elements, on the heap or with room for 2 inside, two lists over 4 nodes, an arena of 3 pages of 2, all address libraries of up to 4 entries, a table of 5 keys growing from 2 slots to 4 | 111 021 | `ArraysInOrder`, `CallsDoAsNamed`, `StorageHolds`, `ArenaImplementsQueue`, `TableImplementsSets` |

`CountMatchesScopes`, `StubsDisjoint`, `CountsExact` and `FreeExact` have the type
invariant of their module as a conjunct.

**Why the bounds are enough.** A lock has at most one owner, one thread that is
entering and one that waits; three threads are all the roles at once, and depth 3
has a first, an inner and a last scope. For sources, nesting 2 has an outermost
and an inner round, and the code only tells these two apart; three sinks are one
that runs, one it acts on, and a neighbour that must not move; the second thread
is the one that is kept out. Registering and unregistering the same sink again
within one callback needs no counter: a callback may make any number of calls,
so all sequences are covered. With the two sources of `eventsource_order` one sink
registered with both is enough to be called from one inside the other. In the
growing table of `containers` the five keys have two pairs that collide, and one
that collides in two slots and not in four: an entry can be at home, spilled,
evicted, in the middle of a chain of three, and moved by a rehash to another home;
with four slots the table is full with one key left over. The two tables of
`scatter` reach the same cases but the last two, and add what one table does to
the other. Stubs take 14 or 8 bytes; a block of 24 has room for one of each, one
of 36 for three, and a raw allocation of 6 bytes can take that room away: a call
may find its stub in the cache, find room, or fail, with the caches of both
lengths in use. With five extras there are two high-use types, a plain one, and a
plain type that two extras share. The value 256 of `NotifyModulus` is the real
one; no run nests 256 calls deep.

Two objects are a chain: an object and the one its member refers to; the second
thread races for the last reference of either. The fields of the packed counts
are 4 wide, or 6, instead of 14 to 16 bits: the threads fill them, so that the
limit itself is part of the run. Two objects and two boxes nest a value in a value,
four deep; which box is which does not matter to any definition (none chooses
between them), so the run takes them as symmetric. Routes over two links, as in
`p = p->next->next`, are in the run; those over more are covered by the theorems,
which hold for any number of objects. Three elements and room for two inside have an array inside
itself, full, and moved to the heap; four nodes are a list of five, or two lists
between which all of them move; three pages of two are a first, an inner and a
last page, and every one of them comes back from the free list.

**What the properties except.** Where the code does not do what a call is named
for, the property names the case, and only that case, as an exception; each is
an observation about the code:

* an assignment whose right-hand side was reached through its left-hand side reads
  freed memory when the old value was the last to keep it: `p = p->next`,
  `p = p->next->next`, `v = *get<Variable>(v)`. `operator=` lets the old value go
  before it reads its argument (`BSTSmartPointer.h:139`, `Variable.h:48`);
* `emplace` before the end of a full array loses the last element, and an argument
  that is an element of the array is read after it moved (`BSTArray.h:446`);
* `insert` of a range keeps the order of the elements behind it only at the end or
  when there are as many as are inserted (`BSTArray.h:420`);
* `erase` returns the end of the array and not the element after the erased;
* a small array that was shrunk, or given the elements of an empty one, while it
  was empty keeps the capacity 0 whatever it holds then, and its destructor runs none
  of its elements' (`BSTArray.h:543`). More generally the capacity of an array whose
  elements are inside may stay below their number, so that `reserve(c)` with `c` between
  the two fails `assert(a_capacity >= size())` (`BSTArray.h:534`): `reserve(1)` on two
  elements with capacity 0, `reserve(2)` after three calls of `push_back` on a new
  array with room for three. Without assertions such a call does nothing, which is
  what the model says (`ReserveExact` leaves the assertion out);
* `pop_front` and `erase_after(pos)` pass `a_pos` and `++a_pos` in one call: with
  one order of evaluation nothing is erased, with the other `pop_front` of a list
  of one element runs off its end (`BSTList.h:288`);
* a list whose first element is falsy counts as empty when it has no other, and
  loses it to the next insertion in front (`BSTList.h:382`);
* outside VR, `id2offset` of an id the table does not hold answers with the next
  entry's offset; `Offset2ID` answers so everywhere (`IDDB.cpp:144`);
* a move assignment of `Variable` loses what the target owned (`Variable.h:226`).

**Deadlock.** TLC checks for it except where the system really stops: in the
scatter table and trampoline runs the process ends (`failed`, `failure`); in
`ownership` and `scaleform` a thread may have dropped all it had when no object
is left to make; in `containers` a library is loaded once, a failed table
and a list whose `pop_front` has crashed do nothing more.

**Fairness.** Safety needs none. `FairSpec` of `EventSource` has

* weak fairness of `Run(t)`, all that a running method does by itself. A method
  that is running is never disabled by another thread, since it holds the lock,
  so this says only that the scheduler runs every thread. For a thread that waits
  in `lock()` weak fairness promises only that it gets in once the lock stays
  free: a spin lock is not a queue, and nothing stronger is assumed;
* strong fairness of `Return(t)` at each depth of the stack: every `ProcessEvent`
  returns in the end. It has to be strong, and one for each depth, because a
  callback that calls `Notify` again is not continuously able to return; a weak
  one would let a callback notify for ever. That a callback returns is the
  contract of a sink, not something the library can see to.

`NotificationsEnd` is stated for the sources whose callbacks call no other source
(`SelfContained`). A callback that calls a second source may wait for its spin
lock and be overtaken by another thread without end; the notification of the
first source then does not end, and the code does not exclude it.

The loops over a packed word are lock-free but a single thread may retry for ever
while others succeed; nothing is claimed about their termination.

## 4. The theorems

TLAPS proves them for every value of the constants that satisfies the assumption
named in each module. TLC evaluates the assumptions in the runs.

**SpinLockProofs** (assuming `NoThread` is no thread and `MaxDepth > 0`):
`TypeCorrect`, `MutexSafe`, `SelfDeadlockFree`, `CountExact`, `Refines`. Mutual
exclusion alone is not inductive: a thread that has swapped the count but not yet
published its id has no scope, and one that has disowned the lock but not yet
freed it has no id. The inductive invariant adds what each program counter
implies about its thread (`LabelsAgree`), and that the threads that own the
count, those with a scope and the one about to publish, are at most one, that the
count describes it, and that the id names it except between the two writes of
`unlock()` (`OneOwner`). The last clause is the reason the order of those two
writes matters.

**ReadWriteLockProofs** (assuming finitely many threads and a writer bit above
`Cardinality(Threads) * MaxDepth`): `TypeCorrect`, `WriterIsAlone`,
`WriterNeverWaits`, `WordCounts`, `Refines`. The word counts the scopes of all
threads, so it is related to the cardinality of the set of open scopes; lemmas
say how opening and closing a scope changes that set (`OpenFacts`, `CloseFacts`).
Besides `LabelsAgree` the inductive invariant has: a writer's first scope is a
write scope and the id names exactly the writer (`WriterKnown`); a thread about
to publish finds no scope open (`EntersAlone`); the word in the three states of
the lock (`Word`). "The first scope is a write scope" is what makes the test for
`0x80000001` right: the count is 1 only when the scope that closes is that one.

**EventSourceProofs** (assuming that mortal sinks are sinks, that `NoSink` is
none, and `MaxNesting < NotifyModulus`, below which `_notifying` does not wrap):
`EventTypeCorrect`, `ListsStayConsistent`, `LoopsStayValid`, `DeletedNotCalled`,
`SinksStayFrozen`. The inductive invariant is the three checked invariants and
five more:

* `StackShape`: only a thread's innermost call is outside a callback, and the
  sinks that are calling are not ones that delete themselves;
* `RequestShape`: what a pending request still satisfies when the lock lets it in;
* `OneInside`: one thread at a time has calls of a source on its stack. With it,
  the innermost call of a thread is the only one that may change that source's
  lists (`InnermostCall`);
* `StageShape`: how far the loops over the pending lists have come: the prefix
  already taken in is in `_sinks`, the prefix already taken out is not;
* `MortalShape`: a sink that deletes itself is registered with one source at most
  and only while it is alive. `NoCallAfterDelete` depends on it: the pointer
  stays in `_sinks`, so that nobody calls it follows from its being pending
  unregistration, and stays so until no loop is left.

There is one lemma for each action (`AddPendingStep`, `BeginLoopStep`, ...), each
with a step for every conjunct the action can disturb; the operators on lists
(`AppendMissing`, `RemoveFirst`) and on the stack of frames have lemmas of their
own. `FrozenWhileNotifying` follows from the invariant: all that changes `_sinks`
does so with `_notifying` at zero.

*The order*: `OrderPreventsDeadlock`. If there is a ranking of the
sources by numbers such that the callbacks of a source call only that source or
lower ones (`Downward`), `NoCircularWait` holds, for any number of threads. Two
more invariants are needed: the sources a thread is inside go down from its
outermost call to its innermost (`StackDescends`), and a request made in a
callback is one that callback may make. In a ring of waiting threads one waits
for the lowest source; whoever is inside it is in the ring, waits for a source
other than its innermost one (its own lock it could take again), and that source
is lower still. The hypothesis is what sinks must respect: nothing in the code
enforces it, and two sources that call each other can deadlock.

*The refinement*: `SourceRefines`, that every step of `EventSource` is a step of `SinkRegistry` or
changes none of its variables, for any number of threads and any nesting, and
`AddingStaysClean`, the one invariant it needs besides: an outermost `Notify` that
takes the pending registrations in finds no unregistration pending, or a sink
that has left would be addressed. The rounds are a sequence drawn from the places
of a source's loops on a stack, so that lemmas say how such a sequence grows when
the set of places gets a new greatest member (`NthAdd`, `InOrderGrows`), and
`InsideRounds` that a step of the thread inside changes the innermost round only.
Then there is one lemma for each action (`BeginRefines`, `VisitRefines`, ...). At
`++_notifying` the base is what is registered because the loop over the pending
registrations has gone through (`StageShape`) and nothing is pending
unregistration; the sink of a turn is new to its round because `_sinks` holds no
sink twice; and `_notifying-- == 1` is the end of the last round because
`_notifying` counts the loops.

**ExtraDataListProofs** (assuming `Nil` and `Head` are no extras, and `~RemoveLast`:
callers do not take out the last extra of a list): `ExtraTypeCorrect`,
`TailAtEnd`, `FlagsAgree`, `HighUseInFront`, `AddedLinkNull` (the assertion of
`AddExtra`, which `extradata_last` refutes without that hypothesis) and
`ExtraListRefines`. The lemmas about `Reach` say how the set of linked extras
changes when one is put in front, behind, or taken out. The inductive invariant
adds that no two links lead to one extra (`NoSharing`), without which unlinking
would lose more than one; that the linked extras are exactly those whose `status`
is "given" (`StatusExact`); and that a reader on its way is at a linked extra and
has the one of the type it looks for still before it (`WalksReach`), which is the
refinement's answer.

**TrampolineProofs** (assuming `TrampolineAssumption`, `PoolAssumption`: F4SE
allocated its pool before, not too far below the code, and `TextAssumption`: the
code is shorter than the reach): `StubsNeverOverlap`, `BlocksStayExclusive`,
`SitesKeepTargets`, `ChainsKeepTargets`, `ReachOnlyUpward`. The invariant follows
the addresses that something leads to, a call site, a saved previous target or a
trampoline's cache: each is on a page that stays taken, behind everything the
pool or its trampoline has still to hand out (`Kept`), and it leads to its
function or is the stub now being written (`UsesLead`). That no two trampolines
share a page or an address (`Apart`) rests on the arithmetic of the walk in
`do_create`: a candidate is rounded to the granularity and lies on free pages only.
The same arithmetic gives `ReachOnlyUpward`.

**ScatterTableProofs** (assuming `ScatterTableAssumption`: sizes are powers of two,
hashes are numbers, the marks for "vacant" and "end" are neither): `TypesHold`,
`ChainsLeadHome`, `FreeCountExact`, `SweepGoesForward`, `TablesAreSets`, for any
number of tables and keys, any hash function and any capacity. A table is `Good`
when its members fit (`IsTable`: `_free` is the number of vacant slots), no key is
in it twice (`KeysOnce`), a link leads to an entry of the same home that is not
at its home, and no two links lead to one entry (`LinksAgree`), and every entry is
on the chain of its home (`AtHome`). `LinksAgree` is what `ChainsHome` does not say
and every operation needs: it makes the predecessor that `do_insert` and
`do_erase` walk to unique. The lemmas say what becomes of all chains when an
entry is put at its home, spliced in behind it, or moved away to make room for
another (`Added`), and when the tail of a chain is cut off or its successor is
moved into a slot (`Removed`). The loop of a rehash or a copy is treated by its
least counterexample: were it wrong at some slot, there would be a first such
slot, and one step from the slot before it is an insertion into a good table. The
sweep needs that all entries at or after the cursor are unvisited (`SweepAhead`),
which an erasure keeps although it moves an entry: into the slot under the
cursor, which the loop is about to leave, and never into one still to come. The refinement follows from what is found being
exactly the keys held (`FoundIsHeld`).

**OwnershipProofs**, on the smart pointers (assuming `ConstantsFit` of
`SmartPointers`: finitely many threads, pointers and objects, no pointer of two
threads, one thread for Scaleform's): `PointersHold`, `PointersStayCounted`, `LifetimesEnd`,
`UndefinedNeedsSelf`, the last three of them invariants of `PointersSpec`. A count
is the number of pointers to an object only between calls: during one, the pointer
whose drop has happened and whose store has not, or the other way round, is *in
flux* (`Flux`), so the invariant counts the pointers that are not
(`PointersCounted`), says where each call may be and what it holds (`CallFits`,
`LhsHeld`, `RhsHeld`, `ValueHeld`, `NewFits`, `SumFits`), and that no thread changes
a pointer another one names (`NoneShared`). What dies has no count, is on one stack once, and
its pointer is used by the thread that destroys it alone (`DyingFits`). The
argument is one of non-interference: a step of a thread changes only pointers
that are apart from the other threads (`Only`) and reaches only objects it has a
claim to (`Gentle`); two lemmas say that such a step leaves to the others all
the invariant says of them, and one lemma for each access that it keeps what the
invariant says of the thread itself. What keeps an operand alive is the route to
it: every object that an operand or a pointer on its route is in is counted for by
a pointer of that route (`LhsHeld`, `RhsHeld`), and no step but the call's own
changes these. The call's own changes the left-hand side only; so `RhsHeld` leaves
out the assignment whose route to the right-hand side goes through the left-hand
side, and that is the one exception of `UndefinedNeedsSelf`. No induction over the
length of a route is needed, since the invariant speaks of each of its pointers.

**OwnershipProofs**, on the three parts together (assuming `OwnershipAssumption`,
their constants): `OwnershipHolds`, `CountsStayExact`, `LastReferenceDestroys`,
`FreedOnlyThroughSelf`, `VariablesStayBalanced`. Its invariant has one conjunct for
each part, and a step of one part leaves the others alone.

* *Packed counts* (`WordsInv`): an object that is counted and has not stuck at its
  limit has the count of its references, one that is gone has none (`Counted`); a
  thread that raises or opens has a reference, a thread that raises has room for
  another (`LoopFits`). That a word read before is only swapped if it has not
  changed makes the step of a loop atomic. No overflow needs the limit for two of
  the kinds; a stream's field has no limit and the assumption says that it has
  room for all the references there may be.
* *Papyrus values* (`ValuesInv`): a variable that has let its value go and is not
  blanked yet is in flux and owns nothing (`CellFlux`); what is on the stack
  `ending` has no owner left and is there once (`EndingFits`); what a variable
  names exists (`NamedExist`); an object's count is at least the number of its
  owners, and exactly that if nothing has leaked (`RefFits`); a box has one owner
  (`BoxFits`). `OnHeld` and `FromHeld` say why the variable assigned to, and the
  one copied from, is still there at the end of the call: what each variable of the
  route is in is named by another of the route (`WayHeld`), and the call touches none
  of these but the target; when the target is on the route to the one copied from,
  `FreedOnlyThroughTarget` makes its exception (`ThroughTarget`).

**ContainersProofs** (assuming `ArrayAssumption`: bounds are numbers; `ListAssumption`
and `ArenaAssumption`: memory is finite, `NULL` is no node or page, `Zero` and `Hole`
are no values, a page has room for an element; `LibraryAssumption`: ids and offsets
are numbers; `TableAssumption`: that of the scatter table). `ContainersInv` has one
part for each component (`ContainersHold`). From it: `ArraysStayInOrder`,
`CallsKeepTheirNames`, `StorageStaysInOrder`, `ArenasAreQueues`, `TablesStaySets`,
which are all the properties of the run `containers`.

* *Arrays*, for any number of arrays, any values, any room inside and any length.
  The inductive invariant (`ArrayFits`) says more of where the elements are than
  `ElementsFit` does: an array without a block is the empty one, and the capacity of
  an array whose elements are inside is at most its room, or growing it past that
  room would not take the branch that moves it. One lemma for each call says which
  elements it leaves and where; what `insert`, `assign` and the moves do follows by
  comparing sequences element by element. The exceptions of `CallsAsSequences` are
  cases of the lemmas: the proof shows that there is no other. The loop of a move
  assignment is treated by its least counterexample.
* *Lists*: `Laid(h, p)` says that the nodes behind the root of list `l` are the
  sequence `p[l]`, that no node comes twice, in one list or in two, and that those
  allocated are exactly the ones that come. `SimpleList` finds the nodes by following
  `next` as often as there are nodes; since a path has no node twice it is no longer
  than that, so what is found is the path (`ChainOfPath`). `RespliceLays` says what
  becomes of a path when nodes are taken out of it and others put in their place; the
  insertions and erasures are cases of it, and `assign`, `resize` and the move are made
  of those. `RootMovedOutFacts` and `RootReplacedFacts` are
  about the first element, which is in the root and moves when a call needs its place.
* *Arena*: three ghost sequences, the pages in use `a`, the pages to be used again
  `f`, and the places of the elements `w` (`ArenaLaid`). `PagesLaid` says that the
  two are the lists from `head` and `free`, without a page in common, and that
  `_next` points into the last page in use. `PlacesLive` says that each place of `w`
  is behind the one before it (`Behind`), in the same page or at the beginning of the
  next one in use, the last just in front of `_end`, and that exactly those places
  hold something. What `operator++` needs is that it sees `_end` at no earlier place,
  also where a full page ends (`WalkIsTrail`); that follows because no place is in `w`
  twice. `EndsMeetPages` says that `_begin` is in the first page in use, never behind
  its last place, and `_end` in the last. An empty arena may keep one page, with both
  ends at the same place of it; that this place is not the end of the page is why
  `emplace_back` on a full page finds an element before it. One lemma for each
  operation carries the three over (`EmplaceOnNewPage`, `EmplaceOnLastPage`,
  `DestroyFirstLays`, `DestroyEmpties`); `PlaceAdded` and `PlaceLeft` say what that does to the queue.
* *Library*: no id is in a table twice and VR's table is sorted once it is loaded
  (`LibraryInv`). If what is below the element searched for is in front of what is
  not, there is one bound (`BoundExists`, `BoundUnique`), and `std::lower_bound` ends
  there (`LowerBoundFacts`): were there a range in which it did not, there would be a
  shortest one, and its two halves are shorter. The flat game's file is taken as it
  is, so `LookupsExact` asks that it be sorted; that the table by offsets is one is
  the sort's doing.
* *Table*: the lemmas of `ScatterTableProofs`, which hold for any sizes, taken with
  `INSTANCE` for the growing table, and the refinement of `KeySets` from them.

**Model-checked only.** `NotificationsEnd` is liveness under fairness, which the
provers cannot treat. All other properties of the passing runs are stated by a
theorem. The three violations are counterexamples of TLC.

## 5. Assumed, external, left out

Disciplines the models ask of callers, because the code does:

* automatic locks close in the reverse of the order they were opened in;
* a callback makes its calls on sources in `MayCall`; for `NoCircularWait` only,
  these respect an order;
* callbacks return, and do not throw;
* a sink that deletes itself is not registered by anybody but its constructor;
* a plugin replaces or destroys a trampoline that owns its block only when no
  call site and no saved hook leads into it (`Releasable`);
* nobody holds an iterator of a scatter table over a call that invalidates it;
* a smart pointer that a thread changes is not used by another one at the time, nor
  followed by it on the way to a pointer inside an object; a thread drops only
  references it has;
* a Papyrus value is worked on by one thread, a container too;
* an extra is added only if its type is absent and its link null, as `AddExtra`
  asserts; in `extradata`, but not in `extradata_last`, the last extra of a list
  is not removed.

External code, modelled from how the library uses it: the functions that take
the locks, `ProcessEvent`, `VirtualQuery` and `VirtualAlloc`, F4SE's branch pool,
and the release of a pooled string.

Bounds that are more than sizes: a move assignment of `Variable` overwrites one
owned value in a behaviour; a raw load file shorter than its header says is not
used (`MapBin` does not check it).

Left out: payloads (events, mapped values, the contents of extras), logging, the
log file and version checks of `F4SE::Init`, memory layout; elements with
destructors that call their own container; the block a `BSTArray` leaks when it is
move-assigned over; the versions and the hash of address library files. Not seen
by the models: a game thread that executes a call site between its patch and the
write of its stub (the window is visible as `writing` and excepted in
`SitesReachTargets`); a block released while call sites still lead into it
(`Releasable` rules it out); a caller of `AddExtra` that does not know whether the type
is there (the guard assumes the assertion); the calls that copy a `BSSimpleList`, which go
through a `begin() const` that returns nothing (`BSTList.h:220`); a 256-fold nesting of `Notify`, at which `_notifying`, an
8-bit integer, is zero inside a notification (the theorems assume
`MaxNesting < NotifyModulus`); a `ProcessEvent` that throws and leaves `_notifying`
raised; a reader's raw pointer after `GetByType` or `GetFormByID` has unlocked.

Components that are not modelled are listed in `PROJECT.json` with the reason. By
far most lines of the repository are declarations of the game's classes and
generated tables of addresses, which have no behaviour of their own; of
`BSCriticalSection` and `BSNonReentrantSpinLock` the code has members only, of
`BSTFreeList`, `BSTMessageQueue`, `BSTBTree` and the index scatter table layouts.

## 6. Where code and text disagree

1. `src/F4SE/Trampoline.cpp:173` and `:215` say of the displacement check "the
   trampoline should already be in range, so this should never happen".
   `do_create` (lines 79-118) measures its window from the *end* of `.text` in
   both directions, the displacement is measured from the call site. A block
   found near the upper end of the window is out of reach of the beginning of
   `.text`, and the process ends. Below the code the window is right
   (`ReachDownward`). Run `trampoline_range`.
2. `BSExtraData.h:854` resets `_tail` only when `*_tail` is the removed extra, but
   `_tail` is the link *behind* the last extra. After that extra has been removed
   `_tail` stays inside it and the next `AddExtra` links its extra there: the new
   extra is marked but not in the list, and the removed one does not satisfy
   `assert(a_extra->next == nullptr)` (line 799) when it is put back. Run
   `extradata_last`.
3. `Scaleform/Kernel/SF_RefCount.h:263` says that the reference count is there to
   "ensure lifetime ends with smart pointer". `AddRef` (line 37) makes an
   `atomic_ref` of the count and then increments the volatile member beside it, a
   read and a write; `Release` uses the `atomic_ref`. A count that another thread
   changes in between is lost, and the last pointer but one destroys the object.
   Run `scaleform`. With one thread (part of `ownership`) the counts are exact.

## 7. Plan

The order was that of the risk: first what several threads or callbacks do to one
object, then long sequences of calls on one thread, then pure functions. Done:
the locks and their clients, the event sources, the scatter table, the trampoline,
the extra data lists; smart pointers, packed counts, Papyrus values; arrays,
lists, the arena, the address library; the proofs of section 4, of every property
that is not liveness.

Left, in order:

* `FormLookup` as a client of `SharedMutex` and `ScatterTable`;
* elements of an arena and an array with destructors that call back in;
* `Object` and `Array` of Papyrus with their own locks and counts.

A new question replaces a shallower one before a run is added, and the whole suite
of runs takes a few minutes.
