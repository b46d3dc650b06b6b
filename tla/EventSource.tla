---------------------------- MODULE EventSource -----------------------------
(***************************************************************************)
(* BSTEventSource (RE/Bethesda/BSTEvent.h): Notify, RegisterSink and       *)
(* UnregisterSink of several sources, called by several threads and, while *)
(* a source notifies, by the sinks it is calling.  Every method holds the  *)
(* source's recursive BSSpinLock from entry to exit (see RecursiveMutex),  *)
(* so a thread that is inside Notify owns the lock for as long as it has a *)
(* frame of that source on its stack, and the two short methods, which     *)
(* call nobody, are one step.  Notify is several: one for each element of  *)
(* its three loops.                                                        *)
(***************************************************************************)
EXTENDS Naturals, Sequences, FiniteSets, SequencesExt

CONSTANTS
    Threads,
    Sources,
    Sinks,
    Mortal,         \* the sinks that unregister and delete themselves when
                    \* called (BSTGlobalEvent::EventSource)
    MayCall,        \* <<a, b>>: the sinks of a call into b while they run
    NoSink,
    NoCall,
    NotifyModulus,  \* values of _notifying: 2^8
    MaxNesting      \* bound on nested Notify calls on one source

ASSUME EventSourceAssumption ==
    /\ Mortal \subseteq Sinks
    /\ MayCall \subseteq Sources \X Sources
    /\ NoSink \notin Sinks
    /\ NotifyModulus \in Nat
    /\ MaxNesting \in 1..(NotifyModulus - 1)

VARIABLES
    sinks,                  \* _sinks, per source
    pendingRegisters,       \* _pendingRegisters
    pendingUnregisters,     \* _pendingUnregisters
    notifying,              \* _notifying
    stack,                  \* stack[t]: the Notify calls t is in
    request,                \* request[t]: the call t is about to make; a
                            \* sink of NoSink there is a null pointer
    alive                   \* the mortal sinks that are allocated

lists == <<sinks, pendingRegisters, pendingUnregisters, notifying>>
vars == <<lists, stack, request, alive>>

Ops == {"Notify", "RegisterSink", "UnregisterSink", "Construct"}

\* The three loops of Notify.
Stages == {"adding", "looping", "removing"}

\* A Notify call: the loop it is in, the element that comes next there, the
\* end() the range-for over _sinks fixed (positions are 1-based here) and
\* the sink in ProcessEvent.
Frame == [source : Sources, stage : Stages, next : Nat, end : Nat,
          sink : Sinks \cup {NoSink}]

Call == [op : Ops, source : Sources, sink : Sinks \cup {NoSink}]

-----------------------------------------------------------------------------
Init ==
    /\ sinks = [src \in Sources |-> <<>>]
    /\ pendingRegisters = [src \in Sources |-> <<>>]
    /\ pendingUnregisters = [src \in Sources |-> <<>>]
    /\ notifying = [src \in Sources |-> 0]
    /\ stack = [t \in Threads |-> <<>>]
    /\ request = [t \in Threads |-> NoCall]
    /\ alive = {}

\* The places of src's frames on t's stack, and of those past ++_notifying.
FramesOf(t, src) == {i \in DOMAIN stack[t] : stack[t][i].source = src}

LoopsOf(t, src) == {i \in FramesOf(t, src) : stack[t][i].stage = "looping"}

\* Mutant: the lock is a BSNonReentrantSpinLock.
LockFreeNonReentrant(t, src) == \A u \in Threads : FramesOf(u, src) = {}

\* BSAutoLock locker(_lock) gets through: nobody else is inside.
LockFree(t, src) == \A u \in Threads \ {t} : FramesOf(u, src) = {}

Top(t) == Last(stack[t])

SetTop(t, frame) == stack' = [stack EXCEPT ![t] = [@ EXCEPT ![Len(@)] = frame]]

Pop(t) == stack' = [stack EXCEPT ![t] = Front(@)]

In(t, stage) == stack[t] # <<>> /\ Top(t).stage = stage

InCallback(t) == stack[t] # <<>> /\ Top(t).sink # NoSink

\* std::find == end ? push_back
AppendMissing(list, s) == IF Contains(list, s) THEN list ELSE Append(list, s)

-----------------------------------------------------------------------------
\* A thread decides on its next call: at top level any, from inside a
\* callback one on a source that callback knows.
Request(t, call) ==
    /\ request[t] = NoCall
    /\ stack[t] # <<>> =>
           /\ InCallback(t)
           /\ Top(t).sink \notin Mortal
           /\ <<Top(t).source, call.source>> \in MayCall
    /\ CASE call.op = "Notify" ->
              /\ call.sink = NoSink
              /\ Cardinality(FramesOf(t, call.source)) < MaxNesting
         [] call.op = "Construct" -> call.sink \in Mortal \ alive
         [] OTHER -> call.sink \in (Sinks \ Mortal) \cup {NoSink}
    /\ request' = [request EXCEPT ![t] = call]
    /\ alive' = IF call.op = "Construct" THEN alive \cup {call.sink} ELSE alive
    /\ UNCHANGED <<lists, stack>>

\* The requested call enters its method, once the lock lets it.
Enter(t, op) ==
    /\ request[t] # NoCall
    /\ request[t].op = op
    /\ LockFree(t, request[t].source)
    /\ request' = [request EXCEPT ![t] = NoCall]

Notify(t) ==
    /\ Enter(t, "Notify")
    /\ stack' = [stack EXCEPT ![t] = Append(@,
           [source |-> request[t].source, stage |-> "adding",
            next |-> 1, end |-> 0, sink |-> NoSink])]
    /\ UNCHANGED <<lists, alive>>

\* Mutant: the pending registrations are applied by nested calls too.
ToAddAlways(t) == Top(t).next <= Len(pendingRegisters[Top(t).source])

\* An outermost call first takes in the sinks that registered during the
\* previous notification.
ToAdd(t) ==
    /\ notifying[Top(t).source] = 0
    /\ Top(t).next <= Len(pendingRegisters[Top(t).source])

AddPending(t) ==
    LET src == Top(t).source
    IN  /\ In(t, "adding")
        /\ ToAdd(t)
        /\ sinks' = [sinks EXCEPT ![src] =
               AppendMissing(@, pendingRegisters[src][Top(t).next])]
        /\ SetTop(t, [Top(t) EXCEPT !.next = @ + 1])
        /\ UNCHANGED <<pendingRegisters, pendingUnregisters, notifying, request, alive>>

\* _pendingRegisters.clear(), ++_notifying and the begin() and end() of _sinks.
BeginLoop(t) ==
    LET src == Top(t).source
    IN  /\ In(t, "adding")
        /\ ~ToAdd(t)
        /\ pendingRegisters' = [pendingRegisters EXCEPT ![src] =
               IF notifying[src] = 0 THEN <<>> ELSE @]
        /\ notifying' = [notifying EXCEPT ![src] =
               IF @ + 1 = NotifyModulus THEN 0 ELSE @ + 1]
        /\ SetTop(t, [Top(t) EXCEPT !.stage = "looping", !.next = 1,
                                    !.end = Len(sinks[src])])
        /\ UNCHANGED <<sinks, pendingUnregisters, request, alive>>

Looping(t) == In(t, "looping") /\ Top(t).sink = NoSink

\* Mutant: the loop does not look at the pending unregistrations.
VisitAnyway(t) ==
    /\ Looping(t)
    /\ Top(t).next <= Top(t).end
    /\ SetTop(t, [Top(t) EXCEPT !.next = @ + 1,
                                !.sink = sinks[Top(t).source][Top(t).next]])
    /\ UNCHANGED <<lists, request, alive>>

\* One turn of the loop up to the call: a sink that is pending
\* unregistration is passed over.
Visit(t) ==
    LET frame == Top(t)
        s     == sinks[frame.source][frame.next]
    IN  /\ Looping(t)
        /\ frame.next <= frame.end
        /\ SetTop(t, [frame EXCEPT
               !.next = @ + 1,
               !.sink = IF Contains(pendingUnregisters[frame.source], s)
                        THEN NoSink ELSE s])
        /\ UNCHANGED <<lists, request, alive>>

\* ProcessEvent returns kContinue.
Continue(t) ==
    /\ InCallback(t)
    /\ Top(t).sink \notin Mortal
    /\ request[t] = NoCall
    /\ SetTop(t, [Top(t) EXCEPT !.sink = NoSink])
    /\ UNCHANGED <<lists, request, alive>>

\* Mutant: a nested call, too, carries out the pending unregistrations.
EndLoopAlwaysRemoves(t) ==
    LET src == Top(t).source
    IN  /\ notifying' = [notifying EXCEPT ![src] = @ - 1]
        /\ SetTop(t, [Top(t) EXCEPT !.stage = "removing", !.next = 1,
                                    !.sink = NoSink])
        /\ UNCHANGED <<sinks, pendingRegisters, pendingUnregisters, request, alive>>

\* uncontended = _notifying-- == 1: a nested call returns at once.
EndLoop(t) ==
    LET src == Top(t).source
    IN  /\ notifying' = [notifying EXCEPT ![src] =
               IF @ = 0 THEN NotifyModulus - 1 ELSE @ - 1]
        /\ \/ /\ notifying[src] = 1
              /\ SetTop(t, [Top(t) EXCEPT !.stage = "removing", !.next = 1,
                                          !.sink = NoSink])
           \/ notifying[src] # 1 /\ Pop(t)
        /\ UNCHANGED <<sinks, pendingRegisters, pendingUnregisters, request, alive>>

\* The loop has run out of sinks.
Finish(t) ==
    /\ Looping(t)
    /\ Top(t).next > Top(t).end
    /\ EndLoop(t)

\* ProcessEvent returns kStop: break.
Stop(t) ==
    /\ InCallback(t)
    /\ Top(t).sink \notin Mortal
    /\ request[t] = NoCall
    /\ EndLoop(t)

\* The outermost call carries out the unregistrations that arrived meanwhile.
ToRemove(t) == Top(t).next <= Len(pendingUnregisters[Top(t).source])

RemovePending(t) ==
    LET src == Top(t).source
    IN  /\ In(t, "removing")
        /\ ToRemove(t)
        /\ sinks' = [sinks EXCEPT ![src] =
               RemoveFirst(@, pendingUnregisters[src][Top(t).next])]
        /\ SetTop(t, [Top(t) EXCEPT !.next = @ + 1])
        /\ UNCHANGED <<pendingRegisters, pendingUnregisters, notifying, request, alive>>

Leave(t) ==
    /\ In(t, "removing")
    /\ ~ToRemove(t)
    /\ pendingUnregisters' = [pendingUnregisters EXCEPT ![Top(t).source] = <<>>]
    /\ Pop(t)
    /\ UNCHANGED <<sinks, pendingRegisters, notifying, request, alive>>

\* Mutant: the body of RegisterSink leaves an earlier unregistration pending.
AddKeepsUnregister(src, s) ==
    /\ IF notifying[src] # 0
       THEN /\ pendingRegisters' = [pendingRegisters EXCEPT ![src] = AppendMissing(@, s)]
            /\ UNCHANGED sinks
       ELSE /\ sinks' = [sinks EXCEPT ![src] = AppendMissing(@, s)]
            /\ UNCHANGED pendingRegisters
    /\ UNCHANGED <<pendingUnregisters, notifying>>

\* Mutant: RegisterSink does not look for the sink before it adds it.
AddAgain(src, s) ==
    /\ IF notifying[src] # 0
       THEN /\ pendingRegisters' = [pendingRegisters EXCEPT ![src] = AppendMissing(@, s)]
            /\ UNCHANGED sinks
       ELSE /\ sinks' = [sinks EXCEPT ![src] = Append(@, s)]
            /\ UNCHANGED pendingRegisters
    /\ pendingUnregisters' = [pendingUnregisters EXCEPT ![src] = RemoveFirst(@, s)]
    /\ UNCHANGED notifying

\* The body of RegisterSink for a sink that is not null.
Add(src, s) ==
    /\ IF notifying[src] # 0
       THEN /\ pendingRegisters' = [pendingRegisters EXCEPT ![src] = AppendMissing(@, s)]
            /\ UNCHANGED sinks
       ELSE /\ sinks' = [sinks EXCEPT ![src] = AppendMissing(@, s)]
            /\ UNCHANGED pendingRegisters
    /\ pendingUnregisters' = [pendingUnregisters EXCEPT ![src] = RemoveFirst(@, s)]
    /\ UNCHANGED notifying

\* The body of UnregisterSink for a sink that is not null.
Drop(src, s) ==
    /\ IF notifying[src] # 0
       THEN /\ pendingUnregisters' = [pendingUnregisters EXCEPT ![src] = AppendMissing(@, s)]
            /\ UNCHANGED sinks
       ELSE /\ sinks' = [sinks EXCEPT ![src] = RemoveFirst(@, s)]
            /\ UNCHANGED pendingUnregisters
    /\ pendingRegisters' = [pendingRegisters EXCEPT ![src] = RemoveFirst(@, s)]
    /\ UNCHANGED notifying

\* Mutant: no test for null.
NullUntested(t) == FALSE

\* if (!a_sink)
NullSink(t) ==
    /\ request[t] # NoCall
    /\ request[t].op \in {"RegisterSink", "UnregisterSink"}
    /\ request[t].sink = NoSink

\* RegisterSink(nullptr) and UnregisterSink(nullptr) return before they lock.
IgnoreNull(t) ==
    /\ NullSink(t)
    /\ request' = [request EXCEPT ![t] = NoCall]
    /\ UNCHANGED <<lists, stack, alive>>

RegisterSink(t) ==
    /\ ~NullSink(t)
    /\ Enter(t, "RegisterSink")
    /\ Add(request[t].source, request[t].sink)
    /\ UNCHANGED <<stack, alive>>

UnregisterSink(t) ==
    /\ ~NullSink(t)
    /\ Enter(t, "UnregisterSink")
    /\ Drop(request[t].source, request[t].sink)
    /\ UNCHANGED <<stack, alive>>

\* EventSource(KillSDMEventSource*): the constructor registers the object.
Construct(t) ==
    /\ Enter(t, "Construct")
    /\ Add(request[t].source, request[t].sink)
    /\ UNCHANGED <<stack, alive>>

\* ProcessEvent(const KillSDMEvent&): unregister, delete this, kContinue.
Die(t) ==
    /\ InCallback(t)
    /\ Top(t).sink \in Mortal
    /\ Drop(Top(t).source, Top(t).sink)
    /\ alive' = alive \ {Top(t).sink}
    /\ SetTop(t, [Top(t) EXCEPT !.sink = NoSink])
    /\ UNCHANGED request

\* What t does once it has decided; Return(t) is the end of a callback.
Return(t) == Continue(t) \/ Stop(t)

Run(t) ==
    \/ Notify(t) \/ AddPending(t) \/ BeginLoop(t) \/ Visit(t) \/ Die(t)
    \/ Finish(t) \/ RemovePending(t) \/ Leave(t)
    \/ RegisterSink(t) \/ UnregisterSink(t) \/ IgnoreNull(t) \/ Construct(t)

Next ==
    \E t \in Threads :
        \/ \E call \in Call : Request(t, call)
        \/ Run(t)
        \/ Return(t)

Spec == Init /\ [][Next]_vars

\* A running method finishes its steps; ProcessEvent, at whatever depth of
\* the stack it was called, returns in the end.  A waiting lock() is only
\* weakly fair: it must get in once the lock stays free.
MaxDepth == MaxNesting * Cardinality(Sources)

Fairness ==
    /\ \A t \in Threads : WF_vars(Run(t))
    /\ \A t \in Threads, d \in 1..MaxDepth :
           SF_vars(Len(stack[t]) = d /\ Return(t))

FairSpec == Spec /\ Fairness

-----------------------------------------------------------------------------
\* Types; in particular no null pointer gets into a list of sinks.
TypeOK ==
    /\ sinks \in [Sources -> Seq(Sinks)]
    /\ pendingRegisters \in [Sources -> Seq(Sinks)]
    /\ pendingUnregisters \in [Sources -> Seq(Sinks)]
    /\ notifying \in [Sources -> 0..(NotifyModulus - 1)]
    /\ stack \in [Threads -> Seq(Frame)]
    /\ request \in [Threads -> Call \cup {NoCall}]
    /\ alive \subseteq Mortal

\* No list of a source holds a sink twice (so that erasing the one std::find
\* returns removes it), and no sink waits both to come and to go: the last of
\* several RegisterSink and UnregisterSink calls inside one notification wins.
ListsConsistent ==
    \A src \in Sources :
        /\ IsInjective(sinks[src])
        /\ IsInjective(pendingRegisters[src])
        /\ IsInjective(pendingUnregisters[src])
        /\ ToSet(pendingRegisters[src]) \cap ToSet(pendingUnregisters[src]) = {}

\* The range-for of every Notify that is running, however deeply nested, still
\* runs over the list it took its begin() and end() from, and _notifying
\* counts exactly those calls; an unregistration waits only while one runs.
LoopsAgree ==
    \A src \in Sources :
        /\ \A t \in Threads : \A i \in LoopsOf(t, src) :
               stack[t][i].end = Len(sinks[src])
        /\ \A t \in Threads :
               FramesOf(t, src) # {} => notifying[src] = Cardinality(LoopsOf(t, src))
        /\ (\A t \in Threads : FramesOf(t, src) = {})
               => notifying[src] = 0 /\ pendingUnregisters[src] = <<>>

\* While some Notify runs _sinks keeps every element in its place: neither a
\* callback nor a nested Notify moves what the loop's iterators point into.
FrozenWhileNotifying ==
    [][\A src \in Sources :
           notifying[src] > 0 /\ notifying'[src] > 0 => sinks'[src] = sinks[src]]_vars

\* A sink that deletes itself when called is never called after it is gone,
\* though its pointer stays in _sinks until the outermost Notify returns.
NoCallAfterDelete ==
    \A t \in Threads : InCallback(t) /\ Top(t).sink \in Mortal => Top(t).sink \in alive

\* Threads that wait for each other's locks, directly or in a ring, would
\* wait forever.  With a recursive lock and callbacks that respect an order
\* of the sources there is no such ring.
Waiting(t) == request[t] # NoCall /\ ~NullSink(t) /\ ~LockFree(t, request[t].source)

NoCircularWait ==
    \A ring \in (SUBSET Threads) \ {{}} :
        \E t \in ring :
            \/ ~Waiting(t)
            \/ \E u \in Threads \ ring : FramesOf(u, request[t].source) # {}

\* Every notification comes to an end, callbacks that notify again included,
\* and takes the unregistrations made meanwhile with it.  It is asked of the
\* sources whose callbacks call no other one: a thread that waits for another
\* source's spin lock may lose it to a third time and again.
SelfContained == {src \in Sources : \A c \in MayCall : c[1] = src => c[2] = src}

NotificationsEnd ==
    \A src \in SelfContained : notifying[src] > 0 ~> notifying[src] = 0

-----------------------------------------------------------------------------
\* Refinement: the pending lists are an implementation of registering and
\* unregistering at once.
Registered ==
    [src \in Sources |->
        (ToSet(sinks[src]) \cup ToSet(pendingRegisters[src]))
            \ ToSet(pendingUnregisters[src])]

Base == [src \in Sources |-> IF notifying[src] = 0 THEN {} ELSE ToSet(sinks[src])]

RoundOf(frame) ==
    [seen    |-> {sinks[frame.source][i] : i \in 1..(frame.next - 1)},
     calling |-> frame.sink]

\* The members of a set of numbers, smallest first.
Ascending[places \in SUBSET Nat] ==
    [k \in 1..Cardinality(places) |->
        CHOOSE i \in places : Cardinality({j \in places : j <= i}) = k]

\* The rounds t has begun on src, outermost first.
RoundsOf(t, src) ==
    [k \in 1..Cardinality(LoopsOf(t, src)) |->
        RoundOf(stack[t][Ascending[LoopsOf(t, src)][k]])]

Rounds ==
    [src \in Sources |->
        IF notifying[src] = 0 THEN <<>>
        ELSE RoundsOf(CHOOSE t \in Threads : LoopsOf(t, src) # {}, src)]

Registry == INSTANCE SinkRegistry
    WITH registered <- Registered, base <- Base, rounds <- Rounds

\* A source with pending lists and nested, interleaved calls behaves as a
\* registry in which every call takes effect at once: no registered sink is
\* skipped, none is called twice in a round or while it is unregistered.
ImplementsRegistry == Registry!RegistrySpec
=============================================================================
