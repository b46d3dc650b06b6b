---------------------------- MODULE SinkRegistry ----------------------------
(***************************************************************************)
(* What BSTEventSource (RE/Bethesda/BSTEvent.h) promises, without its      *)
(* pending lists: registering and unregistering take effect at once, even  *)
(* from inside a callback; a notification addresses the sinks registered   *)
(* when the outermost one began (the base), calls each of them at most     *)
(* once, never one that is not registered at that moment, and, unless a    *)
(* sink stops it, ends only when it has gone past all of them.             *)
(***************************************************************************)
EXTENDS Naturals, Sequences, SequencesExt

CONSTANTS
    Sources,        \* the event sources
    Sinks,          \* the event sinks
    NoSink          \* no call in progress

VARIABLES
    registered,     \* registered[src]: the sinks that want src's events
    base,           \* base[src]: the sinks the running notification addresses
    rounds          \* rounds[src]: the nested notifications, innermost last

registryVars == <<registered, base, rounds>>

\* seen: the sinks the round has called or passed over; calling: the one in
\* ProcessEvent now.
Round == [seen : SUBSET Sinks, calling : Sinks \cup {NoSink}]

RegistryInit ==
    /\ registered = [src \in Sources |-> {}]
    /\ base = [src \in Sources |-> {}]
    /\ rounds = [src \in Sources |-> <<>>]

Innermost(src) == Last(rounds[src])

SetInnermost(src, round) ==
    rounds' = [rounds EXCEPT ![src] = Append(Front(@), round)]

Register(src, s) ==
    /\ registered' = [registered EXCEPT ![src] = @ \cup {s}]
    /\ UNCHANGED <<base, rounds>>

Unregister(src, s) ==
    /\ registered' = [registered EXCEPT ![src] = @ \ {s}]
    /\ UNCHANGED <<base, rounds>>

Begin(src) ==
    /\ base' = [base EXCEPT ![src] =
                    IF rounds[src] = <<>> THEN registered[src] ELSE @]
    /\ rounds' = [rounds EXCEPT ![src] =
                    Append(@, [seen |-> {}, calling |-> NoSink])]
    /\ UNCHANGED registered

\* The next sink of the base: called if it is registered, else passed over.
Address(src, s) ==
    /\ rounds[src] # <<>>
    /\ Innermost(src).calling = NoSink
    /\ s \in base[src] \ Innermost(src).seen
    /\ SetInnermost(src,
           [seen    |-> Innermost(src).seen \cup {s},
            calling |-> IF s \in registered[src] THEN s ELSE NoSink])
    /\ UNCHANGED <<registered, base>>

Resume(src) ==
    /\ rounds[src] # <<>>
    /\ Innermost(src).calling # NoSink
    /\ SetInnermost(src, [Innermost(src) EXCEPT !.calling = NoSink])
    /\ UNCHANGED <<registered, base>>

\* The called sink unregisters itself for good and the round resumes.
Retire(src) ==
    /\ rounds[src] # <<>>
    /\ Innermost(src).calling # NoSink
    /\ registered' = [registered EXCEPT ![src] = @ \ {Innermost(src).calling}]
    /\ SetInnermost(src, [Innermost(src) EXCEPT !.calling = NoSink])
    /\ UNCHANGED base

\* A round ends because its sink said kStop, or with nobody left to address.
End(src) ==
    /\ rounds[src] # <<>>
    /\ Innermost(src).calling # NoSink \/ base[src] \subseteq Innermost(src).seen
    /\ rounds' = [rounds EXCEPT ![src] = Front(@)]
    /\ base' = [base EXCEPT ![src] = IF Len(rounds[src]) = 1 THEN {} ELSE @]
    /\ UNCHANGED registered

RegistryNext ==
    \E src \in Sources :
        \/ Begin(src) \/ Resume(src) \/ Retire(src) \/ End(src)
        \/ \E s \in Sinks :
               Register(src, s) \/ Unregister(src, s) \/ Address(src, s)

RegistrySpec == RegistryInit /\ [][RegistryNext]_registryVars
=============================================================================
