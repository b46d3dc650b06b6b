---------------------------- MODULE SharedMutex ----------------------------
(***************************************************************************)
(* What BSReadWriteLock (RE/Bethesda/BSLock.h) promises its callers: any   *)
(* number of readers or one writer, where the writer may open further      *)
(* scopes of either kind.  Scopes of one thread close in the reverse of    *)
(* the order they opened in, as the automatic locks do.                    *)
(***************************************************************************)
EXTENDS Naturals, Sequences

CONSTANTS
    Threads,    \* the threads that use the lock
    MaxDepth    \* bound on how deep one thread nests its lock scopes

VARIABLE
    open        \* open[t]: the modes of t's open scopes, innermost last

Modes == {"read", "write"}

Writes(t) == \E i \in 1..Len(open[t]) : open[t][i] = "write"

SharedInit == open = [t \in Threads |-> <<>>]

EnterRead(t) ==
    /\ Len(open[t]) < MaxDepth
    /\ \A u \in Threads \ {t} : ~Writes(u)
    /\ open' = [open EXCEPT ![t] = Append(@, "read")]

EnterWrite(t) ==
    /\ Len(open[t]) < MaxDepth
    /\ \A u \in Threads \ {t} : open[u] = <<>>
    /\ open[t] = <<>> \/ Writes(t)
    /\ open' = [open EXCEPT ![t] = Append(@, "write")]

Leave(t) ==
    /\ open[t] # <<>>
    /\ open' = [open EXCEPT ![t] = SubSeq(@, 1, Len(@) - 1)]

SharedNext == \E t \in Threads : EnterRead(t) \/ EnterWrite(t) \/ Leave(t)

SharedSpec == SharedInit /\ [][SharedNext]_open
=============================================================================
