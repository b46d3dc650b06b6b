--------------------------- MODULE SpinLockProofs ---------------------------
(***************************************************************************)
(* Mutual exclusion of BSSpinLock for any number of threads and any        *)
(* nesting bound, and that it implements RecursiveMutex.                   *)
(***************************************************************************)
EXTENDS SpinLock, TLAPS

\* The threads that own a non-zero count: those inside a scope, and the one
\* that has swapped the count to 1 but not yet published its id.
Owns(t) == scopes[t] > 0 \/ pc[t] = "publish"

\* What each program counter says of the thread that is there.
LabelsAgree ==
    \A t \in Threads :
        /\ pc[t] \in {"spin", "publish"} => scopes[t] = 0
        /\ pc[t] = "reenter" => scopes[t] > 0 /\ scopes[t] < MaxDepth
        /\ pc[t] \in {"disown", "free"} => scopes[t] = 1
        /\ pc[t] = "countdown" => scopes[t] > 1

\* One owner at most, and the two words of the lock describe it.
OneOwner ==
    /\ \A t, u \in Threads : Owns(t) /\ Owns(u) => t = u
    /\ \A t \in Threads : pc[t] = "publish" => lockCount = 1
    /\ \A t \in Threads : scopes[t] > 0 => lockCount = scopes[t]
    /\ (\A t \in Threads : ~Owns(t)) => lockCount = 0
    /\ \A t \in Threads : owningThread = t => scopes[t] > 0 /\ pc[t] # "free"
    /\ \A t \in Threads :
           scopes[t] > 0 /\ pc[t] # "free" => owningThread = t

\* The inductive invariant.
IInv == TypeOK /\ LabelsAgree /\ OneOwner

USE SpinLockAssumption DEF Labels, Owns, Goto

\* The initial state satisfies the inductive invariant.
LEMMA InitIInv == Init => IInv
  BY DEF Init, IInv, TypeOK, LabelsAgree, OneOwner

\* Every step of lock(), try_lock() and unlock() preserves it.
LEMMA NextIInv == IInv /\ [Next]_vars => IInv'
<1> SUFFICES ASSUME IInv, [Next]_vars PROVE IInv'
  OBVIOUS
<1> USE DEF IInv, TypeOK, LabelsAgree, OneOwner
<1>1. ASSUME NEW t \in Threads, Lock(t) PROVE IInv'
  BY <1>1 DEF Lock
<1>2. ASSUME NEW t \in Threads, Reenter(t) PROVE IInv'
  BY <1>2 DEF Reenter
<1>3. ASSUME NEW t \in Threads, Seize(t) PROVE IInv'
  BY <1>3 DEF Seize
<1>4. ASSUME NEW t \in Threads, GiveUp(t) PROVE IInv'
  BY <1>4 DEF GiveUp
<1>5. ASSUME NEW t \in Threads, Publish(t) PROVE IInv'
  BY <1>5 DEF Publish
<1>6. ASSUME NEW t \in Threads, UnlockTest(t) PROVE IInv'
  BY <1>6 DEF UnlockTest
<1>7. ASSUME NEW t \in Threads, Disown(t) PROVE IInv'
  BY <1>7 DEF Disown
<1>8. ASSUME NEW t \in Threads, FreeCount(t) PROVE IInv'
  BY <1>8 DEF FreeCount
<1>9. ASSUME NEW t \in Threads, CountDown(t) PROVE IInv'
  BY <1>9 DEF CountDown
<1>10. CASE UNCHANGED vars
  BY <1>10 DEF vars
<1> QED
  BY <1>1, <1>2, <1>3, <1>4, <1>5, <1>6, <1>7, <1>8, <1>9, <1>10 DEF Next, Step

\* Every reachable state satisfies the inductive invariant.
LEMMA SpecIInv == Spec => []IInv
<1>1. Init => IInv
  BY InitIInv
<1>2. IInv /\ [Next]_vars => IInv'
  BY NextIInv
<1> QED
  BY <1>1, <1>2, PTL DEF Spec

\* The state of the lock and of its callers always has its type: the count in
\* particular never drops below zero.
THEOREM TypeCorrect == Spec => []TypeOK
<1>1. IInv => TypeOK
  BY DEF IInv
<1> QED
  BY <1>1, SpecIInv, PTL

\* Two threads never have a scope on the lock at the same time.
THEOREM MutexSafe == Spec => []MutualExclusion
<1>1. IInv => MutualExclusion
  BY DEF IInv, OneOwner, MutualExclusion
<1> QED
  BY <1>1, SpecIInv, PTL

\* No thread ever spins on a lock it has a scope on.
THEOREM SelfDeadlockFree == Spec => []NoSelfDeadlock
<1>1. IInv => NoSelfDeadlock
  BY DEF IInv, TypeOK, LabelsAgree, NoSelfDeadlock
<1> QED
  BY <1>1, SpecIInv, PTL

\* The count is the number of open scopes, and a lock nobody holds is free.
THEOREM CountExact == Spec => []CountMatchesScopes
<1>1. IInv => CountMatchesScopes
  BY DEF IInv, TypeOK, LabelsAgree, OneOwner, CountMatchesScopes
<1> QED
  BY <1>1, SpecIInv, PTL

-----------------------------------------------------------------------------
\* Refinement.

\* The refinement mapping names the one thread inside, when there is one.
LEMMA HolderIs ==
  ASSUME IInv, NEW t \in Threads, scopes[t] > 0
  PROVE  Holder = t /\ Nesting = scopes[t]
  BY DEF IInv, OneOwner, Holder, Nesting, Holding

LEMMA HolderNone ==
  ASSUME \A t \in Threads : ~(scopes[t] > 0)
  PROVE  Holder = NoThread /\ Nesting = 0
  BY DEF Holder, Nesting, Holding

\* A step of the code is a step of the mutex exactly when it opens or closes
\* a scope; every other access is a stuttering step.
LEMMA StepRefines ==
  IInv /\ IInv' /\ [Next]_vars => [Mutex!MutexNext]_<<Holder, Nesting>>
<1> SUFFICES ASSUME IInv, IInv', [Next]_vars
             PROVE  Mutex!MutexNext \/ (Holder' = Holder /\ Nesting' = Nesting)
  BY DEF Mutex!mutexVars
<1>1. ASSUME scopes' = scopes PROVE Holder' = Holder /\ Nesting' = Nesting
  BY <1>1 DEF Holder, Nesting, Holding
<1>2. ASSUME NEW t \in Threads, scopes[t] < MaxDepth,
             \A u \in Threads : scopes[u] > 0 => u = t,
             scopes' = [scopes EXCEPT ![t] = @ + 1]
      PROVE  Mutex!Acquire(t)
  <2>1. scopes'[t] = scopes[t] + 1 /\ scopes'[t] > 0 /\ scopes[t] \in Nat
    BY <1>2 DEF IInv, TypeOK
  <2>2. Holder' = t /\ Nesting' = scopes[t] + 1
    <3>1. \A u \in Threads : scopes'[u] > 0 => u = t
      BY <1>2 DEF IInv, TypeOK
    <3> QED
      BY <2>1, <3>1 DEF Holder, Nesting, Holding
  <2>3. CASE scopes[t] > 0
    BY <1>2, <2>1, <2>2, <2>3, HolderIs DEF Mutex!Acquire
  <2>4. CASE ~(scopes[t] > 0)
    BY <1>2, <2>1, <2>2, <2>4, HolderNone DEF Mutex!Acquire
  <2> QED
    BY <2>3, <2>4
<1>3. ASSUME NEW t \in Threads, scopes[t] > 0,
             scopes' = [scopes EXCEPT ![t] = @ - 1]
      PROVE  Mutex!Release(t)
  <2>1. Holder = t /\ Nesting = scopes[t] /\ scopes[t] \in Nat
    BY <1>3, HolderIs DEF IInv, TypeOK
  <2>2. \A u \in Threads : scopes'[u] > 0 => u = t
    BY <1>3 DEF IInv, TypeOK, OneOwner
  <2>3. scopes'[t] = scopes[t] - 1
    BY <1>3 DEF IInv, TypeOK
  <2>4. CASE scopes[t] = 1
    BY <2>1, <2>2, <2>3, <2>4 DEF Holder, Nesting, Holding, Mutex!Release
  <2>5. CASE scopes[t] # 1
    BY <1>3, <2>1, <2>2, <2>3, <2>5 DEF Holder, Nesting, Holding, Mutex!Release
  <2> QED
    BY <2>4, <2>5
<1>4. ASSUME NEW t \in Threads, Step(t)
      PROVE  \/ scopes' = scopes
             \/ Mutex!Acquire(t) \/ Mutex!Release(t)
  <2>1. ASSUME Reenter(t) \/ Publish(t) PROVE Mutex!Acquire(t)
    <3>1. Owns(t) /\ scopes[t] < MaxDepth
      BY <2>1 DEF Reenter, Publish, IInv, TypeOK, LabelsAgree
    <3>2. \A u \in Threads : scopes[u] > 0 => u = t
      BY <3>1 DEF IInv, OneOwner
    <3>3. scopes' = [scopes EXCEPT ![t] = @ + 1]
      BY <2>1 DEF Reenter, Publish
    <3> QED
      BY <3>1, <3>2, <3>3, <1>2
  <2>2. ASSUME FreeCount(t) \/ CountDown(t) PROVE Mutex!Release(t)
    <3>1. scopes[t] > 0
      BY <2>2 DEF FreeCount, CountDown, IInv, TypeOK, LabelsAgree
    <3>2. scopes' = [scopes EXCEPT ![t] = @ - 1]
      BY <2>2 DEF FreeCount, CountDown
    <3> QED
      BY <3>1, <3>2, <1>3
  <2> QED
    BY <1>4, <2>1, <2>2
       DEF Step, Lock, Seize, GiveUp, UnlockTest, Disown
<1> QED
  BY <1>1, <1>4 DEF Next, vars, Mutex!MutexNext

\* BSSpinLock implements the recursive mutex the event sources rely on.
THEOREM Refines == Spec => ImplementsMutex
<1>1. Init => Mutex!MutexInit
  BY HolderNone DEF Init, Mutex!MutexInit
<1>2. IInv /\ IInv' /\ [Next]_vars => [Mutex!MutexNext]_(Mutex!mutexVars)
  BY StepRefines DEF Mutex!mutexVars
<1> QED
  BY <1>1, <1>2, SpecIInv, PTL DEF Spec, ImplementsMutex, Mutex!MutexSpec
=============================================================================
