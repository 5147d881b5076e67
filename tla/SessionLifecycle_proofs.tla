---------------------- MODULE SessionLifecycle_proofs ----------------------
(***************************************************************************)
(* The promise of SessionLifecycle holds for any number of names, sessions *)
(* and permits.                                                            *)
(***************************************************************************)
EXTENDS SessionLifecycle, FiniteSetTheorems, TLAPS

\* A live process belongs to a listed session; a session that is over has a
\* dead one; `finished` is set for no other.
Ordered ==
    \A s \in Incarnations :
        /\ phase[s] = "new" => process[s] = "none"
        /\ phase[s] \in {"over", "released"} => process[s] = "dead"
        /\ finished[s] => phase[s] \in {"over", "released"}

Promise == Typed /\ Registered /\ Ordered

\* The inductive invariant holds at first and after every step.
LEMMA PromiseStep ==
    ASSUME LifecycleAssumption
    PROVE  Promise /\ [Next]_vars => Promise'
<1> SUFFICES ASSUME Promise, [Next]_vars
             PROVE  Promise'
    OBVIOUS
<1> USE DEF LifecycleAssumption, Promise, Typed, Registered, Ordered
<1>1. ASSUME NEW s \in Incarnations, NEW n \in Names, Enlist(s, n)
      PROVE  Promise'
    <2>1. Typed'
        BY <1>1 DEF Enlist
    <2>2. ASSUME NEW m \in Names, registry'[m] # None
          PROVE  title'[registry'[m]] = m /\ phase'[registry'[m]] = "listed"
        <3>1. CASE m = n
            BY <1>1, <3>1 DEF Enlist
        <3>2. CASE m # n
            BY <1>1, <2>2, <3>2 DEF Enlist
        <3>3. QED  BY <3>1, <3>2
    <2>3. ASSUME NEW t \in Incarnations, phase'[t] = "listed"
          PROVE  title'[t] \in Names /\ registry'[title'[t]] = t
        <3>1. CASE t = s
            BY <1>1, <3>1 DEF Enlist
        <3>2. CASE t # s
            BY <1>1, <2>3, <3>2 DEF Enlist
        <3>3. QED  BY <3>1, <3>2
    <2>4. Ordered'
        BY <1>1 DEF Enlist
    <2>5. QED  BY <2>1, <2>2, <2>3, <2>4
<1>2. ASSUME NEW s \in Incarnations, Launch(s) \/ Die(s)
      PROVE  Promise'
    <2>1. Typed' /\ Ordered'
        BY <1>2 DEF Launch, Die
    <2>2. UNCHANGED <<registry, title, phase>>
        BY <1>2 DEF Launch, Die
    <2>3. QED  BY <2>1, <2>2
<1>3. ASSUME NEW s \in Incarnations, Unlist(s)
      PROVE  Promise'
    <2>1. Typed' /\ Ordered'
        BY <1>3 DEF Unlist
    <2>2. ASSUME NEW m \in Names, registry'[m] # None
          PROVE  title'[registry'[m]] = m /\ phase'[registry'[m]] = "listed"
        BY <1>3, <2>2 DEF Unlist
    <2>3. ASSUME NEW t \in Incarnations, phase'[t] = "listed"
          PROVE  title'[t] \in Names /\ registry'[title'[t]] = t
        BY <1>3, <2>3 DEF Unlist
    <2>4. QED  BY <2>1, <2>2, <2>3
<1>4. ASSUME NEW s \in Incarnations, Finish(s) \/ Release(s)
      PROVE  Promise'
    <2>1. CASE Finish(s)
        BY <2>1 DEF Finish
    <2>2. CASE Release(s)
        <3>1. Typed' /\ Ordered'
            BY <2>2 DEF Release
        <3>2. \A t \in Incarnations : phase'[t] = "listed" <=> phase[t] = "listed"
            BY <2>2 DEF Release
        <3>3. UNCHANGED <<registry, title>>
            BY <2>2 DEF Release
        <3>4. Registered'
            BY <3>1, <3>2, <3>3
        <3>5. QED  BY <3>1, <3>4
    <2>3. QED  BY <1>4, <2>1, <2>2
<1>5. ASSUME NEW k \in Commands, Borrow(k) \/ Return(k)
      PROVE  Promise'
    BY <1>5 DEF Borrow, Return
<1>6. CASE UNCHANGED vars
    BY <1>6 DEF vars
<1>7. QED
    BY <1>1, <1>2, <1>3, <1>4, <1>5, <1>6 DEF Next

\* What callers rely on follows from the inductive invariant.
LEMMA PromiseMeans ==
    ASSUME LifecycleAssumption
    PROVE  Promise => Registered /\ Exclusive /\ EndsClean
<1> SUFFICES ASSUME Promise
             PROVE  Registered /\ Exclusive /\ EndsClean
    OBVIOUS
<1>1. Registered
    BY DEF Promise
<1>2. ASSUME NEW s \in Incarnations, process[s] = "alive"
      PROVE  phase[s] = "listed"
    BY <1>2 DEF Promise, Typed, Ordered
<1>3. Exclusive
    BY <1>1, <1>2 DEF Exclusive, Registered
<1>4. ASSUME NEW s \in Incarnations, finished[s]
      PROVE  process[s] = "dead" /\ \A n \in Names : registry[n] # s
    <2>1. phase[s] \in {"over", "released"} /\ process[s] = "dead"
        BY <1>4 DEF Promise, Ordered
    <2>2. ASSUME NEW n \in Names, registry[n] = s
          PROVE  FALSE
        BY <2>1, <2>2, <1>1 DEF LifecycleAssumption, Registered
    <2>3. QED  BY <2>1, <2>2
<1>5. QED  BY <1>1, <1>3, <1>4 DEF EndsClean

\* The name stands for the one listed session that carries it, its processes
\* never overlap, and whoever waited finds the process dead and the name free.
THEOREM PromiseKept ==
    ASSUME LifecycleAssumption
    PROVE  Spec => [](Registered /\ Exclusive /\ EndsClean)
<1>1. Init => Promise
    BY DEF LifecycleAssumption, Init, Promise, Typed, Registered, Ordered
<1>2. QED  BY <1>1, PromiseStep, PromiseMeans, PTL DEF Spec

-----------------------------------------------------------------------------

Counted == {s \in Incarnations : phase[s] \notin {"new", "released"}}

\* The permits held by sessions and by commands, and the free ones, always
\* add up to the semaphore's.
THEOREM PermitsAddUp ==
    ASSUME LifecycleAssumption
    PROVE  Spec => []Accounting
<1> DEFINE Inv == Promise /\ Accounting
<1>1. Init => Inv
    <2> SUFFICES ASSUME Init
                 PROVE  Inv
        OBVIOUS
    <2>1. Promise
        BY DEF LifecycleAssumption, Init, Promise, Typed, Registered, Ordered
    <2>2. Counted = {}
        BY DEF Init, Counted
    <2>3. QED
        BY <2>1, <2>2, FS_EmptySet
        DEF LifecycleAssumption, Init, Accounting, Counted
<1>2. Inv /\ [Next]_vars => Inv'
    <2> SUFFICES ASSUME Promise, Accounting, [Next]_vars
                 PROVE  Accounting'
        BY PromiseStep
    <2>1. IsFiniteSet(Counted) /\ IsFiniteSet(commands)
        BY FS_Subset DEF LifecycleAssumption, Counted, Promise, Typed
    <2>2. /\ Cardinality(Counted) \in Nat
          /\ Cardinality(commands) \in Nat
          /\ slots \in Nat
          /\ slots + Cardinality(Counted) + Cardinality(commands) = MaxExec
        BY <2>1, FS_CardinalityType DEF Promise, Typed, Accounting, Counted
    <2>3. SUFFICES slots' + Cardinality(Counted') + Cardinality(commands') = MaxExec
        BY DEF Accounting, Counted
    <2>4. ASSUME NEW s \in Incarnations, NEW n \in Names, Enlist(s, n)
          PROVE  slots' + Cardinality(Counted') + Cardinality(commands') = MaxExec
        <3>1. s \notin Counted /\ Counted' = Counted \cup {s}
            BY <2>4 DEF Enlist, Counted, Promise, Typed
        <3>2. slots' = slots - 1 /\ commands' = commands
            BY <2>4 DEF Enlist
        <3>3. Cardinality(Counted') = Cardinality(Counted) + 1
            BY <3>1, <2>1, FS_AddElement
        <3>4. QED  BY <3>2, <3>3, <2>2 DEF LifecycleAssumption
    <2>5. ASSUME NEW s \in Incarnations, Launch(s) \/ Die(s) \/ Finish(s)
          PROVE  slots' + Cardinality(Counted') + Cardinality(commands') = MaxExec
        <3>1. UNCHANGED <<phase, slots, commands>>
            BY <2>5 DEF Launch, Die, Finish
        <3>2. Counted' = Counted
            BY <3>1 DEF Counted
        <3>3. QED  BY <3>1, <3>2, <2>2
    <2>6. ASSUME NEW s \in Incarnations, Unlist(s)
          PROVE  slots' + Cardinality(Counted') + Cardinality(commands') = MaxExec
        <3>1. Counted' = Counted
            BY <2>6 DEF Unlist, Counted, Promise, Typed
        <3>2. UNCHANGED <<slots, commands>>
            BY <2>6 DEF Unlist
        <3>3. QED  BY <3>1, <3>2, <2>2
    <2>7. ASSUME NEW s \in Incarnations, Release(s)
          PROVE  slots' + Cardinality(Counted') + Cardinality(commands') = MaxExec
        <3>1. s \in Counted /\ Counted' = Counted \ {s}
            BY <2>7 DEF Release, Counted, Promise, Typed
        <3>2. slots' = slots + 1 /\ commands' = commands
            BY <2>7 DEF Release
        <3>3. Cardinality(Counted') = Cardinality(Counted) - 1
            BY <3>1, <2>1, FS_RemoveElement
        <3>4. QED  BY <3>2, <3>3, <2>2 DEF LifecycleAssumption
    <2>8. ASSUME NEW k \in Commands, Borrow(k)
          PROVE  slots' + Cardinality(Counted') + Cardinality(commands') = MaxExec
        <3>1. k \notin commands /\ commands' = commands \cup {k}
            BY <2>8 DEF Borrow
        <3>2. slots' = slots - 1 /\ Counted' = Counted
            BY <2>8 DEF Borrow, Counted
        <3>3. Cardinality(commands') = Cardinality(commands) + 1
            BY <3>1, <2>1, FS_AddElement
        <3>4. QED  BY <3>2, <3>3, <2>2 DEF LifecycleAssumption
    <2>9. ASSUME NEW k \in Commands, Return(k)
          PROVE  slots' + Cardinality(Counted') + Cardinality(commands') = MaxExec
        <3>1. k \in commands /\ commands' = commands \ {k}
            BY <2>9 DEF Return
        <3>2. slots' = slots + 1 /\ Counted' = Counted
            BY <2>9 DEF Return, Counted
        <3>3. Cardinality(commands') = Cardinality(commands) - 1
            BY <3>1, <2>1, FS_RemoveElement
        <3>4. QED  BY <3>2, <3>3, <2>2 DEF LifecycleAssumption
    <2>10. CASE UNCHANGED vars
        <3>1. UNCHANGED <<slots, commands>> /\ Counted' = Counted
            BY <2>10 DEF vars, Counted
        <3>2. QED  BY <3>1, <2>2
    <2>11. QED
        BY <2>4, <2>5, <2>6, <2>7, <2>8, <2>9, <2>10 DEF Next
<1>3. QED  BY <1>1, <1>2, PTL DEF Spec
=============================================================================
