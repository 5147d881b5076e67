------------------------- MODULE SessionLifecycle -------------------------
(***************************************************************************)
(* What the registry of terminals promises its callers, without the tasks, *)
(* the channels and the viewers that keep the promise: a name stands for   *)
(* one session at a time, a session has one process, and the name and the  *)
(* permit come back once that process is gone.  TerminalSessions           *)
(* implements it.                                                          *)
(***************************************************************************)
EXTENDS Naturals, FiniteSets

CONSTANTS
    Names,         \* session names
    Incarnations,  \* session objects, each used once
    Commands,      \* one-off exec requests, which share the permits
    MaxExec,       \* permits
    None           \* no session, no name

\* What the theorems about the promise need of the constants: whoever implements
\* it shows it.
LifecycleAssumption ==
    /\ IsFiniteSet(Incarnations)
    /\ IsFiniteSet(Commands)
    /\ MaxExec \in Nat
    /\ None \notin Names \cup Incarnations

VARIABLES
    registry,   \* name -> the session it stands for
    title,      \* session -> its name
    phase,      \* session -> new, listed, over or released
    process,    \* session -> none, alive or dead
    finished,   \* session -> callers of close are answered
    slots,      \* free permits
    commands    \* exec requests that hold a permit

vars == <<registry, title, phase, process, finished, slots, commands>>

Init ==
    /\ registry = [n \in Names |-> None]
    /\ title = [s \in Incarnations |-> None]
    /\ phase = [s \in Incarnations |-> "new"]
    /\ process = [s \in Incarnations |-> "none"]
    /\ finished = [s \in Incarnations |-> FALSE]
    /\ slots = MaxExec
    /\ commands = {}

\* A free name and a free permit are taken together.
Enlist(s, n) ==
    /\ registry[n] = None
    /\ slots > 0
    /\ phase[s] = "new"
    /\ registry' = [registry EXCEPT ![n] = s]
    /\ title' = [title EXCEPT ![s] = n]
    /\ phase' = [phase EXCEPT ![s] = "listed"]
    /\ slots' = slots - 1
    /\ UNCHANGED <<process, finished, commands>>

Launch(s) ==
    /\ phase[s] = "listed"
    /\ process[s] = "none"
    /\ process' = [process EXCEPT ![s] = "alive"]
    /\ UNCHANGED <<registry, title, phase, finished, slots, commands>>

Die(s) ==
    /\ process[s] = "alive"
    /\ process' = [process EXCEPT ![s] = "dead"]
    /\ UNCHANGED <<registry, title, phase, finished, slots, commands>>

\* The name is free again, but only after the process.
Unlist(s) ==
    /\ phase[s] = "listed"
    /\ process[s] = "dead"
    /\ phase' = [phase EXCEPT ![s] = "over"]
    /\ registry' = [registry EXCEPT ![title[s]] = None]
    /\ UNCHANGED <<title, process, finished, slots, commands>>

Finish(s) ==
    /\ phase[s] = "over"
    /\ finished' = [finished EXCEPT ![s] = TRUE]
    /\ UNCHANGED <<registry, title, phase, process, slots, commands>>

Release(s) ==
    /\ phase[s] = "over"
    /\ finished[s]
    /\ phase' = [phase EXCEPT ![s] = "released"]
    /\ slots' = slots + 1
    /\ UNCHANGED <<registry, title, process, finished, commands>>

Borrow(k) ==
    /\ k \notin commands
    /\ slots > 0
    /\ commands' = commands \cup {k}
    /\ slots' = slots - 1
    /\ UNCHANGED <<registry, title, phase, process, finished>>

Return(k) ==
    /\ k \in commands
    /\ commands' = commands \ {k}
    /\ slots' = slots + 1
    /\ UNCHANGED <<registry, title, phase, process, finished>>

Next ==
    \/ \E s \in Incarnations :
          \/ \E n \in Names : Enlist(s, n)
          \/ Launch(s)
          \/ Die(s)
          \/ Unlist(s)
          \/ Finish(s)
          \/ Release(s)
    \/ \E k \in Commands : Borrow(k) \/ Return(k)

Spec == Init /\ [][Next]_vars

-----------------------------------------------------------------------------

Typed ==
    /\ registry \in [Names -> Incarnations \cup {None}]
    /\ title \in [Incarnations -> Names \cup {None}]
    /\ phase \in [Incarnations -> {"new", "listed", "over", "released"}]
    /\ process \in [Incarnations -> {"none", "alive", "dead"}]
    /\ finished \in [Incarnations -> BOOLEAN]
    /\ slots \in Nat
    /\ commands \in SUBSET Commands

\* A name stands for the listed session that carries it, and for no other.
Registered ==
    /\ \A n \in Names : registry[n] # None =>
          title[registry[n]] = n /\ phase[registry[n]] = "listed"
    /\ \A s \in Incarnations : phase[s] = "listed" =>
          title[s] \in Names /\ registry[title[s]] = s

\* Sessions that carry one name never have live processes at once.
Exclusive ==
    \A s, t \in Incarnations :
        process[s] = "alive" /\ process[t] = "alive" /\ title[s] = title[t]
            => s = t

\* Whoever waited for the end finds the process dead and the name free.
EndsClean ==
    \A s \in Incarnations : finished[s] =>
        process[s] = "dead" /\ \A n \in Names : registry[n] # s

\* No permit is lost and none is given back twice.
Accounting ==
    slots + Cardinality({s \in Incarnations : phase[s] \notin {"new", "released"}})
          + Cardinality(commands) = MaxExec
=============================================================================
