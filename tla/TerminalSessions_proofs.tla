---------------------- MODULE TerminalSessions_proofs ----------------------
(***************************************************************************)
(* Theorems about TerminalSessions, for any number of names, users,        *)
(* clients and session objects and any capacities.                         *)
(***************************************************************************)
EXTENDS TerminalSessions, FiniteSetTheorems, TLAPS

-----------------------------------------------------------------------------
(***************************************************************************)
(* Type correctness                                                        *)
(***************************************************************************)

\* A request offered to the input channel never exceeds its capacity.
LEMMA OfferType ==
    ASSUME TypeOK, NEW s
    PROVE  Offer(s) \in [Incarnations -> 0..InputCap]
<1>1. CASE InputOpen(s) /\ input[s] < InputCap
    <2>1. ASSUME NEW t \in Incarnations
          PROVE  [input EXCEPT ![s] = @ + 1][t] \in 0..InputCap
        BY <1>1, SessionAssumption DEF TypeOK
    <2>2. QED  BY <1>1, <2>1 DEF Offer, TypeOK
<1>2. CASE ~(InputOpen(s) /\ input[s] < InputCap)
    BY <1>2 DEF Offer, TypeOK
<1>3. QED  BY <1>1, <1>2

\* Every step of a client's RPC keeps the types.
LEMMA ClientTypes ==
    ASSUME TypeOK, NEW c \in Clients, ClientStep(c)
    PROVE  TypeOK'
<1> USE SessionAssumption
    DEF TypeOK, OwnerStates, WorkerStates, ClientStates, Move, registryVars,
        ownerVars, workerVars, publishVars, clientVars
<1>1. ASSUME NEW n \in Names, NEW u \in Users, NEW s \in Incarnations,
             StartPrepare(c, s, n, u)
      PROVE  TypeOK'
    BY <1>1 DEF StartPrepare, Enlist
<1>2. ASSUME NEW n \in Names, NEW u \in Users, NEW s \in Incarnations,
             AttachFounds(c, s, n, u)
      PROVE  TypeOK'
    BY <1>2 DEF AttachFounds, Enlist
<1>3. ASSUME NEW n \in Names, NEW u \in Users, AttachJoins(c, n, u)
      PROVE  TypeOK'
    BY <1>3 DEF AttachJoins
<1>4. ASSUME NEW n \in Names, CloseFinds(c, n) \/ SendFinds(c, n)
      PROVE  TypeOK'
    BY <1>4, SMTT(30) DEF CloseFinds, SendFinds
<1>5. CASE StartSpawn(c) \/ AttachSpawn(c)
    <2>1. CASE StartSpawn(c)
        BY <2>1 DEF StartSpawn, SpawnOwner
    <2>2. CASE AttachSpawn(c)
        BY <2>2 DEF AttachSpawn, SpawnOwner
    <2>3. QED  BY <1>5, <2>1, <2>2
<1>6. CASE StartReturns(c)
    BY <1>6 DEF StartReturns
<1>7. CASE Subscribe(c)
    <2>1. /\ pc' \in [Clients -> ClientStates]
          /\ viewed' \in [Clients -> 0..ViewerCap]
        BY <1>7, SMTT(30) DEF Subscribe
    <2>2. input' \in [Incarnations -> 0..InputCap]
        BY <1>7, OfferType DEF Subscribe
    <2>3. /\ outputs' \in [Incarnations -> SUBSET Clients]
          /\ reader' \in [Clients -> BOOLEAN]
        BY <1>7, ZenonT(30) DEF Subscribe
    <2>4. UNCHANGED <<registryVars, ownerVars, worker, queue, final, pending,
                      sending, target, told>>
        BY <1>7 DEF Subscribe
    <2>5. QED  BY <2>1, <2>2, <2>3, <2>4
<1>8. ASSUME DropReceiver(c), UNCHANGED <<registryVars, ownerVars, workerVars>>
      PROVE  TypeOK'
    BY <1>8 DEF DropReceiver
<1>9. CASE ViewerReads(c)
    <2>1. CASE told[c] /\ viewed[c] = 1
        BY <1>8, <1>9, <2>1 DEF ViewerReads
    <2>2. CASE ~(told[c] /\ viewed[c] = 1)
        BY <1>9, <2>2 DEF ViewerReads
    <2>3. QED  BY <2>1, <2>2
<1>10. CASE StreamEnds(c)
    BY <1>8, <1>10 DEF StreamEnds
<1>11. CASE AttachmentForwards(c)
    <2>1. input' = Offer(target[c])
        BY <1>11 DEF AttachmentForwards, Offer
    <2>2. input' \in [Incarnations -> 0..InputCap]
        BY <2>1, OfferType
    <2>3. UNCHANGED <<registryVars, ownerVars, worker, queue, final,
                      publishVars, clientVars>>
        BY <1>11 DEF AttachmentForwards
    <2>4. QED  BY <2>2, <2>3
<1>12. CASE AttachmentBreaks(c)
    BY <1>12 DEF AttachmentBreaks
<1>13. CASE Vanish(c)
    BY <1>13 DEF Vanish
<1>14. CASE ConnectionEnds(c)
    BY <1>8, <1>14 DEF ConnectionEnds
<1>15. CASE CloseNotifies(c)
    BY <1>15 DEF CloseNotifies
<1>16. CASE CloseReturns(c)
    BY <1>16 DEF CloseReturns
<1>17. CASE SendReturns(c)
    BY <1>17, OfferType DEF SendReturns
<1>18. QED
    BY <1>1, <1>2, <1>3, <1>4, <1>5, <1>6, <1>7, <1>9, <1>10, <1>11, <1>12,
       <1>13, <1>14, <1>15, <1>16, <1>17 DEF ClientStep
\* Every step of an owner task keeps the types.
LEMMA OwnerTypes ==
    ASSUME TypeOK, NEW s \in Incarnations, OwnerStep(s)
    PROVE  TypeOK'
<1> USE SessionAssumption
    DEF TypeOK, OwnerStates, WorkerStates, ClientStates, Owner, registryVars,
        ownerVars, workerVars, publishVars, clientVars
<1>1. CASE OwnerHearsClose(s)
    BY <1>1 DEF OwnerHearsClose
<1>2. CASE Heartbeat(s)
    BY <1>2, OfferType DEF Heartbeat
<1>3. CASE OwnerReceives(s)
    <2>1. input' \in [Incarnations -> 0..InputCap]
        BY <1>3, OfferType DEF OwnerReceives
    <2>2. /\ queue' \in [Incarnations -> 0..WorkerCap]
          /\ pending' \in [Incarnations -> SUBSET Clients]
          /\ owner' \in [Incarnations -> OwnerStates]
        BY <1>3 DEF OwnerReceives
    <2>3. UNCHANGED <<registryVars, bell, finished, worker, final, outputs,
                      sending, clientVars>>
        BY <1>3 DEF OwnerReceives
    <2>4. QED  BY <2>1, <2>2, <2>3
<1>4. CASE OwnerSeesEnd(s)
    BY <1>4 DEF OwnerSeesEnd
<1>5. CASE PickViewer(s)
    BY <1>5 DEF PickViewer
<1>6. CASE SendToViewer(s)
    BY <1>6 DEF SendToViewer
<1>7. CASE PublishReturns(s)
    BY <1>7 DEF PublishReturns
<1>8. CASE PublishHearsClose(s)
    BY <1>8 DEF PublishHearsClose
<1>9. CASE OwnerDrains(s)
    BY <1>9 DEF OwnerDrains
<1>10. CASE OwnerUnlists(s)
    BY <1>10 DEF OwnerUnlists
<1>11. CASE OwnerFinishes(s)
    BY <1>11 DEF OwnerFinishes
<1>12. CASE OwnerReleases(s)
    BY <1>12 DEF OwnerReleases
<1>13. QED
    BY <1>1, <1>2, <1>3, <1>4, <1>5, <1>6, <1>7, <1>8, <1>9, <1>10, <1>11,
       <1>12 DEF OwnerStep

\* Every step of a worker task keeps the types.
LEMMA WorkerTypes ==
    ASSUME TypeOK, NEW s \in Incarnations, WorkerStep(s)
    PROVE  TypeOK'
<1> USE SessionAssumption
    DEF TypeOK, OwnerStates, WorkerStates, ClientStates, Worker, registryVars,
        ownerVars, workerVars, publishVars, clientVars
<1>0. ASSUME NEW last \in BOOLEAN, Emit(s, last)
      PROVE  /\ queue' \in [Incarnations -> 0..WorkerCap]
             /\ final' \in [Incarnations -> BOOLEAN]
    <2>1. CASE owner[s] \in Receiving
        BY <1>0, <2>1 DEF Emit
    <2>2. CASE owner[s] \notin Receiving
        BY <1>0, <2>2 DEF Emit
    <2>3. QED  BY <2>1, <2>2
<1>1. CASE SpawnSucceeds(s)
    BY <1>1 DEF SpawnSucceeds
<1>2. CASE SpawnFails(s)
    <2>1. Emit(s, TRUE) /\ worker' \in [Incarnations -> WorkerStates]
        BY <1>2 DEF SpawnFails
    <2>2. UNCHANGED <<registryVars, ownerVars, input, publishVars, clientVars>>
        BY <1>2 DEF SpawnFails
    <2>3. QED  BY <1>0, <2>1, <2>2
<1>3. CASE Output(s)
    <2>1. Emit(s, FALSE)
        BY <1>3 DEF Output
    <2>2. UNCHANGED <<registryVars, ownerVars, worker, input, publishVars,
                      clientVars>>
        BY <1>3 DEF Output
    <2>3. QED  BY <1>0, <2>1, <2>2
<1>4. CASE ConsumeInput(s)
    BY <1>4 DEF ConsumeInput
<1>5. CASE ProcessExits(s)
    BY <1>5 DEF ProcessExits
<1>6. CASE Kill(s)
    BY <1>6 DEF Kill
<1>7. CASE Reap(s)
    BY <1>7 DEF Reap
<1>8. CASE WorkerEnds(s)
    <2>1. /\ Emit(s, TRUE) \/ UNCHANGED <<queue, final>>
          /\ worker' \in [Incarnations -> WorkerStates]
        BY <1>8 DEF WorkerEnds
    <2>2. UNCHANGED <<registryVars, ownerVars, input, publishVars, clientVars>>
        BY <1>8 DEF WorkerEnds
    <2>3. QED  BY <1>0, <2>1, <2>2, ZenonT(30)
<1>9. QED
    BY <1>1, <1>2, <1>3, <1>4, <1>5, <1>6, <1>7, <1>8
    DEF WorkerStep, KillOnClose, KillOnStuckOutput, KillOnIdleInput,
        KillOnStuckInput

\* Every variable of every reachable state has its type.
THEOREM TypeCorrect == Spec => []TypeOK
<1>1. Init => TypeOK
    BY SessionAssumption
    DEF Init, TypeOK, OwnerStates, WorkerStates, ClientStates
<1>2. TypeOK /\ [Next]_vars => TypeOK'
    <2> SUFFICES ASSUME TypeOK, [Next]_vars
                 PROVE  TypeOK'
        OBVIOUS
    <2>1. ASSUME NEW k \in Commands, ExecBegins(k) \/ ExecEnds(k)
          PROVE  TypeOK'
        BY <2>1
        DEF ExecBegins, ExecEnds, TypeOK, ownerVars, workerVars, publishVars,
            clientVars
    <2>2. CASE UNCHANGED vars
        BY <2>2
        DEF TypeOK, vars, registryVars, ownerVars, workerVars, publishVars,
            clientVars
    <2>3. QED
        BY <2>1, <2>2, ClientTypes, OwnerTypes, WorkerTypes DEF Next
<1>3. QED  BY <1>1, <1>2, PTL DEF Spec

-----------------------------------------------------------------------------
(***************************************************************************)
(* Owner and worker                                                        *)
(***************************************************************************)

\* There is no worker before its owner runs, and an owner that is past
\* `worker.await` has none left.
Joined ==
    \A s \in Incarnations :
        /\ owner[s] \in {"unused", "prepared"} => worker[s] = "none"
        /\ owner[s] \in {"unlisting", "finishing", "releasing", "done"} =>
              worker[s] = "gone"
        /\ finished[s] <=> owner[s] \in {"releasing", "done"}

tasks == <<owner, worker, finished>>

\* A client only ever lists a session or starts its owner.
LEMMA ClientTasks ==
    ASSUME TypeOK, Joined, NEW c \in Clients, ClientStep(c)
    PROVE  Joined'
<1> USE DEF TypeOK, Joined, ownerVars, workerVars
<1>1. ASSUME NEW n \in Names, NEW u \in Users, NEW s \in Incarnations,
             StartPrepare(c, s, n, u) \/ AttachFounds(c, s, n, u)
      PROVE  Joined'
    <2>1. /\ owner[s] = "unused"
          /\ owner' = [owner EXCEPT ![s] = "prepared"]
          /\ UNCHANGED <<worker, finished>>
        BY <1>1 DEF StartPrepare, AttachFounds, Enlist
    <2>2. QED  BY <2>1
<1>2. CASE StartSpawn(c) \/ AttachSpawn(c)
    <2>1. SpawnOwner(target[c]) /\ UNCHANGED finished
        BY <1>2 DEF StartSpawn, AttachSpawn
    <2>2. QED  BY <2>1 DEF SpawnOwner
<1>3. CASE UNCHANGED tasks
    BY <1>3 DEF tasks
<1>4. QED
    BY <1>1, <1>2, <1>3
    DEF ClientStep, AttachJoins, CloseFinds, SendFinds, StartReturns,
        Subscribe, ViewerReads, StreamEnds, AttachmentForwards,
        AttachmentBreaks, Vanish, ConnectionEnds, CloseNotifies, CloseReturns,
        SendReturns, tasks

\* The owner unlists its session only after its worker is gone.
LEMMA OwnerTasks ==
    ASSUME TypeOK, Joined, NEW s \in Incarnations, OwnerStep(s)
    PROVE  Joined'
<1> USE DEF TypeOK, Joined, ownerVars, workerVars, Owner
<1>1. CASE Heartbeat(s) \/ PickViewer(s) \/ SendToViewer(s)
    <2>1. UNCHANGED tasks
        BY <1>1 DEF Heartbeat, PickViewer, SendToViewer, tasks
    <2>2. QED  BY <2>1 DEF tasks
<1>2. CASE OwnerHearsClose(s) \/ OwnerReceives(s) \/ OwnerSeesEnd(s)
           \/ PublishReturns(s) \/ PublishHearsClose(s)
    <2>1. PICK a, b \in {"running", "publishing", "closing"} : Owner(s, a, b)
        BY <1>2
        DEF OwnerHearsClose, OwnerReceives, OwnerSeesEnd, PublishReturns,
            PublishHearsClose
    <2>2. UNCHANGED <<worker, finished>>
        BY <1>2
        DEF OwnerHearsClose, OwnerReceives, OwnerSeesEnd, PublishReturns,
            PublishHearsClose
    <2>3. QED  BY <2>1, <2>2
<1>3. CASE OwnerDrains(s)
    BY <1>3 DEF OwnerDrains, WorkerJoined
<1>4. CASE OwnerUnlists(s)
    BY <1>4 DEF OwnerUnlists
<1>5. CASE OwnerFinishes(s)
    BY <1>5 DEF OwnerFinishes
<1>6. CASE OwnerReleases(s)
    BY <1>6 DEF OwnerReleases
<1>7. QED  BY <1>1, <1>2, <1>3, <1>4, <1>5, <1>6 DEF OwnerStep

\* A worker that still has something to do has an owner that waits for it.
LEMMA WorkerTasks ==
    ASSUME TypeOK, Joined, NEW s \in Incarnations, WorkerStep(s)
    PROVE  Joined'
<1> USE DEF TypeOK, Joined, ownerVars, workerVars, Worker
<1>1. CASE Output(s) \/ ConsumeInput(s)
    <2>1. UNCHANGED tasks
        BY <1>1 DEF Output, ConsumeInput, tasks
    <2>2. QED  BY <2>1 DEF tasks
<1>2. CASE ~(Output(s) \/ ConsumeInput(s))
    <2>1. PICK a \in {"starting", "running", "killing", "reaped"},
               b \in WorkerStates : Worker(s, a, b)
        BY <1>2
        DEF WorkerStep, SpawnSucceeds, SpawnFails, ProcessExits, KillOnClose,
            KillOnStuckOutput, KillOnIdleInput, KillOnStuckInput, Kill, Reap,
            WorkerEnds, WorkerStates
    <2>2. UNCHANGED <<owner, finished>>
        BY <1>2
        DEF WorkerStep, SpawnSucceeds, SpawnFails, ProcessExits, KillOnClose,
            KillOnStuckOutput, KillOnIdleInput, KillOnStuckInput, Kill, Reap,
            WorkerEnds
    <2>3. QED  BY <2>1, <2>2
<1>3. QED  BY <1>1, <1>2

\* An RPC that is under way holds a session.
Aimed == \A c \in Clients : pc[c] # "idle" => target[c] \in Incarnations

\* A client holds a session from its lookup to its return.
LEMMA ClientAims ==
    ASSUME TypeOK, Aimed, NEW c \in Clients, ClientStep(c)
    PROVE  Aimed'
<1> USE DEF TypeOK, Aimed, Move, clientVars
<1>1. ASSUME NEW n \in Names, NEW u \in Users, NEW s \in Incarnations,
             StartPrepare(c, s, n, u) \/ AttachFounds(c, s, n, u)
      PROVE  Aimed'
    BY <1>1 DEF StartPrepare, AttachFounds
<1>2. ASSUME NEW n \in Names, NEW u,
             AttachJoins(c, n, u) \/ CloseFinds(c, n) \/ SendFinds(c, n)
      PROVE  Aimed'
    <2>1. registry[n] \in Incarnations
        BY <1>2 DEF AttachJoins, CloseFinds, SendFinds
    <2>2. PICK p : pc' = [pc EXCEPT ![c] = p]
        BY <1>2 DEF AttachJoins, CloseFinds, SendFinds
    <2>3. target' = [target EXCEPT ![c] = registry[n]]
        BY <1>2 DEF AttachJoins, CloseFinds, SendFinds
    <2>4. QED  BY <2>1, <2>2, <2>3
<1>3. CASE StartSpawn(c) \/ Subscribe(c) \/ AttachSpawn(c) \/ Vanish(c)
           \/ CloseNotifies(c)
    <2>1. pc[c] # "idle" /\ UNCHANGED target
        BY <1>3 DEF StartSpawn, Subscribe, AttachSpawn, Vanish, CloseNotifies
    <2>2. PICK p : pc' = [pc EXCEPT ![c] = p]
        BY <1>3 DEF StartSpawn, Subscribe, AttachSpawn, Vanish, CloseNotifies
    <2>3. QED  BY <2>1, <2>2
<1>4. CASE UNCHANGED <<pc, target>>
    BY <1>4
<1>5. CASE StartReturns(c) \/ CloseReturns(c) \/ SendReturns(c)
    BY <1>5 DEF StartReturns, CloseReturns, SendReturns
<1>6. ASSUME DropReceiver(c)
      PROVE  Aimed'
    BY <1>6 DEF DropReceiver
<1>7. CASE StreamEnds(c) \/ ConnectionEnds(c)
    BY <1>6, <1>7 DEF StreamEnds, ConnectionEnds
<1>8. CASE ViewerReads(c) \/ AttachmentForwards(c) \/ AttachmentBreaks(c)
    <2>1. DropReceiver(c) \/ UNCHANGED <<pc, target>>
        BY <1>8 DEF ViewerReads, AttachmentForwards, AttachmentBreaks
    <2>2. QED  BY <1>4, <1>6, <2>1
<1>9. QED
    BY <1>1, <1>2, <1>3, <1>5, <1>7, <1>8 DEF ClientStep

\* All of them hold together in every reachable state.
LEMMA JoinedCorrect == Spec => [](TypeOK /\ Joined /\ Aimed)
<1>1. Init => TypeOK /\ Joined /\ Aimed
    BY SessionAssumption
    DEF Init, TypeOK, Joined, Aimed, OwnerStates, WorkerStates, ClientStates
<1>2. TypeOK /\ Joined /\ [Next]_vars => Joined'
    <2> SUFFICES ASSUME TypeOK, Joined, [Next]_vars
                 PROVE  Joined'
        OBVIOUS
    <2>1. CASE UNCHANGED tasks
        BY <2>1 DEF Joined, tasks
    <2>2. QED
        BY <2>1, ClientTasks, OwnerTasks, WorkerTasks
        DEF Next, ExecBegins, ExecEnds, vars, ownerVars, workerVars, tasks
<1>3. TypeOK /\ Aimed /\ [Next]_vars => Aimed'
    <2> SUFFICES ASSUME TypeOK, Aimed, [Next]_vars
                 PROVE  Aimed'
        OBVIOUS
    <2>1. CASE UNCHANGED <<pc, target>>
        BY <2>1 DEF Aimed
    <2>2. ASSUME NEW s \in Incarnations, OwnerStep(s)
          PROVE  UNCHANGED <<pc, target>>
        BY <2>2
        DEF OwnerStep, OwnerHearsClose, Heartbeat, OwnerReceives, OwnerSeesEnd,
            PickViewer, SendToViewer, PublishReturns, PublishHearsClose,
            OwnerDrains, OwnerUnlists, OwnerFinishes, OwnerReleases, clientVars
    <2>3. ASSUME NEW s \in Incarnations, WorkerStep(s)
          PROVE  UNCHANGED <<pc, target>>
        BY <2>3
        DEF WorkerStep, SpawnSucceeds, SpawnFails, Output, ConsumeInput,
            ProcessExits, KillOnClose, KillOnStuckOutput, KillOnIdleInput,
            KillOnStuckInput, Kill, Reap, WorkerEnds, clientVars
    <2>4. QED
        BY <2>1, <2>2, <2>3, ClientAims
        DEF Next, ExecBegins, ExecEnds, vars, clientVars
<1>4. QED  BY <1>1, <1>2, <1>3, TypeCorrect, PTL DEF Spec

\* A worker's process, and what it still has to flush, never outlives the
\* owner that waits for it and holds its permit.
THEOREM WorkerKeepsOwner == Spec => []WorkerHasOwner
<1>1. TypeOK /\ Joined => WorkerHasOwner
    BY DEF TypeOK, Joined, WorkerHasOwner, OwnerStates
<1>2. QED  BY <1>1, JoinedCorrect, PTL

-----------------------------------------------------------------------------
(***************************************************************************)
(* Implementation of SessionLifecycle                                      *)
(***************************************************************************)

\* A step that moves neither a session between the owner states the promise
\* tells apart nor its worker is a stutter of the promise.
LEMMA Stutter ==
    ASSUME UNCHANGED <<registry, title, finished, slots, commands>>,
           \A s \in Incarnations : Phase(s)' = Phase(s),
           \A s \in Incarnations : Process(s)' = Process(s)
    PROVE  UNCHANGED Lifecycle!vars
<1>1. phase' = phase /\ process' = process
    BY DEF phase, process
<1>2. QED  BY <1>1 DEF Lifecycle!vars, phase, process

\* Listing a session is one step of the promise.
LEMMA EnlistMaps ==
    ASSUME TypeOK, NEW s \in Incarnations, NEW n \in Names, NEW u \in Users,
           Enlist(s, n, u), UNCHANGED <<commands, finished, worker>>
    PROVE  Lifecycle!Enlist(s, n)
<1>1. /\ Phase(s) = "new"
      /\ phase' = [phase EXCEPT ![s] = "listed"]
    BY DEF Enlist, TypeOK, Phase, phase, Listed
<1>2. process' = process
    BY DEF Process, process
<1>3. QED  BY <1>1, <1>2 DEF Enlist, Lifecycle!Enlist, phase, process

\* Starting an owner with its worker is one step of the promise.
LEMMA SpawnMaps ==
    ASSUME TypeOK, Joined, Aimed, NEW c \in Clients, pc[c] # "idle",
           SpawnOwner(target[c]), UNCHANGED <<registryVars, finished>>
    PROVE  Lifecycle!Launch(target[c]) /\ target[c] \in Incarnations
<1> DEFINE s == target[c]
<1>1. s \in Incarnations /\ worker[s] = "none"
    BY DEF TypeOK, Joined, Aimed, SpawnOwner
<1>2. phase' = phase
    BY <1>1 DEF SpawnOwner, TypeOK, Phase, phase, Listed
<1>3. /\ Phase(s) = "listed" /\ Process(s) = "none"
      /\ process' = [process EXCEPT ![s] = "alive"]
    BY <1>1 DEF SpawnOwner, TypeOK, Phase, Process, process, Listed
<1>4. QED
    BY <1>1, <1>2, <1>3 DEF Lifecycle!Launch, phase, process, registryVars

\* A step of a client is a step or a stutter of the promise.
LEMMA ClientMaps ==
    ASSUME TypeOK, Joined, Aimed, NEW c \in Clients, ClientStep(c)
    PROVE  [Lifecycle!Next]_(Lifecycle!vars)
<1>1. ASSUME NEW n \in Names, NEW u \in Users, NEW s \in Incarnations,
             StartPrepare(c, s, n, u) \/ AttachFounds(c, s, n, u)
      PROVE  Lifecycle!Next
    <2>1. Lifecycle!Enlist(s, n)
        BY <1>1, EnlistMaps DEF StartPrepare, AttachFounds, workerVars
    <2>2. QED  BY <2>1 DEF Lifecycle!Next
<1>2. CASE StartSpawn(c) \/ AttachSpawn(c)
    <2>1. pc[c] # "idle" /\ SpawnOwner(target[c])
          /\ UNCHANGED <<registryVars, finished>>
        BY <1>2 DEF StartSpawn, AttachSpawn, Move
    <2>2. Lifecycle!Launch(target[c]) /\ target[c] \in Incarnations
        BY <2>1, SpawnMaps
    <2>3. QED  BY <2>2 DEF Lifecycle!Next
<1>3. ASSUME UNCHANGED <<registryVars, tasks>>
      PROVE  UNCHANGED Lifecycle!vars
    BY <1>3, Stutter DEF registryVars, tasks, Phase, Process
<1>4. CASE ~ \/ StartSpawn(c) \/ AttachSpawn(c)
             \/ \E n \in Names, u \in Users, s \in Incarnations :
                    StartPrepare(c, s, n, u) \/ AttachFounds(c, s, n, u)
    <2>1. UNCHANGED <<registryVars, tasks>>
        BY <1>4
        DEF ClientStep, AttachJoins, CloseFinds, SendFinds, StartReturns,
            Subscribe, ViewerReads, StreamEnds, AttachmentForwards,
            AttachmentBreaks, Vanish, ConnectionEnds, CloseNotifies,
            CloseReturns, SendReturns, tasks, ownerVars, workerVars
    <2>2. QED  BY <1>3, <2>1
<1>5. QED  BY <1>1, <1>2, <1>4

\* A step of an owner is a step or a stutter of the promise.
LEMMA OwnerMaps ==
    ASSUME TypeOK, Joined, NEW s \in Incarnations, OwnerStep(s)
    PROVE  [Lifecycle!Next]_(Lifecycle!vars)
<1> USE DEF TypeOK, ownerVars, workerVars, registryVars, Owner
<1>1. CASE Heartbeat(s) \/ PickViewer(s) \/ SendToViewer(s)
    <2>1. UNCHANGED <<registryVars, tasks>>
        BY <1>1 DEF Heartbeat, PickViewer, SendToViewer, tasks
    <2>2. QED  BY <2>1, Stutter DEF tasks, Phase, Process
<1>2. CASE OwnerHearsClose(s) \/ OwnerReceives(s) \/ OwnerSeesEnd(s)
           \/ PublishReturns(s) \/ PublishHearsClose(s) \/ OwnerDrains(s)
    <2>1. PICK a, b \in {"running", "publishing", "closing", "unlisting"} :
              Owner(s, a, b)
        BY <1>2
        DEF OwnerHearsClose, OwnerReceives, OwnerSeesEnd, PublishReturns,
            PublishHearsClose, OwnerDrains
    <2>2. UNCHANGED <<registryVars, worker, finished>>
        BY <1>2
        DEF OwnerHearsClose, OwnerReceives, OwnerSeesEnd, PublishReturns,
            PublishHearsClose, OwnerDrains
    <2>3. \A t \in Incarnations : Phase(t)' = Phase(t)
        BY <2>1 DEF Phase, Listed
    <2>4. \A t \in Incarnations : Process(t)' = Process(t)
        BY <2>2 DEF Process
    <2>5. QED  BY <2>2, <2>3, <2>4, Stutter
<1>3. CASE OwnerUnlists(s)
    <2>1. /\ Phase(s) = "listed" /\ Process(s) = "dead"
          /\ phase' = [phase EXCEPT ![s] = "over"]
          /\ process' = process
        BY <1>3 DEF OwnerUnlists, Joined, Phase, Process, phase, process, Listed
    <2>2. Lifecycle!Unlist(s)
        BY <1>3, <2>1 DEF OwnerUnlists, Lifecycle!Unlist, phase, process
    <2>3. QED  BY <2>2 DEF Lifecycle!Next
<1>4. CASE OwnerFinishes(s)
    <2>1. Phase(s) = "over" /\ phase' = phase /\ process' = process
        BY <1>4 DEF OwnerFinishes, Phase, Process, phase, process, Listed
    <2>2. Lifecycle!Finish(s)
        BY <1>4, <2>1 DEF OwnerFinishes, Lifecycle!Finish, phase, process
    <2>3. QED  BY <2>2 DEF Lifecycle!Next
<1>5. CASE OwnerReleases(s)
    <2>1. /\ Phase(s) = "over"
          /\ phase' = [phase EXCEPT ![s] = "released"]
          /\ process' = process
        BY <1>5 DEF OwnerReleases, Phase, Process, phase, process, Listed
    <2>2. Lifecycle!Release(s)
        BY <1>5, <2>1
        DEF OwnerReleases, Joined, Lifecycle!Release, phase, process
    <2>3. QED  BY <2>2 DEF Lifecycle!Next
<1>6. QED  BY <1>1, <1>2, <1>3, <1>4, <1>5 DEF OwnerStep

\* A step of a worker is a step or a stutter of the promise.
LEMMA WorkerMaps ==
    ASSUME TypeOK, NEW s \in Incarnations, WorkerStep(s)
    PROVE  [Lifecycle!Next]_(Lifecycle!vars)
<1> USE DEF TypeOK, ownerVars, registryVars, Worker
<1>1. CASE Output(s) \/ ConsumeInput(s)
    <2>1. UNCHANGED <<registryVars, tasks>>
        BY <1>1 DEF Output, ConsumeInput, tasks
    <2>2. QED  BY <2>1, Stutter DEF tasks, Phase, Process
<1>2. CASE ~(Output(s) \/ ConsumeInput(s))
    <2>1. PICK a \in {"starting", "running", "killing", "reaped"},
               b \in {"running", "killing", "reaped", "gone"} : Worker(s, a, b)
        BY <1>2
        DEF WorkerStep, SpawnSucceeds, SpawnFails, ProcessExits, KillOnClose,
            KillOnStuckOutput, KillOnIdleInput, KillOnStuckInput, Kill, Reap,
            WorkerEnds
    <2>2. UNCHANGED <<registryVars, ownerVars>>
        BY <1>2
        DEF WorkerStep, SpawnSucceeds, SpawnFails, ProcessExits, KillOnClose,
            KillOnStuckOutput, KillOnIdleInput, KillOnStuckInput, Kill, Reap,
            WorkerEnds
    <2>3. \A t \in Incarnations : Phase(t)' = Phase(t)
        BY <2>2 DEF Phase
    <2>4. CASE b # "gone"
        <3>1. \A t \in Incarnations : Process(t)' = Process(t)
            BY <2>1, <2>4 DEF Process
        <3>2. QED  BY <2>2, <2>3, <3>1, Stutter
    <2>5. CASE b = "gone"
        <3>1. /\ Process(s) = "alive" /\ phase' = phase
              /\ process' = [process EXCEPT ![s] = "dead"]
            BY <2>1, <2>2, <2>5 DEF Phase, Process, phase, process
        <3>2. Lifecycle!Die(s)
            BY <2>2, <3>1 DEF Lifecycle!Die, phase, process
        <3>3. QED  BY <3>2 DEF Lifecycle!Next
    <2>6. QED  BY <2>4, <2>5
<1>3. QED  BY <1>1, <1>2

\* sessions.rs and the tasks it spawns keep the promise of SessionLifecycle.
THEOREM KeepsPromise == Spec => ImplementsLifecycle
<1>1. Init => Lifecycle!Init
    BY DEF Init, Lifecycle!Init, Phase, Process, phase, process
<1>2. TypeOK /\ Joined /\ Aimed /\ [Next]_vars
        => [Lifecycle!Next]_(Lifecycle!vars)
    <2> SUFFICES ASSUME TypeOK, Joined, Aimed, [Next]_vars
                 PROVE  [Lifecycle!Next]_(Lifecycle!vars)
        OBVIOUS
    <2>1. ASSUME NEW k \in Commands, ExecBegins(k) \/ ExecEnds(k)
          PROVE  Lifecycle!Next
        <3>1. phase' = phase /\ process' = process
            BY <2>1
            DEF ExecBegins, ExecEnds, ownerVars, workerVars, Phase, Process,
                phase, process
        <3>2. Lifecycle!Borrow(k) \/ Lifecycle!Return(k)
            BY <2>1, <3>1
            DEF ExecBegins, ExecEnds, ownerVars, Lifecycle!Borrow,
                Lifecycle!Return, phase, process
        <3>3. QED  BY <3>2 DEF Lifecycle!Next
    <2>2. CASE UNCHANGED vars
        BY <2>2, Stutter
        DEF vars, registryVars, ownerVars, workerVars, Phase, Process
    <2>3. QED  BY <2>1, <2>2, ClientMaps, OwnerMaps, WorkerMaps DEF Next
<1>3. QED
    BY <1>1, <1>2, JoinedCorrect, PTL DEF Spec, ImplementsLifecycle, Lifecycle!Spec

-----------------------------------------------------------------------------
(***************************************************************************)
(* What follows from the promise                                           *)
(***************************************************************************)

Promised == INSTANCE SessionLifecycle_proofs
    WITH phase <- phase, process <- process

\* The promise that was proved about is the promise that is kept.
LEMMA SamePromise == ImplementsLifecycle => Promised!Spec
<1>1. Lifecycle!Init => Promised!Init
    BY DEF Lifecycle!Init, Promised!Init
<1>2. [Lifecycle!Next]_(Lifecycle!vars) => [Promised!Next]_(Promised!vars)
    BY DEF Lifecycle!Next, Lifecycle!vars, Lifecycle!Enlist, Lifecycle!Launch,
       Lifecycle!Die, Lifecycle!Unlist, Lifecycle!Finish, Lifecycle!Release,
       Lifecycle!Borrow, Lifecycle!Return,
       Promised!Next, Promised!vars, Promised!Enlist, Promised!Launch,
       Promised!Die, Promised!Unlist, Promised!Finish, Promised!Release,
       Promised!Borrow, Promised!Return
<1>3. QED
    BY <1>1, <1>2, PTL DEF ImplementsLifecycle, Lifecycle!Spec, Promised!Spec

\* The constants meet the assumption of the promise.
LEMMA PromiseAssumed == Promised!LifecycleAssumption
    BY SessionAssumption
    DEF Promised!LifecycleAssumption, IsFiniteSet, Promised!IsFiniteSet

\* The theorems about the promise hold of every behaviour of the sessions.
LEMMA PromisedFacts ==
    Spec => /\ []Promised!Registered
            /\ []Promised!Exclusive
            /\ []Promised!EndsClean
            /\ []Promised!Accounting
<1>1. Promised!Spec =>
          [](Promised!Registered /\ Promised!Exclusive /\ Promised!EndsClean)
    BY PromiseAssumed, Promised!PromiseKept
<1>2. Promised!Spec => []Promised!Accounting
    BY PromiseAssumed, Promised!PermitsAddUp
<1>3. QED  BY <1>1, <1>2, KeepsPromise, SamePromise, PTL

\* Removal is by name, yet an owner that ends never removes a successor's
\* entry, and a session with a live owner is never missing from the registry.
THEOREM RegistryAgrees == Spec => []RegistryMatchesOwners
<1>1. TypeOK /\ Promised!Registered => RegistryMatchesOwners
    <2> SUFFICES ASSUME TypeOK, Promised!Registered
                 PROVE  RegistryMatchesOwners
        OBVIOUS
    <2>1. ASSUME NEW s \in Incarnations
          PROVE  phase[s] = "listed" <=> owner[s] \in Listed
        BY DEF TypeOK, OwnerStates, Phase, phase, Listed
    <2>2. \A n \in Names : registry[n] # None => registry[n] \in Incarnations
        BY DEF TypeOK
    <2>3. QED
        BY <2>1, <2>2 DEF Promised!Registered, RegistryMatchesOwners
<1>2. QED  BY <1>1, TypeCorrect, PromisedFacts, PTL

\* A name never has two guest processes at once.
THEOREM OneProcess == Spec => []OneProcessPerName
<1>1. Promised!Exclusive => OneProcessPerName
    BY DEF Promised!Exclusive, OneProcessPerName, Alive, Process, process
<1>2. QED  BY <1>1, PromisedFacts, PTL

\* When Sessions::close answers, the process is reaped and the name is free.
THEOREM CloseMeansReaped == Spec => []FinishedMeansReaped
<1>1. TypeOK /\ Promised!EndsClean => FinishedMeansReaped
    BY DEF TypeOK, Promised!EndsClean, FinishedMeansReaped, Process, process
<1>2. QED  BY <1>1, TypeCorrect, PromisedFacts, PTL

\* No permit of exec_slots is lost or given back twice.
THEOREM SlotsAddUp == Spec => []SlotAccounting
<1>1. Holders = {s \in Incarnations : phase[s] \notin {"new", "released"}}
    BY DEF Holders, HoldsPermit, Phase, phase, Listed
<1>2. \A S : Promised!Cardinality(S) = Cardinality(S)
    BY DEF Promised!Cardinality, Cardinality
<1>3. Promised!Accounting => SlotAccounting
    BY <1>1, <1>2 DEF Promised!Accounting, SlotAccounting
<1>4. QED  BY <1>3, PromisedFacts, PTL
=============================================================================
