------------------------- MODULE TerminalSessions -------------------------
(***************************************************************************)
(* The agent's registry of named terminals (pbox-agent/src/sessions.rs)    *)
(* with the PTY worker each terminal runs (run_pty_command and its tasks   *)
(* in pbox-agent/src/main.rs).                                             *)
(*                                                                         *)
(* One incarnation is one Arc<Session>: a name may be used again once its  *)
(* earlier incarnation has left the registry.  Each incarnation has two    *)
(* tasks, the owner (own_session and, inside it, publish_output) and the   *)
(* worker (run_pty_command).  Clients are the RPC handlers acting for one  *)
(* caller each, with the attachment task of the caller's viewer.           *)
(*                                                                         *)
(* Data is abstracted: an event on a channel is a count, a name or a user  *)
(* a model value.  A viewer whose receiver was dropped is removed from the *)
(* subscriber sets at once: everywhere the code tests is_closed first, and *)
(* a send to it returns an error that is ignored.                          *)
(***************************************************************************)
EXTENDS Naturals, FiniteSets

CONSTANTS
    Names,         \* session names
    Users,         \* guest users
    Clients,       \* callers of the agent
    Roaming,       \* callers whose host may vanish without a word, or stop reading
    Incarnations,  \* session objects, each used once
    Commands,      \* one-off exec requests, which share the slots
    MaxExec,       \* permits of exec_slots
    WorkerCap,     \* capacity of the worker's output channel (16)
    ViewerCap,     \* capacity of one viewer's channel (64)
    InputCap,      \* capacity of the session's input channel (32)
    None           \* no incarnation, no client, no name, no user

ASSUME SessionAssumption ==
    /\ IsFiniteSet(Incarnations)
    /\ IsFiniteSet(Commands)
    /\ Roaming \subseteq Clients
    /\ MaxExec \in Nat
    /\ WorkerCap \in Nat \ {0}
    /\ ViewerCap \in Nat \ {0}
    /\ InputCap \in Nat \ {0}
    /\ None \notin Names \cup Users \cup Clients \cup Incarnations

VARIABLES
    registry,   \* name -> the incarnation listed under it
    title,      \* incarnation -> its name
    login,      \* incarnation -> the guest user it belongs to
    slots,      \* free permits of exec_slots
    commands,   \* exec requests that hold a permit
    owner,      \* incarnation -> where own_session is
    worker,     \* incarnation -> where run_pty_command is
    queue,      \* incarnation -> events between worker and owner
    final,      \* incarnation -> the worker has queued its last event
    input,      \* incarnation -> requests waiting for forward_stdin
    bell,       \* incarnation -> the stored permit of Notify `close`
    finished,   \* incarnation -> the watch value `finished`
    outputs,    \* incarnation -> subscribed viewers (state.outputs)
    pending,    \* incarnation -> viewers the event still goes to
    sending,    \* incarnation -> the viewer whose send is awaited
    pc,         \* client -> where its RPC is
    target,     \* client -> the Arc<Session> its RPC holds
    viewed,     \* client -> messages in its viewer channel
    told,       \* client -> its channel holds an end-of-session message
    reader      \* client -> its attachment task runs

registryVars == <<registry, title, login, slots, commands>>
ownerVars    == <<owner, bell, finished>>
workerVars   == <<worker, queue, final, input>>
publishVars  == <<outputs, pending, sending>>
clientVars   == <<pc, target, viewed, told, reader>>
vars == <<registryVars, ownerVars, workerVars, publishVars, clientVars>>

OwnerStates ==
    {"unused", "prepared", "running", "publishing", "closing",
     "unlisting", "finishing", "releasing", "done"}
WorkerStates == {"none", "starting", "running", "killing", "reaped", "gone"}
ClientStates ==
    {"idle", "starting", "acking", "joining", "founding", "spawning",
     "viewing", "vanished", "notifying", "closeWait", "sending"}

\* The owner states in which the incarnation is listed in the registry.
Listed ==
    {"prepared", "running", "publishing", "closing", "unlisting"}
\* The owner states in which the worker's output receiver is open.
Receiving == {"prepared", "running", "publishing"}
\* The worker states in which the guest process exists.
Alive == {"running", "killing"}

HoldsPermit(s) == owner[s] \notin {"unused", "done"}
Holders == {s \in Incarnations : HoldsPermit(s)}

\* The owner waits for a viewer whose channel is full, be its host gone, its command
\* stopped or its own output blocked; how long it may wait is not bounded here.
Stuck(s) ==
    /\ owner[s] = "publishing"
    /\ sending[s] # None
    /\ viewed[sending[s]] = ViewerCap

\* The event the owner publishes is the last one of its worker.
LastEvent(s) == final[s] /\ queue[s] = 0

\* forward_stdin still owns the receiver of the input channel.
InputOpen(s) == worker[s] \in {"none", "starting", "running", "killing"}

Init ==
    /\ registry = [n \in Names |-> None]
    /\ title = [s \in Incarnations |-> None]
    /\ login = [s \in Incarnations |-> None]
    /\ slots = MaxExec
    /\ commands = {}
    /\ owner = [s \in Incarnations |-> "unused"]
    /\ worker = [s \in Incarnations |-> "none"]
    /\ queue = [s \in Incarnations |-> 0]
    /\ final = [s \in Incarnations |-> FALSE]
    /\ input = [s \in Incarnations |-> 0]
    /\ bell = [s \in Incarnations |-> FALSE]
    /\ finished = [s \in Incarnations |-> FALSE]
    /\ outputs = [s \in Incarnations |-> {}]
    /\ pending = [s \in Incarnations |-> {}]
    /\ sending = [s \in Incarnations |-> None]
    /\ pc = [c \in Clients |-> "idle"]
    /\ target = [c \in Clients |-> None]
    /\ viewed = [c \in Clients |-> 0]
    /\ told = [c \in Clients |-> FALSE]
    /\ reader = [c \in Clients |-> FALSE]

-----------------------------------------------------------------------------
(***************************************************************************)
(* Clients                                                                 *)
(***************************************************************************)

Move(c, from, to) ==
    /\ pc[c] = from
    /\ pc' = [pc EXCEPT ![c] = to]

\* try_send on the input channel: dropped without an error when it is full.
Offer(s) ==
    IF InputOpen(s) /\ input[s] < InputCap
    THEN [input EXCEPT ![s] = @ + 1]
    ELSE input

\* Mutant: the registry lock is not held between the lookup and the insertion.
EnlistUnchecked(s, n, u) ==
    /\ slots > 0
    /\ slots' = slots - 1
    /\ owner[s] = "unused"
    /\ owner' = [owner EXCEPT ![s] = "prepared"]
    /\ registry' = [registry EXCEPT ![n] = s]
    /\ title' = [title EXCEPT ![s] = n]
    /\ login' = [login EXCEPT ![s] = u]

\* Sessions::prepare for a name that is not registered: take a permit and list
\* a new session, under the registry lock.
Enlist(s, n, u) ==
    /\ registry[n] = None
    /\ slots > 0
    /\ slots' = slots - 1
    /\ owner[s] = "unused"
    /\ owner' = [owner EXCEPT ![s] = "prepared"]
    /\ registry' = [registry EXCEPT ![n] = s]
    /\ title' = [title EXCEPT ![s] = n]
    /\ login' = [login EXCEPT ![s] = u]

\* Sessions::start up to the spawn.  A registered name is refused
\* (create_only), which changes nothing.
StartPrepare(c, s, n, u) ==
    /\ Move(c, "idle", "starting")
    /\ target' = [target EXCEPT ![c] = s]
    /\ Enlist(s, n, u)
    /\ UNCHANGED <<commands, bell, finished, workerVars, publishVars,
                   viewed, told, reader>>

\* tokio::spawn(own_session), which spawns the worker first.
SpawnOwner(s) ==
    /\ owner[s] = "prepared"
    /\ owner' = [owner EXCEPT ![s] = "running"]
    /\ worker' = [worker EXCEPT ![s] = "starting"]

StartSpawn(c) ==
    /\ Move(c, "starting", "acking")
    /\ SpawnOwner(target[c])
    /\ UNCHANGED <<registryVars, bell, finished, queue, final, input,
                   publishVars, target, viewed, told, reader>>

\* The `started` answer arrives: the process was spawned or could not be.
StartReturns(c) ==
    /\ Move(c, "acking", "idle")
    /\ worker[target[c]] # "starting"
    /\ target' = [target EXCEPT ![c] = None]
    /\ UNCHANGED <<registryVars, ownerVars, workerVars, publishVars,
                   viewed, told, reader>>

\* Sessions::attach up to the subscription: join the registered session of the
\* same user, or create one.
AttachJoins(c, n, u) ==
    /\ registry[n] # None
    /\ login[registry[n]] = u
    /\ Move(c, "idle", "joining")
    /\ target' = [target EXCEPT ![c] = registry[n]]
    /\ UNCHANGED <<registryVars, ownerVars, workerVars, publishVars,
                   viewed, told, reader>>

AttachFounds(c, s, n, u) ==
    /\ Move(c, "idle", "founding")
    /\ target' = [target EXCEPT ![c] = s]
    /\ Enlist(s, n, u)
    /\ UNCHANGED <<commands, bell, finished, workerVars, publishVars,
                   viewed, told, reader>>

\* Under the state lock: queue the redraw for a joiner, subscribe, resize.  The
\* subscribers that are there already stay.
Subscribe(c) ==
    LET s == target[c]
    IN  /\ \/ /\ Move(c, "joining", "viewing")
              /\ viewed' = [viewed EXCEPT ![c] = 1]
           \/ /\ Move(c, "founding", "spawning")
              /\ UNCHANGED viewed
        /\ outputs' = [outputs EXCEPT ![s] = @ \cup {c}]
        /\ input' = Offer(s)
        /\ reader' = [reader EXCEPT ![c] = TRUE]
        /\ UNCHANGED <<registryVars, ownerVars, worker, queue, final, pending,
                       sending, target, told>>

AttachSpawn(c) ==
    /\ Move(c, "spawning", "viewing")
    /\ SpawnOwner(target[c])
    /\ UNCHANGED <<registryVars, bell, finished, queue, final, input,
                   publishVars, target, viewed, told, reader>>

\* The client stops reading: its receiver is dropped, so its senders count as
\* closed everywhere.
DropReceiver(c) ==
    /\ pc' = [pc EXCEPT ![c] = "idle"]
    /\ target' = [target EXCEPT ![c] = None]
    /\ viewed' = [viewed EXCEPT ![c] = 0]
    /\ told' = [told EXCEPT ![c] = FALSE]
    /\ reader' = [reader EXCEPT ![c] = FALSE]
    /\ outputs' = [s \in Incarnations |-> outputs[s] \ {c}]
    /\ pending' = [s \in Incarnations |-> pending[s] \ {c}]
    /\ sending' = [s \in Incarnations |->
                      IF sending[s] = c THEN None ELSE sending[s]]

\* The viewer takes a message; it leaves after an end-of-session message.
ViewerReads(c) ==
    /\ pc[c] = "viewing"
    /\ viewed[c] > 0
    /\ IF told[c] /\ viewed[c] = 1
       THEN DropReceiver(c)
       ELSE /\ viewed' = [viewed EXCEPT ![c] = @ - 1]
            /\ UNCHANGED <<publishVars, pc, target, told, reader>>
    /\ UNCHANGED <<registryVars, ownerVars, workerVars>>

\* No sender for the viewer's channel is left.  The subscriber list dies with
\* the session object, once no task and no RPC holds it.
Unsendable(c) ==
    LET s == target[c]
    IN  /\ ~reader[c]
        /\ \/ c \notin outputs[s] \cup pending[s]
           \/ /\ owner[s] = "done"
              /\ \A d \in Clients : target[d] = s =>
                    pc[d] \in {"viewing", "vanished"} /\ ~reader[d]

StreamEnds(c) ==
    /\ pc[c] = "viewing"
    /\ viewed[c] = 0
    /\ Unsendable(c)
    /\ DropReceiver(c)
    /\ UNCHANGED <<registryVars, ownerVars, workerVars>>

\* Keystrokes, resizes and keepalives of a viewer go to the input channel.
AttachmentForwards(c) ==
    LET s == target[c]
    IN  /\ pc[c] = "viewing"
        /\ reader[c]
        /\ InputOpen(s)
        /\ input[s] < InputCap
        /\ input' = [input EXCEPT ![s] = @ + 1]
        /\ UNCHANGED <<registryVars, ownerVars, worker, queue, final,
                       publishVars, clientVars>>

\* Mutant: the attachment goes on when the input channel is closed.
AttachmentPersists(c) ==
    /\ reader[c]
    /\ pc[c] = "vanished"
    /\ reader' = [reader EXCEPT ![c] = FALSE]
    /\ UNCHANGED <<registryVars, ownerVars, workerVars, publishVars, pc,
                   target, viewed, told>>

\* The attachment task ends: detach, an idle stream, a full or a closed input
\* channel.  It leaves the viewer among the subscribers.
AttachmentBreaks(c) ==
    /\ reader[c]
    /\ pc[c] \in {"viewing", "vanished"}
    /\ reader' = [reader EXCEPT ![c] = FALSE]
    /\ UNCHANGED <<registryVars, ownerVars, workerVars, publishVars, pc,
                   target, viewed, told>>

\* The viewer's host sleeps or is cut off without closing the connection, or its
\* command is stopped.
Vanish(c) ==
    /\ c \in Roaming
    /\ Move(c, "viewing", "vanished")
    /\ UNCHANGED <<registryVars, ownerVars, workerVars, publishVars, target,
                   viewed, told, reader>>

\* The connection ends: the viewer's receiver, or the RPC's future, is dropped.
ConnectionEnds(c) ==
    /\ pc[c] \in {"viewing", "vanished", "acking", "closeWait", "sending"}
    /\ DropReceiver(c)
    /\ UNCHANGED <<registryVars, ownerVars, workerVars>>

\* Sessions::close: look the session up, ring its bell, wait for `finished`.
CloseFinds(c, n) ==
    /\ registry[n] # None
    /\ Move(c, "idle", "notifying")
    /\ target' = [target EXCEPT ![c] = registry[n]]
    /\ UNCHANGED <<registryVars, ownerVars, workerVars, publishVars, viewed,
                   told, reader>>

CloseNotifies(c) ==
    /\ Move(c, "notifying", "closeWait")
    /\ bell' = [bell EXCEPT ![target[c]] = TRUE]
    /\ UNCHANGED <<registryVars, owner, finished, workerVars, publishVars,
                   target, viewed, told, reader>>

CloseReturns(c) ==
    /\ Move(c, "closeWait", "idle")
    /\ finished[target[c]]
    /\ target' = [target EXCEPT ![c] = None]
    /\ UNCHANGED <<registryVars, ownerVars, workerVars, publishVars, viewed,
                   told, reader>>

\* Sessions::send: look the session up, then wait for room in its input.
SendFinds(c, n) ==
    /\ registry[n] # None
    /\ Move(c, "idle", "sending")
    /\ target' = [target EXCEPT ![c] = registry[n]]
    /\ UNCHANGED <<registryVars, ownerVars, workerVars, publishVars, viewed,
                   told, reader>>

SendReturns(c) ==
    /\ Move(c, "sending", "idle")
    /\ target' = [target EXCEPT ![c] = None]
    /\ input' = Offer(target[c])
    /\ UNCHANGED <<registryVars, ownerVars, worker, queue, final, publishVars,
                   viewed, told, reader>>

\* AgentService::exec takes a permit of the same semaphore for the lifetime of
\* a one-off command.
ExecBegins(k) ==
    /\ k \notin commands
    /\ slots > 0
    /\ slots' = slots - 1
    /\ commands' = commands \cup {k}
    /\ UNCHANGED <<registry, title, login, ownerVars, workerVars, publishVars,
                   clientVars>>

ExecEnds(k) ==
    /\ k \in commands
    /\ slots' = slots + 1
    /\ commands' = commands \ {k}
    /\ UNCHANGED <<registry, title, login, ownerVars, workerVars, publishVars,
                   clientVars>>

-----------------------------------------------------------------------------
(***************************************************************************)
(* The owner: own_session and publish_output                               *)
(***************************************************************************)

Owner(s, from, to) ==
    /\ owner[s] = from
    /\ owner' = [owner EXCEPT ![s] = to]

\* The select branch of `close.notified()`, which consumes the stored permit;
\* the owner then drops the worker's output receiver.
OwnerHearsClose(s) ==
    /\ bell[s]
    /\ bell' = [bell EXCEPT ![s] = FALSE]
    /\ Owner(s, "running", "closing")
    /\ UNCHANGED <<registryVars, finished, workerVars, publishVars, clientVars>>

\* The 60 second tick that keeps forward_stdin's idle timeout from firing.
Heartbeat(s) ==
    /\ owner[s] = "running"
    /\ input' = Offer(s)
    /\ UNCHANGED <<registryVars, ownerVars, worker, queue, final, publishVars,
                   clientVars>>

\* publish_output up to its first await: the event updates the screen, a
\* terminal without viewers answers queries itself, and the subscribers that
\* are there now are copied out of the state lock.
OwnerReceives(s) ==
    /\ queue[s] > 0
    /\ Owner(s, "running", "publishing")
    /\ queue' = [queue EXCEPT ![s] = @ - 1]
    /\ pending' = [pending EXCEPT ![s] = outputs[s]]
    /\ input' \in IF outputs[s] = {} THEN {input, Offer(s)} ELSE {input}
    /\ UNCHANGED <<registryVars, bell, finished, worker, final, outputs,
                   sending, clientVars>>

\* `output.recv()` yields None: the worker is gone and the channel is empty.
OwnerSeesEnd(s) ==
    /\ worker[s] = "gone"
    /\ queue[s] = 0
    /\ Owner(s, "running", "closing")
    /\ UNCHANGED <<registryVars, bell, finished, workerVars, publishVars,
                   clientVars>>

\* The for loop of publish_output: one viewer after the other, in any order.
PickViewer(s) ==
    /\ owner[s] = "publishing"
    /\ sending[s] = None
    /\ \E c \in pending[s] : sending' = [sending EXCEPT ![s] = c]
    /\ UNCHANGED <<registryVars, ownerVars, workerVars, outputs, pending,
                   clientVars>>

SendToViewer(s) ==
    LET c == sending[s]
    IN  /\ owner[s] = "publishing"
        /\ c # None
        /\ viewed[c] < ViewerCap
        /\ viewed' = [viewed EXCEPT ![c] = @ + 1]
        /\ told' = [told EXCEPT ![c] = @ \/ LastEvent(s)]
        /\ pending' = [pending EXCEPT ![s] = @ \ {c}]
        /\ sending' = [sending EXCEPT ![s] = None]
        /\ UNCHANGED <<registryVars, ownerVars, workerVars, outputs, pc,
                       target, reader>>

PublishReturns(s) ==
    /\ pending[s] = {}
    /\ Owner(s, "publishing", "running")
    /\ UNCHANGED <<registryVars, bell, finished, workerVars, publishVars,
                   clientVars>>

\* Mutant: publish_output returns true, so that the close is forgotten.
PublishForgetsClose(s) ==
    /\ sending[s] # None
    /\ bell[s]
    /\ bell' = [bell EXCEPT ![s] = FALSE]
    /\ Owner(s, "publishing", "running")
    /\ pending' = [pending EXCEPT ![s] = {}]
    /\ sending' = [sending EXCEPT ![s] = None]
    /\ UNCHANGED <<registryVars, finished, workerVars, outputs, clientVars>>

\* A close is also heard while a viewer's send is awaited.
PublishHearsClose(s) ==
    /\ sending[s] # None
    /\ bell[s]
    /\ bell' = [bell EXCEPT ![s] = FALSE]
    /\ Owner(s, "publishing", "closing")
    /\ pending' = [pending EXCEPT ![s] = {}]
    /\ sending' = [sending EXCEPT ![s] = None]
    /\ UNCHANGED <<registryVars, finished, workerVars, outputs, clientVars>>

\* Mutants: the owner does not wait, waits for the signal to be sent, or waits
\* for the process but not for its worker.
WorkerIgnored(s) == TRUE
WorkerSignalled(s) == worker[s] \notin {"starting", "running"}
WorkerReaped(s) == worker[s] \in {"reaped", "gone"}

\* The guard of `worker.await`.
WorkerJoined(s) == worker[s] = "gone"

\* Then, under the state lock, try_send the cancellation to every subscriber
\* and empty the list.  A full channel loses the message.
OwnerDrains(s) ==
    /\ WorkerJoined(s)
    /\ Owner(s, "closing", "unlisting")
    /\ LET reached == {c \in outputs[s] : viewed[c] < ViewerCap}
       IN  /\ viewed' = [c \in Clients |-> IF c \in reached
                                           THEN viewed[c] + 1 ELSE viewed[c]]
           /\ told' = [c \in Clients |-> told[c] \/ c \in reached]
    /\ outputs' = [outputs EXCEPT ![s] = {}]
    /\ UNCHANGED <<registryVars, bell, finished, workerVars, pending, sending,
                   pc, target, reader>>

\* Mutant: the ended session stays in the registry.
OwnerStaysListed(s) ==
    /\ Owner(s, "unlisting", "finishing")
    /\ UNCHANGED <<registryVars, bell, finished, workerVars, publishVars,
                   clientVars>>

\* registry.remove(&name): by name, whatever is listed under it.
OwnerUnlists(s) ==
    /\ Owner(s, "unlisting", "finishing")
    /\ registry' = [registry EXCEPT ![title[s]] = None]
    /\ UNCHANGED <<title, login, slots, commands, bell, finished, workerVars,
                   publishVars, clientVars>>

OwnerFinishes(s) ==
    /\ Owner(s, "finishing", "releasing")
    /\ finished' = [finished EXCEPT ![s] = TRUE]
    /\ UNCHANGED <<registryVars, bell, workerVars, publishVars, clientVars>>

\* Mutant: the permit is moved into something that outlives the task.
OwnerKeepsPermit(s) ==
    /\ Owner(s, "releasing", "done")
    /\ UNCHANGED <<registryVars, bell, finished, workerVars, publishVars,
                   clientVars>>

\* The task returns: `_permit` goes back to the semaphore.
OwnerReleases(s) ==
    /\ Owner(s, "releasing", "done")
    /\ slots' = slots + 1
    /\ UNCHANGED <<registry, title, login, commands, bell, finished,
                   workerVars, publishVars, clientVars>>

-----------------------------------------------------------------------------
(***************************************************************************)
(* The worker: run_pty_command, forward_stdin, send_output                 *)
(***************************************************************************)

Worker(s, from, to) ==
    /\ worker[s] = from
    /\ worker' = [worker EXCEPT ![s] = to]

\* Mutant: an unbounded output channel.
EmitUnbounded(s, last) ==
    IF owner[s] \in Receiving
    THEN /\ queue' = [queue EXCEPT ![s] = @ + 1]
         /\ final' = [final EXCEPT ![s] = last]
    ELSE UNCHANGED <<queue, final>>

\* Queue one event for the owner, or nothing if its receiver is dropped.
Emit(s, last) ==
    IF owner[s] \in Receiving
    THEN /\ queue[s] < WorkerCap
         /\ queue' = [queue EXCEPT ![s] = @ + 1]
         /\ final' = [final EXCEPT ![s] = last]
    ELSE UNCHANGED <<queue, final>>

SpawnSucceeds(s) ==
    /\ Worker(s, "starting", "running")
    /\ UNCHANGED <<registryVars, ownerVars, queue, final, input, publishVars,
                   clientVars>>

\* pty_start_failure: the error is the only event of the worker.
SpawnFails(s) ==
    /\ Worker(s, "starting", "gone")
    /\ Emit(s, TRUE)
    /\ UNCHANGED <<registryVars, ownerVars, input, publishVars, clientVars>>

\* send_output passes on what the terminal shows.
Output(s) ==
    /\ worker[s] = "running"
    /\ owner[s] \in Receiving
    /\ Emit(s, FALSE)
    /\ UNCHANGED <<registryVars, ownerVars, worker, input, publishVars,
                   clientVars>>

ConsumeInput(s) ==
    /\ worker[s] = "running"
    /\ input[s] > 0
    /\ input' = [input EXCEPT ![s] = @ - 1]
    /\ UNCHANGED <<registryVars, ownerVars, worker, queue, final, publishVars,
                   clientVars>>

\* wait_for_child: the process exits by itself; its group is killed with it.
ProcessExits(s) ==
    /\ Worker(s, "running", "reaped")
    /\ input' = [input EXCEPT ![s] = 0]
    /\ UNCHANGED <<registryVars, ownerVars, queue, final, publishVars,
                   clientVars>>

\* terminate_child, for each reason the worker has to do it.
Kill(s) ==
    /\ Worker(s, "running", "killing")
    /\ UNCHANGED <<registryVars, ownerVars, queue, final, input, publishVars,
                   clientVars>>

\* `sender.closed()`: the owner dropped the receiver.
KillOnClose(s) == owner[s] \notin Receiving /\ Kill(s)

\* The send of an output event waited for five minutes: `output_failure`.
KillOnStuckOutput(s) ==
    /\ queue[s] = WorkerCap
    /\ Stuck(s)
    /\ Kill(s)

\* No request reached forward_stdin for five minutes.  A running owner sends a
\* heartbeat every minute and a live viewer a keepalive every 30 seconds; one that
\* is stopped sends none and loses its attachment.
KillOnIdleInput(s) ==
    /\ input[s] = 0
    /\ Stuck(s)
    /\ \A c \in Clients :
          ~(target[c] = s /\ pc[c] = "viewing" /\ reader[c])
    /\ Kill(s)

\* A write to the terminal took 30 seconds: the process does not read.
KillOnStuckInput(s) == input[s] > 0 /\ Kill(s)

\* child.wait() after SIGKILL.
Reap(s) ==
    /\ Worker(s, "killing", "reaped")
    /\ input' = [input EXCEPT ![s] = 0]
    /\ UNCHANGED <<registryVars, ownerVars, queue, final, publishVars,
                   clientVars>>

\* The drained output task and the exit event end the worker.  The exit event
\* is given up after ten seconds with a full queue.
WorkerEnds(s) ==
    /\ Worker(s, "reaped", "gone")
    /\ \/ Emit(s, TRUE)
       \/ /\ queue[s] = WorkerCap
          /\ Stuck(s)
          /\ UNCHANGED <<queue, final>>
    /\ UNCHANGED <<registryVars, ownerVars, input, publishVars, clientVars>>

-----------------------------------------------------------------------------

ClientStep(c) ==
    \/ \E n \in Names, u \in Users :
          \/ \E s \in Incarnations : StartPrepare(c, s, n, u)
          \/ \E s \in Incarnations : AttachFounds(c, s, n, u)
          \/ AttachJoins(c, n, u)
    \/ \E n \in Names : CloseFinds(c, n) \/ SendFinds(c, n)
    \/ StartSpawn(c)
    \/ StartReturns(c)
    \/ Subscribe(c)
    \/ AttachSpawn(c)
    \/ ViewerReads(c)
    \/ StreamEnds(c)
    \/ AttachmentForwards(c)
    \/ AttachmentBreaks(c)
    \/ Vanish(c)
    \/ ConnectionEnds(c)
    \/ CloseNotifies(c)
    \/ CloseReturns(c)
    \/ SendReturns(c)

OwnerStep(s) ==
    \/ OwnerHearsClose(s)
    \/ Heartbeat(s)
    \/ OwnerReceives(s)
    \/ OwnerSeesEnd(s)
    \/ PickViewer(s)
    \/ SendToViewer(s)
    \/ PublishReturns(s)
    \/ PublishHearsClose(s)
    \/ OwnerDrains(s)
    \/ OwnerUnlists(s)
    \/ OwnerFinishes(s)
    \/ OwnerReleases(s)

WorkerStep(s) ==
    \/ SpawnSucceeds(s)
    \/ SpawnFails(s)
    \/ Output(s)
    \/ ConsumeInput(s)
    \/ ProcessExits(s)
    \/ KillOnClose(s)
    \/ KillOnStuckOutput(s)
    \/ KillOnIdleInput(s)
    \/ KillOnStuckInput(s)
    \/ Reap(s)
    \/ WorkerEnds(s)

Next ==
    \/ \E c \in Clients : ClientStep(c)
    \/ \E s \in Incarnations : OwnerStep(s)
    \/ \E s \in Incarnations : WorkerStep(s)
    \/ \E k \in Commands : ExecBegins(k) \/ ExecEnds(k)

Spec == Init /\ [][Next]_vars

-----------------------------------------------------------------------------
(***************************************************************************)
(* Safety                                                                  *)
(***************************************************************************)

\* Every variable has its type.
TypeOK ==
    /\ registry \in [Names -> Incarnations \cup {None}]
    /\ title \in [Incarnations -> Names \cup {None}]
    /\ login \in [Incarnations -> Users \cup {None}]
    /\ slots \in Nat
    /\ commands \in SUBSET Commands
    /\ owner \in [Incarnations -> OwnerStates]
    /\ worker \in [Incarnations -> WorkerStates]
    /\ queue \in [Incarnations -> 0..WorkerCap]
    /\ final \in [Incarnations -> BOOLEAN]
    /\ input \in [Incarnations -> 0..InputCap]
    /\ bell \in [Incarnations -> BOOLEAN]
    /\ finished \in [Incarnations -> BOOLEAN]
    /\ outputs \in [Incarnations -> SUBSET Clients]
    /\ pending \in [Incarnations -> SUBSET Clients]
    /\ sending \in [Incarnations -> Clients \cup {None}]
    /\ pc \in [Clients -> ClientStates]
    /\ target \in [Clients -> Incarnations \cup {None}]
    /\ viewed \in [Clients -> 0..ViewerCap]
    /\ told \in [Clients -> BOOLEAN]
    /\ reader \in [Clients -> BOOLEAN]

\* prepare, own_session: no permit of exec_slots is lost or given back twice,
\* whichever way a session ends.
SlotAccounting ==
    slots + Cardinality(Holders) + Cardinality(commands) = MaxExec

\* Removal is by name: an owner that ends never removes a successor's entry,
\* and a session with a live owner is never missing from the registry.
RegistryMatchesOwners ==
    /\ \A n \in Names : registry[n] # None =>
          title[registry[n]] = n /\ owner[registry[n]] \in Listed
    /\ \A s \in Incarnations : owner[s] \in Listed =>
          title[s] \in Names /\ registry[title[s]] = s

\* A name never has two guest processes at once, however starts, attaches,
\* closes and exits interleave.
OneProcessPerName ==
    \A s, t \in Incarnations :
        worker[s] \in Alive /\ worker[t] \in Alive /\ title[s] = title[t]
            => s = t

\* Sessions::close answers only once `finished` is set: by then the process is
\* reaped and the name is free.
FinishedMeansReaped ==
    \A s \in Incarnations : finished[s] =>
        /\ worker[s] = "gone"
        /\ \A n \in Names : registry[n] # s

\* A worker's process, and what it still has to flush, never outlives the
\* owner that waits for it and holds its permit.
WorkerHasOwner ==
    \A s \in Incarnations :
        worker[s] \in {"starting", "running", "killing", "reaped"} =>
            owner[s] \in {"running", "publishing", "closing"}

\* docs: a new attachment moves the terminal from its old connection.
OneConnection ==
    \A s \in Incarnations : Cardinality(outputs[s]) <= 1

\* sessions.rs: attachments may disappear without ending the process.  A
\* process would be killed only when its session is closed or when it does not read
\* its terminal.
LossEndsNoProcess ==
    [][\A s \in Incarnations :
          worker[s] = "running" /\ worker'[s] = "killing" =>
              owner[s] \notin Receiving \/ input[s] > 0]_vars

-----------------------------------------------------------------------------
(***************************************************************************)
(* The promise                                                             *)
(***************************************************************************)

Phase(s) ==
    IF owner[s] = "unused" THEN "new"
    ELSE IF owner[s] = "done" THEN "released"
    ELSE IF owner[s] \in Listed THEN "listed" ELSE "over"

Process(s) ==
    IF worker[s] = "none" THEN "none"
    ELSE IF worker[s] = "gone" THEN "dead" ELSE "alive"

phase   == [s \in Incarnations |-> Phase(s)]
process == [s \in Incarnations |-> Process(s)]

Lifecycle == INSTANCE SessionLifecycle WITH phase <- phase, process <- process

\* sessions.rs and the tasks it spawns keep the promise of SessionLifecycle,
\* step by step.
ImplementsLifecycle == Lifecycle!Spec

-----------------------------------------------------------------------------
(***************************************************************************)
(* Liveness                                                                *)
(***************************************************************************)

\* Tasks that can run do run.  A select! that is polled again and again with
\* its close branch ready takes that branch in the end: it polls its branches
\* in random order.  A closed channel is noticed, a killed process can be
\* waited for, a viewer that has not vanished reads in the end and its keepalive
\* finds the input closed; a vanished one runs into the idle timeout of its
\* attachment.  Nothing makes a vanished viewer read or its connection end.
Fairness ==
    /\ \A s \in Incarnations :
          /\ SF_vars(OwnerHearsClose(s) \/ PublishHearsClose(s))
          /\ WF_vars(OwnerReceives(s) \/ OwnerSeesEnd(s) \/ PickViewer(s)
                     \/ PublishReturns(s))
          /\ WF_vars(SendToViewer(s))
          /\ WF_vars(OwnerDrains(s) \/ OwnerUnlists(s) \/ OwnerFinishes(s)
                     \/ OwnerReleases(s))
          /\ WF_vars(SpawnSucceeds(s) \/ SpawnFails(s))
          /\ WF_vars(KillOnClose(s))
          /\ WF_vars(Reap(s) \/ WorkerEnds(s))
    /\ \A c \in Clients :
          /\ WF_vars(StartSpawn(c) \/ Subscribe(c) \/ AttachSpawn(c)
                     \/ CloseNotifies(c))
          /\ WF_vars(StartReturns(c) \/ CloseReturns(c) \/ SendReturns(c))
          /\ WF_vars(ViewerReads(c) \/ StreamEnds(c))
          /\ WF_vars(AttachmentBreaks(c) /\ (\/ pc[c] = "vanished"
                                             \/ ~InputOpen(target[c])))

FairSpec == Spec /\ Fairness

\* Closing a session ends, even when its owner waits for a viewer that will
\* never read again.
CloseEnds == \A c \in Clients : pc[c] = "closeWait" ~> pc[c] # "closeWait"

\* A viewer of a session that is over does not wait for ever, even if it was
\* subscribed after the owner had emptied the subscriber list, or if the
\* cancellation found its channel full.
ViewersReleased ==
    \A c \in Clients, s \in Incarnations :
        pc[c] = "viewing" /\ target[c] = s /\ finished[s]
            ~> ~(pc[c] = "viewing" /\ target[c] = s)

\* A test says that exiting the shell removes the session and releases its
\* permit: it does, unless the owner waits for a viewer that vanished, and so will
\* never take its event.
ExitEndsSession ==
    \A s \in Incarnations :
        worker[s] = "reaped" ~>
            \/ owner[s] = "done"
            \/ sending[s] # None /\ pc[sending[s]] = "vanished"

\* A session ends when it is closed and when its process does.
SessionsEnd == CloseEnds /\ ExitEndsSession
=============================================================================
