-------------------------- MODULE RelayRendezvous --------------------------
(***************************************************************************)
(* The relay (pbox-relay/src/server.rs), the agents that keep a waiting    *)
(* socket at it (run_agent in pbox-relay/src/lib.rs) and the clients that  *)
(* are matched to those sockets.                                           *)
(*                                                                         *)
(* A generation stands for one agent connection: its number in the relay,  *)
(* the task that serves it there, and the WebSocket that joins it to the   *)
(* agent.  A generation that nothing refers to any more stands for a fresh *)
(* number when it is used again.  The bytes of a session are left out.     *)
(***************************************************************************)
EXTENDS Naturals, FiniteSets

CONSTANTS
    Boxes,           \* routes, each with one agent
    Clients,         \* CLI connections
    Generations,     \* agent connections at the relay
    MaxConnections,  \* permits of `slots` and of `clients`
    AgentSlots,      \* permits of run_agent (32)
    MaxFaults,       \* bound on the faults of the environment
    None             \* no generation, no box

ASSUME RelayAssumption ==
    /\ IsFiniteSet(Clients)
    /\ IsFiniteSet(Generations)
    /\ MaxConnections \in Nat \ {0}
    /\ AgentSlots \in Nat \ {0}
    /\ MaxFaults \in Nat
    /\ None \notin Generations \cup Boxes

VARIABLES
    waiting,  \* box -> the generation listed for it
    slots,    \* free permits for agent connections
    clients,  \* free permits for clients that are not matched yet
    conn,     \* generation -> where its task at the relay is
    route,    \* generation -> its box
    link,     \* generation -> its connection is there, and the agent's end open
    ready,    \* generation -> READY is on its way to the agent
    pc,       \* client -> where its request is
    want,     \* client -> the box it asked for
    fired,    \* client -> its `notified` future was notified
    match,    \* client -> the generation whose oneshot sender it was given
    agent,    \* box -> where run_agent is
    socket,   \* box -> the connection on which run_agent waits
    bridges,  \* box -> the connections its spawned bridges use
    faults    \* faults so far

listVars   == <<waiting, slots, clients>>
connVars   == <<conn, route, link, ready>>
clientVars == <<pc, want, fired, match>>
agentVars  == <<agent, socket, bridges>>
vars == <<listVars, connVars, clientVars, agentVars, faults>>

ConnStates ==
    {"closed", "inserted", "upgrading", "waiting", "paired", "cleanup",
     "failed"}
ClientStates ==
    {"idle", "enabled", "missed", "parked", "matched", "offered", "served"}
AgentStates == {"acquiring", "connecting", "waiting", "sleeping"}

\* The relay's task still holds the receiver of the generation's oneshot.
Receiving(g) == conn[g] \in {"inserted", "upgrading", "waiting"}
\* The relay's end of the connection is open.
Open(g) == Receiving(g) \/ conn[g] = "paired"
\* The agent's end of the connection is open.
Held(g) == \E b \in Boxes : socket[b] = g \/ g \in bridges[b]
\* Nothing refers to the generation.
Fresh(g) ==
    /\ conn[g] = "closed"
    /\ ~Held(g)
    /\ \A c \in Clients : match[c] # g

\* The permits of `slots` and of `clients` in use.
SlotHolders == {g \in Generations : Open(g) \/ conn[g] = "cleanup"}
ClientHolders == {c \in Clients : pc[c] \in {"enabled", "missed", "parked", "matched"}}

\* The permits of run_agent's semaphore in use: each bridge holds one, and so
\* does the loop from the acquisition to the end of its turn.
AgentPermits(b) ==
    Cardinality(bridges[b]) + (IF agent[b] = "acquiring" THEN 0 ELSE 1)

Init ==
    /\ waiting = [b \in Boxes |-> None]
    /\ slots = MaxConnections
    /\ clients = MaxConnections
    /\ conn = [g \in Generations |-> "closed"]
    /\ route = [g \in Generations |-> None]
    /\ link = [g \in Generations |-> FALSE]
    /\ ready = [g \in Generations |-> FALSE]
    /\ pc = [c \in Clients |-> "idle"]
    /\ want = [c \in Clients |-> None]
    /\ fired = [c \in Clients |-> FALSE]
    /\ match = [c \in Clients |-> None]
    /\ agent = [b \in Boxes |-> "acquiring"]
    /\ socket = [b \in Boxes |-> None]
    /\ bridges = [b \in Boxes |-> {}]
    /\ faults = 0

-----------------------------------------------------------------------------
(***************************************************************************)
(* Clients at the relay: the client branch of `upgrade`                    *)
(***************************************************************************)

\* try_acquire_owned on `clients` (503 without a permit), then the first turn
\* of the loop enables its `notified` future.
ClientArrives(c, b) ==
    /\ pc[c] = "idle"
    /\ clients > 0
    /\ clients' = clients - 1
    /\ pc' = [pc EXCEPT ![c] = "enabled"]
    /\ want' = [want EXCEPT ![c] = b]
    /\ fired' = [fired EXCEPT ![c] = FALSE]
    /\ UNCHANGED <<waiting, slots, connVars, match, agentVars, faults>>

\* Mutant: the entry is read and stays in the map.
ClientPeeks(c) ==
    /\ pc[c] = "enabled"
    /\ LET g == waiting[want[c]]
       IN  \/ /\ g # None
              /\ match' = [match EXCEPT ![c] = g]
              /\ pc' = [pc EXCEPT ![c] = "matched"]
           \/ /\ g = None
              /\ pc' = [pc EXCEPT ![c] = "missed"]
              /\ UNCHANGED match
    /\ UNCHANGED <<listVars, connVars, want, fired, agentVars, faults>>

\* waiting.lock().await.remove(&box_id) takes the entry, or there is none.
ClientLooks(c) ==
    /\ pc[c] = "enabled"
    /\ LET g == waiting[want[c]]
       IN  \/ /\ g # None
              /\ waiting' = [waiting EXCEPT ![want[c]] = None]
              /\ match' = [match EXCEPT ![c] = g]
              /\ pc' = [pc EXCEPT ![c] = "matched"]
              /\ fired' = [fired EXCEPT ![c] = FALSE]
           \/ /\ g = None
              /\ pc' = [pc EXCEPT ![c] = "missed"]
              /\ UNCHANGED <<waiting, match, fired>>
    /\ UNCHANGED <<slots, clients, connVars, want, agentVars, faults>>

\* Mutant: the future is created here, after the map was searched.
ClientEnablesLate(c) ==
    /\ pc[c] = "missed"
    /\ pc' = [pc EXCEPT ![c] = "parked"]
    /\ fired' = [fired EXCEPT ![c] = FALSE]
    /\ UNCHANGED <<listVars, connVars, want, match, agentVars, faults>>

\* The lock is free again and the future is awaited.
ClientParks(c) ==
    /\ pc[c] = "missed"
    /\ pc' = [pc EXCEPT ![c] = "parked"]
    /\ UNCHANGED <<listVars, connVars, want, fired, match, agentVars, faults>>

\* notified.await returns, and the next turn enables a new future.
ClientWakes(c) ==
    /\ pc[c] = "parked"
    /\ fired[c]
    /\ pc' = [pc EXCEPT ![c] = "enabled"]
    /\ fired' = [fired EXCEPT ![c] = FALSE]
    /\ UNCHANGED <<listVars, connVars, want, match, agentVars, faults>>

\* The request is over, and what its handler held is dropped.
Leaves(c) ==
    /\ pc' = [pc EXCEPT ![c] = "idle"]
    /\ want' = [want EXCEPT ![c] = None]
    /\ fired' = [fired EXCEPT ![c] = FALSE]
    /\ match' = [match EXCEPT ![c] = None]

\* The ten seconds are over (503), or the caller is gone and its handler is
\* dropped.
ClientGivesUp(c) ==
    /\ pc[c] \in {"enabled", "missed", "parked"}
    /\ Leaves(c)
    /\ clients' = clients + 1
    /\ UNCHANGED <<waiting, slots, connVars, agentVars, faults>>

\* on_upgrade: hand the client's socket to the waiting task, and drop it if
\* that task has dropped its receiver.
ClientUpgrades(c) ==
    /\ pc[c] = "matched"
    /\ \/ /\ Receiving(match[c])
          /\ pc' = [pc EXCEPT ![c] = "offered"]
          /\ UNCHANGED <<want, fired, match>>
       \/ /\ ~Receiving(match[c])
          /\ Leaves(c)
    /\ clients' = clients + 1
    /\ UNCHANGED <<waiting, slots, connVars, agentVars, faults>>

\* The client's upgrade does not complete: the sender and the permit are
\* dropped with the callback.
ClientUpgradeFails(c) ==
    /\ pc[c] = "matched"
    /\ Leaves(c)
    /\ clients' = clients + 1
    /\ UNCHANGED <<waiting, slots, connVars, agentVars, faults>>

-----------------------------------------------------------------------------
(***************************************************************************)
(* Agent connections at the relay: the agent branch of `upgrade`           *)
(***************************************************************************)

Conn(g, from, to) ==
    /\ conn[g] = from
    /\ conn' = [conn EXCEPT ![g] = to]

\* The task drops the client's socket, handed over or still in the oneshot.
ClientsDropped(g) ==
    LET gone == {c \in Clients :
                    match[c] = g /\ pc[c] \in {"offered", "served"}}
    IN  /\ pc' = [c \in Clients |-> IF c \in gone THEN "idle" ELSE pc[c]]
        /\ want' = [c \in Clients |-> IF c \in gone THEN None ELSE want[c]]
        /\ match' = [c \in Clients |-> IF c \in gone THEN None ELSE match[c]]
        /\ UNCHANGED fired

\* Mutant: `slots` is not asked.
SlotTakenUnasked == slots' = slots - 1

\* try_acquire_owned on `slots`.
SlotTaken == slots > 0 /\ slots' = slots - 1

\* A permit, a generation and, for a box that is not listed, an entry.
AgentArrives(b, g) ==
    /\ agent[b] = "connecting"
    /\ SlotTaken
    /\ waiting[b] = None
    /\ Fresh(g)
    /\ waiting' = [waiting EXCEPT ![b] = g]
    /\ conn' = [conn EXCEPT ![g] = "inserted"]
    /\ route' = [route EXCEPT ![g] = b]
    /\ link' = [link EXCEPT ![g] = TRUE]
    /\ ready' = [ready EXCEPT ![g] = FALSE]
    /\ agent' = [agent EXCEPT ![b] = "waiting"]
    /\ socket' = [socket EXCEPT ![b] = g]
    /\ UNCHANGED <<clients, clientVars, bridges, faults>>

\* 503 without a permit, 409 while the box is listed.
AgentRefused(b) ==
    /\ agent[b] = "connecting"
    /\ slots = 0 \/ waiting[b] # None
    /\ agent' = [agent EXCEPT ![b] = "sleeping"]
    /\ UNCHANGED <<listVars, connVars, clientVars, socket, bridges, faults>>

\* notify_waiters reaches the clients of every box.
Notify(g) ==
    /\ Conn(g, "inserted", "upgrading")
    /\ fired' = [c \in Clients |->
                    fired[c] \/ pc[c] \in {"enabled", "missed", "parked"}]
    /\ UNCHANGED <<listVars, route, link, ready, pc, want, match, agentVars,
                   faults>>

UpgradeCompletes(g) ==
    /\ Conn(g, "upgrading", "waiting")
    /\ UNCHANGED <<listVars, route, link, ready, clientVars, agentVars,
                   faults>>

\* on_failed_upgrade spawns the removal; the permit and the receiver are
\* dropped with the on_upgrade callback.
UpgradeFails(g) ==
    /\ ~link[g]
    /\ Conn(g, "upgrading", "failed")
    /\ slots' = slots + 1
    /\ ClientsDropped(g)
    /\ UNCHANGED <<waiting, clients, route, link, ready, agentVars, faults>>

\* Mutant: READY is not sent.
PairUpSilently(g) ==
    /\ Conn(g, "waiting", "paired")
    /\ \E c \in Clients : match[c] = g /\ pc[c] = "offered"
    /\ pc' = [c \in Clients |-> IF match[c] = g THEN "served" ELSE pc[c]]
    /\ UNCHANGED <<listVars, route, link, ready, want, fired, match, agentVars,
                   faults>>

\* wait_and_forward receives the client's socket and sends READY.
PairUp(g) ==
    /\ Conn(g, "waiting", "paired")
    /\ \E c \in Clients : match[c] = g /\ pc[c] = "offered"
    /\ pc' = [c \in Clients |-> IF match[c] = g THEN "served" ELSE pc[c]]
    /\ ready' = [ready EXCEPT ![g] = TRUE]
    /\ UNCHANGED <<listVars, route, link, want, fired, match, agentVars,
                   faults>>

\* wait_and_forward returns.
Ends(g, from) ==
    /\ Conn(g, from, "cleanup")
    /\ ClientsDropped(g)
    /\ UNCHANGED <<listVars, route, link, ready, agentVars, faults>>

\* `receiver` fails: its sender was dropped unused.
SenderDropped(g) ==
    /\ conn[g] = "waiting"
    /\ waiting[route[g]] # g
    /\ \A c \in Clients : match[c] # g
    /\ Ends(g, "waiting")

\* Mutant: the waiting task neither reads the agent's socket nor has a deadline.
NoticesInSession(g) == ~link[g] /\ Ends(g, "paired")

\* The agent closed the connection, or it is dead: a failed send, or no Pong
\* for DEAD_PEER.
RelayNotices(g) == ~link[g] /\ (Ends(g, "waiting") \/ Ends(g, "paired"))

\* One side of a session closes it, breaks its rules or stalls.
SessionEnds(g) == Ends(g, "paired")

\* Mutant: the entry is removed by name only.
RemovedByName(g) == [waiting EXCEPT ![route[g]] = None]

\* remove_waiter: only if the entry is the generation's own.
Removed(g) ==
    IF waiting[route[g]] = g THEN [waiting EXCEPT ![route[g]] = None]
    ELSE waiting

\* Mutant: the permit of a connection is released only if its upgrade failed.
SlotForgotten(g) == slots

\* `_permit` is released at the end of the callback.
SlotReleased(g) == IF conn[g] = "cleanup" THEN slots + 1 ELSE slots

CleansUp(g) ==
    /\ conn[g] \in {"cleanup", "failed"}
    /\ conn' = [conn EXCEPT ![g] = "closed"]
    /\ route' = [route EXCEPT ![g] = None]
    /\ waiting' = Removed(g)
    /\ slots' = SlotReleased(g)
    /\ UNCHANGED <<clients, link, ready, clientVars, agentVars, faults>>

-----------------------------------------------------------------------------
(***************************************************************************)
(* The agents: run_agent and the bridges it spawns                         *)
(***************************************************************************)

Agent(b, from, to) ==
    /\ agent[b] = from
    /\ agent' = [agent EXCEPT ![b] = to]

AgentAcquires(b) ==
    /\ AgentPermits(b) < AgentSlots
    /\ Agent(b, "acquiring", "connecting")
    /\ UNCHANGED <<listVars, connVars, clientVars, socket, bridges, faults>>

\* READY: a spawned bridge takes the connection and its permit, and the loop
\* replaces both.
AgentReady(b) ==
    /\ Agent(b, "waiting", "acquiring")
    /\ ready[socket[b]]
    /\ ready' = [ready EXCEPT ![socket[b]] = FALSE]
    /\ bridges' = [bridges EXCEPT ![b] = @ \cup {socket[b]}]
    /\ socket' = [socket EXCEPT ![b] = None]
    /\ UNCHANGED <<listVars, conn, route, link, clientVars, faults>>

\* The relay closed the waiting connection, or nothing came for DEAD_PEER.
\* READY is lost only with the connection.  Dropping the socket closes it.
AgentFails(b) ==
    /\ Agent(b, "waiting", "sleeping")
    /\ ~link[socket[b]] \/ (~Open(socket[b]) /\ ~ready[socket[b]])
    /\ link' = [link EXCEPT ![socket[b]] = FALSE]
    /\ ready' = [ready EXCEPT ![socket[b]] = FALSE]
    /\ socket' = [socket EXCEPT ![b] = None]
    /\ UNCHANGED <<listVars, conn, route, clientVars, bridges, faults>>

\* Two seconds later the turn ends and drops its permit.
AgentWakes(b) ==
    /\ Agent(b, "sleeping", "acquiring")
    /\ UNCHANGED <<listVars, connVars, clientVars, socket, bridges, faults>>

\* The bridge returns: the local service or the relay closed, or one of them
\* stalls.
BridgeEnds(b, g) ==
    /\ g \in bridges[b]
    /\ bridges' = [bridges EXCEPT ![b] = @ \ {g}]
    /\ link' = [link EXCEPT ![g] = FALSE]
    /\ UNCHANGED <<listVars, conn, route, ready, clientVars, agent, socket,
                   faults>>

-----------------------------------------------------------------------------
(***************************************************************************)
(* Faults                                                                  *)
(***************************************************************************)

Fault == faults < MaxFaults /\ faults' = faults + 1

\* A connection dies without a word: the agent's host sleeps or is cut off.
LinkLost(g) ==
    /\ Fault
    /\ link[g]
    /\ link' = [link EXCEPT ![g] = FALSE]
    /\ UNCHANGED <<listVars, conn, route, ready, clientVars, agentVars>>

\* The relay cannot be reached.
AgentUnreachable(b) ==
    /\ Fault
    /\ Agent(b, "connecting", "sleeping")
    /\ UNCHANGED <<listVars, connVars, clientVars, socket, bridges>>

\* The relay's process is replaced: it keeps nothing.
RelayRestarts ==
    /\ Fault
    /\ waiting' = [b \in Boxes |-> None]
    /\ slots' = MaxConnections
    /\ clients' = MaxConnections
    /\ conn' = [g \in Generations |-> "closed"]
    /\ route' = [g \in Generations |-> None]
    /\ link' = [g \in Generations |-> FALSE]
    /\ pc' = [c \in Clients |-> "idle"]
    /\ want' = [c \in Clients |-> None]
    /\ fired' = [c \in Clients |-> FALSE]
    /\ match' = [c \in Clients |-> None]
    /\ UNCHANGED <<ready, agentVars>>

-----------------------------------------------------------------------------

ClientStep(c) ==
    \/ \E b \in Boxes : ClientArrives(c, b)
    \/ ClientLooks(c)
    \/ ClientParks(c)
    \/ ClientWakes(c)
    \/ ClientGivesUp(c)
    \/ ClientUpgrades(c)
    \/ ClientUpgradeFails(c)

RelayStep(g) ==
    \/ Notify(g)
    \/ UpgradeCompletes(g)
    \/ UpgradeFails(g)
    \/ PairUp(g)
    \/ SenderDropped(g)
    \/ RelayNotices(g)
    \/ SessionEnds(g)
    \/ CleansUp(g)

AgentStep(b) ==
    \/ AgentAcquires(b)
    \/ \E g \in Generations : AgentArrives(b, g) \/ BridgeEnds(b, g)
    \/ AgentRefused(b)
    \/ AgentReady(b)
    \/ AgentFails(b)
    \/ AgentWakes(b)

FaultStep ==
    \/ \E g \in Generations : LinkLost(g)
    \/ \E b \in Boxes : AgentUnreachable(b)
    \/ RelayRestarts

Next ==
    \/ \E c \in Clients : ClientStep(c)
    \/ \E g \in Generations : RelayStep(g)
    \/ \E b \in Boxes : AgentStep(b)
    \/ FaultStep

Spec == Init /\ [][Next]_vars

-----------------------------------------------------------------------------
(***************************************************************************)
(* Safety                                                                  *)
(***************************************************************************)

\* Every variable has its type.
TypeOK ==
    /\ waiting \in [Boxes -> Generations \cup {None}]
    /\ slots \in Nat
    /\ clients \in Nat
    /\ conn \in [Generations -> ConnStates]
    /\ route \in [Generations -> Boxes \cup {None}]
    /\ link \in [Generations -> BOOLEAN]
    /\ ready \in [Generations -> BOOLEAN]
    /\ pc \in [Clients -> ClientStates]
    /\ want \in [Clients -> Boxes \cup {None}]
    /\ fired \in [Clients -> BOOLEAN]
    /\ match \in [Clients -> Generations \cup {None}]
    /\ agent \in [Boxes -> AgentStates]
    /\ socket \in [Boxes -> Generations \cup {None}]
    /\ bridges \in [Boxes -> SUBSET Generations]
    /\ faults \in 0..MaxFaults

\* upgrade: every permit of both semaphores is free or held by one task,
\* whichever way requests and connections end.
PermitsAccounted ==
    /\ slots + Cardinality(SlotHolders) = MaxConnections
    /\ clients + Cardinality(ClientHolders) = MaxConnections

\* upgrade enables its future before it searches the map: a client that awaits
\* it unnotified has not missed an entry.  The notification may be still to
\* come.
NoLostWakeup ==
    \A c \in Clients :
        pc[c] \in {"missed", "parked"} /\ ~fired[c] /\ waiting[want[c]] # None =>
            conn[waiting[want[c]]] = "inserted"

\* An entry belongs to a connection of its box that has a task left to remove
\* it: no entry keeps a box's agent out (409) for ever.
NoGhostWaiter ==
    \A b \in Boxes : waiting[b] # None =>
        /\ route[waiting[b]] = b
        /\ conn[waiting[b]] \notin {"closed", "paired"}

\* No client waits beside an agent that is there, and no dead agent is waited for.
WaitersServed == NoLostWakeup /\ NoGhostWaiter

\* A connection goes to one client, and never to a second one while it is
\* promised; the client reaches the box it asked for.
OneClientPerSocket ==
    \A c \in Clients : match[c] # None =>
        /\ \A b \in Boxes : waiting[b] # match[c]
        /\ \A d \in Clients : match[d] = match[c] => d = c
        /\ pc[c] \in {"offered", "served"} => route[match[c]] = want[c]

\* remove_waiter checks the generation: the end of an old connection never
\* takes away the entry of the one that replaced it.
EntryTakenOrEnded ==
    [][\A b \in Boxes :
          waiting[b] # None /\ waiting'[b] # waiting[b] =>
              \/ \E c \in Clients : match'[c] = waiting[b]
              \/ conn'[waiting[b]] = "closed"]_vars

-----------------------------------------------------------------------------
(***************************************************************************)
(* Liveness                                                                *)
(***************************************************************************)

\* Tasks that can run do run, timeouts fire, and a dead or closed connection
\* is noticed at both ends.  A session need not end, and a client need not
\* come.
Fairness ==
    /\ \A c \in Clients :
          /\ WF_vars(ClientLooks(c) \/ ClientParks(c) \/ ClientWakes(c)
                     \/ ClientGivesUp(c))
          /\ WF_vars(ClientUpgrades(c) \/ ClientUpgradeFails(c))
    /\ \A g \in Generations :
          /\ WF_vars(Notify(g))
          /\ WF_vars(UpgradeCompletes(g) \/ UpgradeFails(g))
          /\ WF_vars(PairUp(g))
          /\ WF_vars(SenderDropped(g))
          /\ WF_vars(RelayNotices(g))
          /\ WF_vars(CleansUp(g))
    /\ \A b \in Boxes :
          /\ WF_vars(AgentAcquires(b))
          /\ WF_vars(AgentRefused(b)
                     \/ \E g \in Generations : AgentArrives(b, g))
          /\ WF_vars(AgentReady(b) \/ AgentFails(b))
          /\ WF_vars(AgentWakes(b))
          /\ \A g \in Generations :
                WF_vars(BridgeEnds(b, g) /\ (~link[g] \/ ~Open(g)))

FairSpec == Spec /\ Fairness

\* run_agent: reconnects restore availability.  An agent whose waiting
\* connection failed is listed again, whatever was lost and in whichever order
\* both ends noticed it.
AvailabilityRestored ==
    \A b \in Boxes :
        agent[b] = "sleeping" ~>
            socket[b] # None /\ waiting[b] = socket[b]

\* A client whose socket was handed over is joined to a bridge of the box's
\* agent or sees its connection closed; it is not left hanging.
OfferResolved ==
    \A c \in Clients, g \in Generations :
        match[c] = g /\ pc[c] \in {"offered", "served"} ~>
            \/ match[c] # g
            \/ \E b \in Boxes : route[g] = b /\ g \in bridges[b]
=============================================================================
