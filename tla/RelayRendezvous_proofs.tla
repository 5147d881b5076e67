------------------------ MODULE RelayRendezvous_proofs ------------------------
(***************************************************************************)
(* The relay matches every client with one connection of the box it asked  *)
(* for, misses no wakeup and loses no permit, for any number of boxes,     *)
(* clients, connections, permits and faults.                               *)
(***************************************************************************)
EXTENDS RelayRendezvous, FiniteSetTheorems, TLAPS

\* What a client was given is no longer listed, is nobody else's, and leads to
\* the box it asked for as long as a task of it is left; a socket handed over
\* has a task that holds it.
Promised ==
    \A c \in Clients :
        /\ match[c] # None <=> pc[c] \in {"matched", "offered", "served"}
        /\ pc[c] # "idle" => want[c] \in Boxes
        /\ match[c] # None =>
            /\ \A b \in Boxes : waiting[b] # match[c]
            /\ \A d \in Clients : match[d] = match[c] => d = c
            /\ conn[match[c]] # "closed" => route[match[c]] = want[c]
        /\ pc[c] = "offered" => Receiving(match[c])
        /\ pc[c] = "served" => conn[match[c]] = "paired"

\* An agent that waits has the connection on which it waits.
Connected == \A b \in Boxes : agent[b] = "waiting" => socket[b] \in Generations

Matching == TypeOK /\ NoGhostWaiter /\ Promised /\ NoLostWakeup /\ Connected

\* Every step keeps the matching of clients and connections.
LEMMA MatchingStep ==
    ASSUME RelayAssumption
    PROVE  Matching /\ [Next]_vars => Matching'
<1> SUFFICES ASSUME Matching, [Next]_vars
             PROVE  Matching'
    OBVIOUS
<1>0. /\ TypeOK /\ NoGhostWaiter /\ Promised /\ NoLostWakeup /\ Connected
      /\ None \notin Generations \cup Boxes
    BY DEF Matching, RelayAssumption
<1> USE DEF listVars, connVars, clientVars, agentVars
<1>1. ASSUME NEW c \in Clients, NEW b \in Boxes, ClientArrives(c, b)
      PROVE  Matching'
    <2>1. TypeOK'
        BY <1>0, <1>1 DEF ClientArrives, TypeOK, ClientStates, ConnStates, AgentStates
    <2>2. NoGhostWaiter'
        BY <1>0, <1>1 DEF ClientArrives, TypeOK, NoGhostWaiter, Promised
    <2>3. Promised'
        BY <1>0, <1>1 DEF ClientArrives, TypeOK, NoGhostWaiter, Promised, Receiving
    <2>4. NoLostWakeup'
        BY <1>0, <1>1 DEF ClientArrives, TypeOK, NoGhostWaiter, Promised, NoLostWakeup
    <2>5. Connected'
        BY <1>0, <1>1 DEF ClientArrives, TypeOK, Connected, AgentStates
    <2>6. QED  BY <2>1, <2>2, <2>3, <2>4, <2>5 DEF Matching
<1>2. ASSUME NEW c \in Clients, ClientLooks(c)
      PROVE  Matching'
    <2>1. TypeOK'
        <3>1. CASE /\ waiting[want[c]] # None
                   /\ waiting' = [waiting EXCEPT ![want[c]] = None]
                   /\ match' = [match EXCEPT ![c] = waiting[want[c]]]
                   /\ pc' = [pc EXCEPT ![c] = "matched"]
                   /\ fired' = [fired EXCEPT ![c] = FALSE]
            <4>1. waiting[want[c]] \in Generations
                BY <1>0, <1>2, <3>1 DEF ClientLooks, TypeOK, Promised
            <4>2. /\ waiting' \in [Boxes -> Generations \cup {None}]
                  /\ match' \in [Clients -> Generations \cup {None}]
                BY <1>0, <3>1, <4>1 DEF TypeOK
            <4>3. /\ pc' \in [Clients -> ClientStates]
                  /\ fired' \in [Clients -> BOOLEAN]
                BY <1>0, <3>1 DEF TypeOK, ClientStates
            <4>4. QED  BY <1>0, <1>2, <4>2, <4>3 DEF ClientLooks, TypeOK
        <3>2. CASE /\ pc' = [pc EXCEPT ![c] = "missed"]
                   /\ UNCHANGED <<waiting, match, fired>>
            BY <1>0, <1>2, <3>2 DEF ClientLooks, TypeOK, ClientStates
        <3>3. QED  BY <1>2, <3>1, <3>2 DEF ClientLooks
    <2>2. NoGhostWaiter'
        BY <1>0, <1>2 DEF ClientLooks, TypeOK, NoGhostWaiter, Promised
    <2>3. Promised'
        BY <1>0, <1>2 DEF ClientLooks, TypeOK, NoGhostWaiter, Promised, Receiving
    <2>4. NoLostWakeup'
        BY <1>0, <1>2 DEF ClientLooks, TypeOK, NoGhostWaiter, Promised, NoLostWakeup
    <2>5. Connected'
        BY <1>0, <1>2 DEF ClientLooks, TypeOK, Connected, AgentStates
    <2>6. QED  BY <2>1, <2>2, <2>3, <2>4, <2>5 DEF Matching
<1>3. ASSUME NEW c \in Clients, ClientParks(c) \/ ClientWakes(c)
      PROVE  Matching'
    <2>1. TypeOK'
        BY <1>0, <1>3
           DEF ClientParks, ClientWakes, TypeOK, ClientStates, ConnStates, AgentStates
    <2>2. NoGhostWaiter'
        BY <1>0, <1>3 DEF ClientParks, ClientWakes, TypeOK, NoGhostWaiter, Promised
    <2>3. Promised'
        BY <1>0, <1>3
           DEF ClientParks, ClientWakes, TypeOK, NoGhostWaiter, Promised, Receiving
    <2>4. NoLostWakeup'
        BY <1>0, <1>3
           DEF ClientParks, ClientWakes, TypeOK, NoGhostWaiter, Promised, NoLostWakeup
    <2>5. Connected'
        BY <1>0, <1>3 DEF ClientParks, ClientWakes, TypeOK, Connected, AgentStates
    <2>6. QED  BY <2>1, <2>2, <2>3, <2>4, <2>5 DEF Matching
<1>4. ASSUME NEW c \in Clients, ClientGivesUp(c)
      PROVE  Matching'
    <2>1. TypeOK'
        BY <1>0, <1>4
           DEF ClientGivesUp, Leaves, TypeOK, ClientStates, ConnStates, AgentStates
    <2>2. NoGhostWaiter'
        BY <1>0, <1>4 DEF ClientGivesUp, Leaves, TypeOK, NoGhostWaiter, Promised
    <2>3. Promised'
        BY <1>0, <1>4 DEF ClientGivesUp, Leaves, TypeOK, NoGhostWaiter, Promised, Receiving
    <2>4. NoLostWakeup'
        BY <1>0, <1>4
           DEF ClientGivesUp, Leaves, TypeOK, NoGhostWaiter, Promised, NoLostWakeup
    <2>5. Connected'
        BY <1>0, <1>4 DEF ClientGivesUp, Leaves, TypeOK, Connected, AgentStates
    <2>6. QED  BY <2>1, <2>2, <2>3, <2>4, <2>5 DEF Matching
<1>5. ASSUME NEW c \in Clients, ClientUpgrades(c)
      PROVE  Matching'
    <2>1. TypeOK'
        <3>1. CASE Leaves(c)
            BY <1>0, <1>5, <3>1 DEF ClientUpgrades, Leaves, TypeOK, ClientStates
        <3>2. CASE pc' = [pc EXCEPT ![c] = "offered"] /\ UNCHANGED <<want, fired, match>>
            BY <1>0, <1>5, <3>2 DEF ClientUpgrades, TypeOK, ClientStates
        <3>3. QED  BY <1>5, <3>1, <3>2 DEF ClientUpgrades
    <2>2. NoGhostWaiter'
        BY <1>0, <1>5 DEF ClientUpgrades, Leaves, TypeOK, NoGhostWaiter, Promised
    <2>3. Promised'
        BY <1>0, <1>5 DEF ClientUpgrades, Leaves, TypeOK, NoGhostWaiter, Promised, Receiving
    <2>4. NoLostWakeup'
        BY <1>0, <1>5
           DEF ClientUpgrades, Leaves, TypeOK, NoGhostWaiter, Promised, NoLostWakeup
    <2>5. Connected'
        BY <1>0, <1>5 DEF ClientUpgrades, Leaves, TypeOK, Connected, AgentStates
    <2>6. QED  BY <2>1, <2>2, <2>3, <2>4, <2>5 DEF Matching
<1>6. ASSUME NEW c \in Clients, ClientUpgradeFails(c)
      PROVE  Matching'
    <2>1. TypeOK'
        BY <1>0, <1>6
           DEF ClientUpgradeFails, Leaves, TypeOK, ClientStates, ConnStates, AgentStates
    <2>2. NoGhostWaiter'
        BY <1>0, <1>6 DEF ClientUpgradeFails, Leaves, TypeOK, NoGhostWaiter, Promised
    <2>3. Promised'
        BY <1>0, <1>6
           DEF ClientUpgradeFails, Leaves, TypeOK, NoGhostWaiter, Promised, Receiving
    <2>4. NoLostWakeup'
        BY <1>0, <1>6
           DEF ClientUpgradeFails, Leaves, TypeOK, NoGhostWaiter, Promised, NoLostWakeup
    <2>5. Connected'
        BY <1>0, <1>6 DEF ClientUpgradeFails, Leaves, TypeOK, Connected, AgentStates
    <2>6. QED  BY <2>1, <2>2, <2>3, <2>4, <2>5 DEF Matching
<1>7. ASSUME NEW g \in Generations, Notify(g)
      PROVE  Matching'
    <2>1. TypeOK'
        BY <1>0, <1>7 DEF Notify, Conn, TypeOK, ClientStates, ConnStates, AgentStates
    <2>2. NoGhostWaiter'
        BY <1>0, <1>7 DEF Notify, Conn, TypeOK, NoGhostWaiter, Promised
    <2>3. Promised'
        BY <1>0, <1>7 DEF Notify, Conn, TypeOK, NoGhostWaiter, Promised, Receiving
    <2>4. NoLostWakeup'
        BY <1>0, <1>7 DEF Notify, Conn, TypeOK, NoGhostWaiter, Promised, NoLostWakeup
    <2>5. Connected'
        BY <1>0, <1>7 DEF Notify, Conn, TypeOK, Connected, AgentStates
    <2>6. QED  BY <2>1, <2>2, <2>3, <2>4, <2>5 DEF Matching
<1>8. ASSUME NEW g \in Generations, UpgradeCompletes(g)
      PROVE  Matching'
    <2>1. TypeOK'
        BY <1>0, <1>8
           DEF UpgradeCompletes, Conn, TypeOK, ClientStates, ConnStates, AgentStates
    <2>2. NoGhostWaiter'
        BY <1>0, <1>8 DEF UpgradeCompletes, Conn, TypeOK, NoGhostWaiter, Promised
    <2>3. Promised'
        BY <1>0, <1>8 DEF UpgradeCompletes, Conn, TypeOK, NoGhostWaiter, Promised, Receiving
    <2>4. NoLostWakeup'
        BY <1>0, <1>8
           DEF UpgradeCompletes, Conn, TypeOK, NoGhostWaiter, Promised, NoLostWakeup
    <2>5. Connected'
        BY <1>0, <1>8 DEF UpgradeCompletes, Conn, TypeOK, Connected, AgentStates
    <2>6. QED  BY <2>1, <2>2, <2>3, <2>4, <2>5 DEF Matching
<1>9. ASSUME NEW g \in Generations, UpgradeFails(g)
      PROVE  Matching'
    <2>1. TypeOK'
        BY <1>0, <1>9
           DEF UpgradeFails, Conn, ClientsDropped, TypeOK, ClientStates, ConnStates,
               AgentStates
    <2>2. NoGhostWaiter'
        BY <1>0, <1>9
           DEF UpgradeFails, Conn, ClientsDropped, TypeOK, NoGhostWaiter, Promised
    <2>3. Promised'
        BY <1>0, <1>9
           DEF UpgradeFails, Conn, ClientsDropped, TypeOK, NoGhostWaiter, Promised,
               Receiving
    <2>4. NoLostWakeup'
        BY <1>0, <1>9
           DEF UpgradeFails, Conn, ClientsDropped, TypeOK, NoGhostWaiter, Promised,
               NoLostWakeup
    <2>5. Connected'
        BY <1>0, <1>9 DEF UpgradeFails, Conn, ClientsDropped, TypeOK, Connected, AgentStates
    <2>6. QED  BY <2>1, <2>2, <2>3, <2>4, <2>5 DEF Matching
<1>10. ASSUME NEW g \in Generations, PairUp(g)
      PROVE  Matching'
    <2>1. TypeOK'
        BY <1>0, <1>10 DEF PairUp, Conn, TypeOK, ClientStates, ConnStates, AgentStates
    <2>2. NoGhostWaiter'
        BY <1>0, <1>10 DEF PairUp, Conn, TypeOK, NoGhostWaiter, Promised
    <2>3. Promised'
        BY <1>0, <1>10 DEF PairUp, Conn, TypeOK, NoGhostWaiter, Promised, Receiving
    <2>4. NoLostWakeup'
        BY <1>0, <1>10 DEF PairUp, Conn, TypeOK, NoGhostWaiter, Promised, NoLostWakeup
    <2>5. Connected'
        BY <1>0, <1>10 DEF PairUp, Conn, TypeOK, Connected, AgentStates
    <2>6. QED  BY <2>1, <2>2, <2>3, <2>4, <2>5 DEF Matching
<1>11. ASSUME NEW g \in Generations, Ends(g, "waiting") \/ Ends(g, "paired")
      PROVE  Matching'
    <2>1. TypeOK'
        BY <1>0, <1>11
           DEF Ends, Conn, ClientsDropped, TypeOK, ClientStates, ConnStates, AgentStates
    <2>2. NoGhostWaiter'
        BY <1>0, <1>11 DEF Ends, Conn, ClientsDropped, TypeOK, NoGhostWaiter, Promised
    <2>3. Promised'
        BY <1>0, <1>11
           DEF Ends, Conn, ClientsDropped, TypeOK, NoGhostWaiter, Promised, Receiving
    <2>4. NoLostWakeup'
        BY <1>0, <1>11
           DEF Ends, Conn, ClientsDropped, TypeOK, NoGhostWaiter, Promised, NoLostWakeup
    <2>5. Connected'
        BY <1>0, <1>11 DEF Ends, Conn, ClientsDropped, TypeOK, Connected, AgentStates
    <2>6. QED  BY <2>1, <2>2, <2>3, <2>4, <2>5 DEF Matching
<1>12. ASSUME NEW g \in Generations, CleansUp(g)
      PROVE  Matching'
    <2>1. TypeOK'
        <3>1. waiting' \in [Boxes -> Generations \cup {None}]
            <4>1. CASE waiting' = [waiting EXCEPT ![route[g]] = None]
                BY <1>0, <4>1 DEF TypeOK
            <4>2. CASE waiting' = waiting
                BY <1>0, <4>2 DEF TypeOK
            <4>3. QED  BY <1>12, <4>1, <4>2 DEF CleansUp, Removed
        <3>2. /\ conn' \in [Generations -> ConnStates]
              /\ route' \in [Generations -> Boxes \cup {None}]
              /\ slots' \in Nat
            BY <1>0, <1>12 DEF CleansUp, SlotReleased, TypeOK, ConnStates
        <3>3. QED  BY <1>0, <1>12, <3>1, <3>2 DEF CleansUp, TypeOK
    <2>2. NoGhostWaiter'
        BY <1>0, <1>12 DEF CleansUp, Removed, SlotReleased, TypeOK, NoGhostWaiter, Promised
    <2>3. Promised'
        BY <1>0, <1>12
           DEF CleansUp, Removed, SlotReleased, TypeOK, NoGhostWaiter, Promised, Receiving
    <2>4. NoLostWakeup'
        BY <1>0, <1>12
           DEF CleansUp, Removed, SlotReleased, TypeOK, NoGhostWaiter, Promised,
               NoLostWakeup
    <2>5. Connected'
        BY <1>0, <1>12 DEF CleansUp, Removed, SlotReleased, TypeOK, Connected, AgentStates
    <2>6. QED  BY <2>1, <2>2, <2>3, <2>4, <2>5 DEF Matching
<1>13. ASSUME NEW b \in Boxes, AgentAcquires(b) \/ AgentRefused(b) \/ AgentWakes(b)
      PROVE  Matching'
    <2>1. TypeOK'
        BY <1>0, <1>13
           DEF AgentAcquires, AgentRefused, AgentWakes, Agent, TypeOK, ClientStates,
               ConnStates, AgentStates
    <2>2. NoGhostWaiter'
        BY <1>0, <1>13
           DEF AgentAcquires, AgentRefused, AgentWakes, Agent, TypeOK, NoGhostWaiter,
               Promised
    <2>3. Promised'
        BY <1>0, <1>13
           DEF AgentAcquires, AgentRefused, AgentWakes, Agent, TypeOK, NoGhostWaiter,
               Promised, Receiving
    <2>4. NoLostWakeup'
        BY <1>0, <1>13
           DEF AgentAcquires, AgentRefused, AgentWakes, Agent, TypeOK, NoGhostWaiter,
               Promised, NoLostWakeup
    <2>5. Connected'
        BY <1>0, <1>13
           DEF AgentAcquires, AgentRefused, AgentWakes, Agent, TypeOK, Connected,
               AgentStates
    <2>6. QED  BY <2>1, <2>2, <2>3, <2>4, <2>5 DEF Matching
<1>14. ASSUME NEW b \in Boxes, NEW g \in Generations, AgentArrives(b, g)
      PROVE  Matching'
    <2>1. TypeOK'
        BY <1>0, <1>14
           DEF AgentArrives, SlotTaken, Fresh, TypeOK, ClientStates, ConnStates,
               AgentStates
    <2>2. NoGhostWaiter'
        BY <1>0, <1>14 DEF AgentArrives, SlotTaken, Fresh, TypeOK, NoGhostWaiter, Promised
    <2>3. Promised'
        BY <1>0, <1>14
           DEF AgentArrives, SlotTaken, Fresh, TypeOK, NoGhostWaiter, Promised, Receiving
    <2>4. NoLostWakeup'
        BY <1>0, <1>14
           DEF AgentArrives, SlotTaken, Fresh, TypeOK, NoGhostWaiter, Promised,
               NoLostWakeup
    <2>5. Connected'
        BY <1>0, <1>14 DEF AgentArrives, SlotTaken, Fresh, TypeOK, Connected, AgentStates
    <2>6. QED  BY <2>1, <2>2, <2>3, <2>4, <2>5 DEF Matching
<1>15. ASSUME NEW b \in Boxes, AgentReady(b)
      PROVE  Matching'
    <2>1. TypeOK'
        <3>1. socket[b] \in Generations /\ agent' \in [Boxes -> AgentStates]
            BY <1>0, <1>15 DEF AgentReady, Agent, TypeOK, Connected, AgentStates
        <3>2. bridges' \in [Boxes -> SUBSET Generations]
            BY <1>0, <1>15, <3>1 DEF AgentReady, TypeOK
        <3>3. /\ ready' \in [Generations -> BOOLEAN]
              /\ socket' \in [Boxes -> Generations \cup {None}]
            BY <1>0, <1>15 DEF AgentReady, TypeOK
        <3>4. QED  BY <1>0, <1>15, <3>1, <3>2, <3>3 DEF AgentReady, TypeOK
    <2>2. NoGhostWaiter'
        BY <1>0, <1>15 DEF AgentReady, Agent, TypeOK, NoGhostWaiter, Promised
    <2>3. Promised'
        BY <1>0, <1>15 DEF AgentReady, Agent, TypeOK, NoGhostWaiter, Promised, Receiving
    <2>4. NoLostWakeup'
        BY <1>0, <1>15 DEF AgentReady, Agent, TypeOK, NoGhostWaiter, Promised, NoLostWakeup
    <2>5. Connected'
        BY <1>0, <1>15 DEF AgentReady, Agent, TypeOK, Connected, AgentStates
    <2>6. QED  BY <2>1, <2>2, <2>3, <2>4, <2>5 DEF Matching
<1>16. ASSUME NEW b \in Boxes, AgentFails(b)
      PROVE  Matching'
    <2>1. TypeOK'
        BY <1>0, <1>16 DEF AgentFails, Agent, TypeOK, ClientStates, ConnStates, AgentStates
    <2>2. NoGhostWaiter'
        BY <1>0, <1>16 DEF AgentFails, Agent, TypeOK, NoGhostWaiter, Promised
    <2>3. Promised'
        BY <1>0, <1>16 DEF AgentFails, Agent, TypeOK, NoGhostWaiter, Promised, Receiving
    <2>4. NoLostWakeup'
        BY <1>0, <1>16 DEF AgentFails, Agent, TypeOK, NoGhostWaiter, Promised, NoLostWakeup
    <2>5. Connected'
        BY <1>0, <1>16 DEF AgentFails, Agent, TypeOK, Connected, AgentStates
    <2>6. QED  BY <2>1, <2>2, <2>3, <2>4, <2>5 DEF Matching
<1>17. ASSUME NEW b \in Boxes, NEW g \in Generations, BridgeEnds(b, g)
      PROVE  Matching'
    <2>1. TypeOK'
        BY <1>0, <1>17 DEF BridgeEnds, TypeOK, ClientStates, ConnStates, AgentStates
    <2>2. NoGhostWaiter'
        BY <1>0, <1>17 DEF BridgeEnds, TypeOK, NoGhostWaiter, Promised
    <2>3. Promised'
        BY <1>0, <1>17 DEF BridgeEnds, TypeOK, NoGhostWaiter, Promised, Receiving
    <2>4. NoLostWakeup'
        BY <1>0, <1>17 DEF BridgeEnds, TypeOK, NoGhostWaiter, Promised, NoLostWakeup
    <2>5. Connected'
        BY <1>0, <1>17 DEF BridgeEnds, TypeOK, Connected, AgentStates
    <2>6. QED  BY <2>1, <2>2, <2>3, <2>4, <2>5 DEF Matching
<1>18. ASSUME NEW g \in Generations, LinkLost(g)
      PROVE  Matching'
    <2>1. TypeOK'
        BY <1>0, <1>18 DEF LinkLost, Fault, TypeOK, ClientStates, ConnStates, AgentStates
    <2>2. NoGhostWaiter'
        BY <1>0, <1>18 DEF LinkLost, Fault, TypeOK, NoGhostWaiter, Promised
    <2>3. Promised'
        BY <1>0, <1>18 DEF LinkLost, Fault, TypeOK, NoGhostWaiter, Promised, Receiving
    <2>4. NoLostWakeup'
        BY <1>0, <1>18 DEF LinkLost, Fault, TypeOK, NoGhostWaiter, Promised, NoLostWakeup
    <2>5. Connected'
        BY <1>0, <1>18 DEF LinkLost, Fault, TypeOK, Connected, AgentStates
    <2>6. QED  BY <2>1, <2>2, <2>3, <2>4, <2>5 DEF Matching
<1>19. ASSUME NEW b \in Boxes, AgentUnreachable(b)
      PROVE  Matching'
    <2>1. TypeOK'
        BY <1>0, <1>19
           DEF AgentUnreachable, Fault, Agent, TypeOK, ClientStates, ConnStates,
               AgentStates
    <2>2. NoGhostWaiter'
        BY <1>0, <1>19 DEF AgentUnreachable, Fault, Agent, TypeOK, NoGhostWaiter, Promised
    <2>3. Promised'
        BY <1>0, <1>19
           DEF AgentUnreachable, Fault, Agent, TypeOK, NoGhostWaiter, Promised, Receiving
    <2>4. NoLostWakeup'
        BY <1>0, <1>19
           DEF AgentUnreachable, Fault, Agent, TypeOK, NoGhostWaiter, Promised,
               NoLostWakeup
    <2>5. Connected'
        BY <1>0, <1>19 DEF AgentUnreachable, Fault, Agent, TypeOK, Connected, AgentStates
    <2>6. QED  BY <2>1, <2>2, <2>3, <2>4, <2>5 DEF Matching
<1>20. ASSUME RelayRestarts
      PROVE  Matching'
    <2>1. TypeOK'
        BY <1>0, <1>20
           DEF RelayRestarts, Fault, TypeOK, ClientStates, ConnStates, AgentStates
    <2>2. NoGhostWaiter'
        BY <1>0, <1>20 DEF RelayRestarts, Fault, TypeOK, NoGhostWaiter, Promised
    <2>3. Promised'
        BY <1>0, <1>20 DEF RelayRestarts, Fault, TypeOK, NoGhostWaiter, Promised, Receiving
    <2>4. NoLostWakeup'
        BY <1>0, <1>20
           DEF RelayRestarts, Fault, TypeOK, NoGhostWaiter, Promised, NoLostWakeup
    <2>5. Connected'
        BY <1>0, <1>20 DEF RelayRestarts, Fault, TypeOK, Connected, AgentStates
    <2>6. QED  BY <2>1, <2>2, <2>3, <2>4, <2>5 DEF Matching
<1>21. CASE UNCHANGED vars
    BY <1>0, <1>21
       DEF vars, Matching, TypeOK, NoGhostWaiter, Promised, NoLostWakeup, Connected,
                        Receiving
<1>22. QED
    BY <1>1, <1>2, <1>3, <1>4, <1>5, <1>6, <1>7, <1>8, <1>9, <1>10,
       <1>11, <1>12, <1>13, <1>14, <1>15, <1>16, <1>17, <1>18, <1>19, <1>20, <1>21
       DEF Next, ClientStep, RelayStep, AgentStep, FaultStep, SenderDropped, RelayNotices,
           SessionEnds

\* A count of permits stays right if a task takes or releases one of them.
LEMMA Recounted ==
    ASSUME NEW free \in Nat, NEW holders, IsFiniteSet(holders),
           NEW free1, NEW holders1, NEW all \in Nat,
           free + Cardinality(holders) = all,
           \/ free1 = free /\ holders1 = holders
           \/ free1 = free - 1 /\ \E x : x \notin holders /\ holders1 = holders \cup {x}
           \/ free1 = free + 1 /\ \E x \in holders : holders1 = holders \ {x}
    PROVE  free1 + Cardinality(holders1) = all
<1>0. Cardinality(holders) \in Nat
    BY FS_CardinalityType
<1>1. CASE free1 = free /\ holders1 = holders
    BY <1>1
<1>2. CASE free1 = free - 1 /\ \E x : x \notin holders /\ holders1 = holders \cup {x}
    <2>1. PICK x : x \notin holders /\ holders1 = holders \cup {x}
        BY <1>2
    <2>2. Cardinality(holders1) = Cardinality(holders) + 1
        BY <2>1, FS_AddElement
    <2>3. QED  BY <1>0, <1>2, <2>2
<1>3. CASE free1 = free + 1 /\ \E x \in holders : holders1 = holders \ {x}
    <2>1. PICK x \in holders : holders1 = holders \ {x}
        BY <1>3
    <2>2. Cardinality(holders1) = Cardinality(holders) - 1
        BY <2>1, FS_RemoveElement
    <2>3. QED  BY <1>0, <1>3, <2>2
<1>4. QED  BY <1>1, <1>2, <1>3

\* What a step does to the permits for agent connections, and to those for
\* clients: none moves, one is taken, or one is released.
SlotMoves ==
    \/ slots' = slots /\ SlotHolders' = SlotHolders
    \/ /\ slots' = slots - 1
       /\ \E g : g \notin SlotHolders /\ SlotHolders' = SlotHolders \cup {g}
    \/ slots' = slots + 1 /\ \E g \in SlotHolders : SlotHolders' = SlotHolders \ {g}
ClientMoves ==
    \/ clients' = clients /\ ClientHolders' = ClientHolders
    \/ /\ clients' = clients - 1
       /\ \E c : c \notin ClientHolders /\ ClientHolders' = ClientHolders \cup {c}
    \/ clients' = clients + 1 /\ \E c \in ClientHolders : ClientHolders' = ClientHolders \ {c}

\* Every step of a running relay moves at most one permit of each kind, with
\* the task that holds it.
LEMMA PermitsMove ==
    ASSUME RelayAssumption, Matching, [Next]_vars, ~RelayRestarts
    PROVE  SlotMoves /\ ClientMoves
<1>0. TypeOK /\ Promised
    BY DEF Matching
<1>s. ASSUME conn' = conn, slots' = slots
      PROVE  SlotMoves
    BY <1>s DEF SlotMoves, SlotHolders, Open, Receiving
<1>c. ASSUME pc' = pc, clients' = clients
      PROVE  ClientMoves
    BY <1>c DEF ClientMoves, ClientHolders
<1> USE DEF listVars, connVars, clientVars, agentVars
<1>1. ASSUME NEW c \in Clients, NEW b \in Boxes, ClientArrives(c, b)
      PROVE  SlotMoves /\ ClientMoves
    <2>1. c \notin ClientHolders /\ ClientHolders' = ClientHolders \cup {c}
        BY <1>0, <1>1 DEF ClientArrives, ClientHolders, TypeOK
    <2>2. ClientMoves
        BY <1>1, <2>1 DEF ClientArrives, ClientMoves
    <2>3. QED  BY <1>1, <1>s, <2>2 DEF ClientArrives
<1>2. ASSUME NEW c \in Clients, ClientLooks(c) \/ ClientParks(c) \/ ClientWakes(c)
      PROVE  SlotMoves /\ ClientMoves
    <2>1. ClientHolders' = ClientHolders
        BY <1>0, <1>2 DEF ClientLooks, ClientParks, ClientWakes, ClientHolders, TypeOK
    <2>2. ClientMoves
        BY <1>2, <2>1 DEF ClientLooks, ClientParks, ClientWakes, ClientMoves
    <2>3. QED  BY <1>2, <1>s, <2>2 DEF ClientLooks, ClientParks, ClientWakes
<1>3. ASSUME NEW c \in Clients, ClientGivesUp(c) \/ ClientUpgrades(c) \/ ClientUpgradeFails(c)
      PROVE  SlotMoves /\ ClientMoves
    <2>1. c \in ClientHolders /\ ClientHolders' = ClientHolders \ {c}
        BY <1>0, <1>3 DEF ClientGivesUp, ClientUpgrades, ClientUpgradeFails, Leaves,
                          ClientHolders, TypeOK
    <2>2. ClientMoves
        BY <1>3, <2>1 DEF ClientGivesUp, ClientUpgrades, ClientUpgradeFails, ClientMoves
    <2>3. QED  BY <1>3, <1>s, <2>2 DEF ClientGivesUp, ClientUpgrades, ClientUpgradeFails
<1>4. ASSUME NEW g \in Generations, Notify(g) \/ UpgradeCompletes(g)
      PROVE  SlotMoves /\ ClientMoves
    <2>1. SlotHolders' = SlotHolders
        BY <1>0, <1>4
           DEF Notify, UpgradeCompletes, Conn, SlotHolders, Open, Receiving, TypeOK
    <2>2. SlotMoves
        BY <1>4, <2>1 DEF Notify, UpgradeCompletes, SlotMoves
    <2>3. QED  BY <1>4, <1>c, <2>2 DEF Notify, UpgradeCompletes
<1>5. ASSUME NEW g \in Generations, ClientsDropped(g)
      PROVE  ClientHolders' = ClientHolders
    BY <1>0, <1>5 DEF ClientsDropped, ClientHolders, TypeOK
<1>6. ASSUME NEW g \in Generations, UpgradeFails(g)
      PROVE  SlotMoves /\ ClientMoves
    <2>1. g \in SlotHolders /\ SlotHolders' = SlotHolders \ {g}
        BY <1>0, <1>6 DEF UpgradeFails, Conn, SlotHolders, Open, Receiving, TypeOK
    <2>2. SlotMoves
        BY <1>6, <2>1 DEF UpgradeFails, SlotMoves
    <2>3. QED  BY <1>5, <1>6, <2>2 DEF UpgradeFails, ClientMoves
<1>7. ASSUME NEW g \in Generations, PairUp(g)
      PROVE  SlotMoves /\ ClientMoves
    <2>1. SlotHolders' = SlotHolders
        BY <1>0, <1>7 DEF PairUp, Conn, SlotHolders, Open, Receiving, TypeOK
    <2>2. PICK d \in Clients : match[d] = g /\ pc[d] = "offered"
        BY <1>7 DEF PairUp
    <2>3. \A c \in Clients : match[c] = g => c = d
        BY <1>0, <2>2 DEF Promised, RelayAssumption
    <2>4. ClientHolders' = ClientHolders
        BY <1>0, <1>7, <2>2, <2>3 DEF PairUp, ClientHolders, TypeOK
    <2>5. QED  BY <1>7, <2>1, <2>4 DEF PairUp, SlotMoves, ClientMoves
<1>8. ASSUME NEW g \in Generations, Ends(g, "waiting") \/ Ends(g, "paired")
      PROVE  SlotMoves /\ ClientMoves
    <2>1. SlotHolders' = SlotHolders
        BY <1>0, <1>8 DEF Ends, Conn, SlotHolders, Open, Receiving, TypeOK
    <2>2. QED  BY <1>5, <1>8, <2>1 DEF Ends, SlotMoves, ClientMoves
<1>9. ASSUME NEW g \in Generations, CleansUp(g)
      PROVE  SlotMoves /\ ClientMoves
    <2>1. CASE conn[g] = "cleanup"
        <3>1. g \in SlotHolders /\ SlotHolders' = SlotHolders \ {g}
            BY <1>0, <1>9, <2>1 DEF CleansUp, SlotHolders, Open, Receiving, TypeOK
        <3>2. SlotMoves
            BY <1>9, <2>1, <3>1 DEF CleansUp, SlotReleased, SlotMoves
        <3>3. QED  BY <1>9, <1>c, <3>2 DEF CleansUp
    <2>2. CASE conn[g] = "failed"
        <3>1. SlotHolders' = SlotHolders
            BY <1>0, <1>9, <2>2 DEF CleansUp, SlotHolders, Open, Receiving, TypeOK
        <3>2. SlotMoves
            BY <1>9, <2>2, <3>1 DEF CleansUp, SlotReleased, SlotMoves
        <3>3. QED  BY <1>9, <1>c, <3>2 DEF CleansUp
    <2>3. QED  BY <1>9, <2>1, <2>2 DEF CleansUp
<1>10. ASSUME NEW b \in Boxes, NEW g \in Generations, AgentArrives(b, g)
      PROVE  SlotMoves /\ ClientMoves
    <2>1. g \notin SlotHolders /\ SlotHolders' = SlotHolders \cup {g}
        BY <1>0, <1>10 DEF AgentArrives, Fresh, SlotHolders, Open, Receiving, TypeOK
    <2>2. SlotMoves
        BY <1>10, <2>1 DEF AgentArrives, SlotTaken, SlotMoves
    <2>3. QED  BY <1>10, <1>c, <2>2 DEF AgentArrives
<1>11. ASSUME NEW b \in Boxes,
              \/ AgentAcquires(b) \/ AgentRefused(b) \/ AgentWakes(b) \/ AgentReady(b)
              \/ AgentFails(b) \/ AgentUnreachable(b)
      PROVE  SlotMoves /\ ClientMoves
    BY <1>11, <1>s, <1>c
       DEF AgentAcquires, AgentRefused, AgentWakes, AgentReady, AgentFails, AgentUnreachable
<1>12. ASSUME NEW b \in Boxes, NEW g \in Generations, BridgeEnds(b, g)
      PROVE  SlotMoves /\ ClientMoves
    BY <1>12, <1>s, <1>c DEF BridgeEnds
<1>13. ASSUME NEW g \in Generations, LinkLost(g)
      PROVE  SlotMoves /\ ClientMoves
    BY <1>13, <1>s, <1>c DEF LinkLost
<1>14. CASE UNCHANGED vars
    BY <1>14, <1>s, <1>c DEF vars
<1>15. QED
    BY <1>1, <1>2, <1>3, <1>4, <1>6, <1>7, <1>8, <1>9, <1>10, <1>11, <1>12, <1>13, <1>14
       DEF Next, ClientStep, RelayStep, AgentStep, FaultStep, SenderDropped, RelayNotices,
           SessionEnds

\* The permits are accounted for after every step.
LEMMA PermitsStep ==
    ASSUME RelayAssumption
    PROVE  Matching /\ PermitsAccounted /\ [Next]_vars => PermitsAccounted'
<1> SUFFICES ASSUME Matching, PermitsAccounted, [Next]_vars
             PROVE  PermitsAccounted'
    OBVIOUS
<1>1. IsFiniteSet(SlotHolders) /\ IsFiniteSet(ClientHolders)
    BY FS_Subset DEF RelayAssumption, SlotHolders, ClientHolders
<1>2. slots \in Nat /\ clients \in Nat /\ MaxConnections \in Nat
    BY DEF Matching, TypeOK, RelayAssumption
<1>3. CASE RelayRestarts
    <2>1. SlotHolders' = {} /\ ClientHolders' = {}
        BY <1>3 DEF RelayRestarts, SlotHolders, ClientHolders, Open, Receiving
    <2>2. QED
        BY <1>2, <1>3, <2>1, FS_EmptySet DEF RelayRestarts, PermitsAccounted
<1>4. CASE ~RelayRestarts
    <2>1. SlotMoves /\ ClientMoves
        BY <1>4, PermitsMove
    <2>2. slots' + Cardinality(SlotHolders') = MaxConnections
        BY <1>1, <1>2, <2>1, Recounted DEF PermitsAccounted, SlotMoves
    <2>3. clients' + Cardinality(ClientHolders') = MaxConnections
        BY <1>1, <1>2, <2>1, Recounted DEF PermitsAccounted, ClientMoves
    <2>4. QED  BY <2>2, <2>3 DEF PermitsAccounted
<1>5. QED  BY <1>3, <1>4

\* A relay that starts has listed, promised and lent nothing.
LEMMA RelayStarts ==
    ASSUME RelayAssumption
    PROVE  Init => Matching /\ PermitsAccounted
<1> SUFFICES ASSUME Init
             PROVE  Matching /\ PermitsAccounted
    OBVIOUS
<1>1. TypeOK
    BY DEF Init, TypeOK, RelayAssumption, ConnStates, ClientStates, AgentStates
<1>2. NoGhostWaiter /\ Promised /\ NoLostWakeup /\ Connected
    BY DEF Init, NoGhostWaiter, Promised, NoLostWakeup, Connected
<1>3. SlotHolders = {} /\ ClientHolders = {}
    BY DEF Init, SlotHolders, ClientHolders, Open, Receiving
<1>4. PermitsAccounted
    BY <1>3, FS_EmptySet DEF Init, PermitsAccounted, RelayAssumption
<1>5. QED  BY <1>1, <1>2, <1>4 DEF Matching

\* The invariant of the relay, for every behaviour.
LEMMA RelayInvariant ==
    ASSUME RelayAssumption
    PROVE  Spec => [](Matching /\ PermitsAccounted)
<1>1. Init => Matching /\ PermitsAccounted
    BY RelayStarts
<1>2. Matching /\ PermitsAccounted /\ [Next]_vars => (Matching /\ PermitsAccounted)'
    BY MatchingStep, PermitsStep
<1>3. QED  BY <1>1, <1>2, PTL DEF Spec

\* Every state of the relay, its clients and its agents is typed (server.rs,
\* run_agent).
THEOREM RelayTyped ==
    ASSUME RelayAssumption
    PROVE  Spec => []TypeOK
<1>1. Matching => TypeOK
    BY DEF Matching
<1>2. QED  BY <1>1, RelayInvariant, PTL

\* No client waits beside an agent that is listed, and no entry of a dead
\* connection keeps a box's agent out, however requests, connections, faults
\* and restarts interleave (upgrade, remove_waiter).
THEOREM ClientsFindTheirAgent ==
    ASSUME RelayAssumption
    PROVE  Spec => []WaitersServed
<1>1. Matching => WaitersServed
    BY DEF Matching, WaitersServed
<1>2. QED  BY <1>1, RelayInvariant, PTL

\* An agent connection is given to one client at a time, and joins it to the
\* box it asked for (the removal of the entry under the lock, on_upgrade).
THEOREM NoSocketSharedOrMisrouted ==
    ASSUME RelayAssumption
    PROVE  Spec => []OneClientPerSocket
<1>1. Matching => OneClientPerSocket
    <2> SUFFICES ASSUME Matching, NEW c \in Clients, match[c] # None
                 PROVE  /\ \A b \in Boxes : waiting[b] # match[c]
                        /\ \A d \in Clients : match[d] = match[c] => d = c
                        /\ pc[c] \in {"offered", "served"} => route[match[c]] = want[c]
        BY DEF OneClientPerSocket
    <2>1. QED  BY DEF Matching, Promised, Receiving
<1>2. QED  BY <1>1, RelayInvariant, PTL

\* Neither semaphore loses or invents a permit, whichever way an upgrade, a
\* wait or a session ends (_permit, the on_upgrade callbacks).
THEOREM RelayPermitsAccounted ==
    ASSUME RelayAssumption
    PROVE  Spec => []PermitsAccounted
<1>1. QED  BY RelayInvariant, PTL

\* The end of an old connection never takes the entry of the one that replaced
\* it (remove_waiter compares the generation).
THEOREM OnlyOwnEntryRemoved ==
    ASSUME RelayAssumption
    PROVE  Spec => EntryTakenOrEnded
<1> DEFINE Kept == \A b \in Boxes :
              waiting[b] # None /\ waiting'[b] # waiting[b] =>
                  \/ \E c \in Clients : match'[c] = waiting[b]
                  \/ conn'[waiting[b]] = "closed"
<1>1. Matching /\ [Next]_vars => [Kept]_vars
    <2> SUFFICES ASSUME Matching, Next
                 PROVE  Kept
        OBVIOUS
    <2>0. TypeOK /\ NoGhostWaiter /\ Promised /\ None \notin Generations
        BY DEF Matching, RelayAssumption
    <2> USE DEF listVars, connVars, clientVars, agentVars
    <2>1. ASSUME NEW c \in Clients, ClientLooks(c)
          PROVE  Kept
        BY <2>0, <2>1 DEF ClientLooks, TypeOK, Promised
    <2>2. ASSUME NEW g \in Generations, CleansUp(g)
          PROVE  Kept
        BY <2>0, <2>2 DEF CleansUp, Removed, TypeOK
    <2>3. ASSUME NEW b \in Boxes, NEW g \in Generations, AgentArrives(b, g)
          PROVE  Kept
        BY <2>0, <2>3 DEF AgentArrives, TypeOK
    <2>4. CASE RelayRestarts
        BY <2>0, <2>4 DEF RelayRestarts, TypeOK
    <2>5. ASSUME waiting' = waiting
          PROVE  Kept
        BY <2>5
    <2>6. QED
        BY <2>1, <2>2, <2>3, <2>4, <2>5
           DEF Next, ClientStep, RelayStep, AgentStep, FaultStep, SenderDropped, RelayNotices,
               SessionEnds, Ends, ClientArrives, ClientParks, ClientWakes, ClientGivesUp,
               ClientUpgrades, ClientUpgradeFails, Notify, UpgradeCompletes, UpgradeFails,
               PairUp, AgentAcquires, BridgeEnds, AgentRefused, AgentReady, AgentFails,
               AgentWakes, LinkLost, AgentUnreachable
<1>2. QED  BY <1>1, RelayInvariant, PTL DEF Spec, EntryTakenOrEnded
=============================================================================
