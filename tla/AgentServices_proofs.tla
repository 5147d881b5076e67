------------------------- MODULE AgentServices_proofs -------------------------
(***************************************************************************)
(* What the services of the agent keep, for any number of callers, copies, *)
(* files and restarts and any limits: one inductive invariant per service, *)
(* a lemma per action, and the theorem that it holds.                      *)
(***************************************************************************)
EXTENDS
    AgentAdmission, FileTransfer, ExecPipes, TcpForward, ReverseForward,
    GuestSupervision, FiniteSetTheorems, TLAPS

-----------------------------------------------------------------------------
(***************************************************************************)
(* The listener: no permit is lost or given back twice                     *)
(***************************************************************************)

Pools == {"connection", "handshake", "exec", "file", "forward"}

AdmissionTyped ==
    /\ slots \in [Pools -> Nat]
    /\ backlog \in Seq(Callers)
    /\ ready \in BOOLEAN
    /\ line \in [Callers -> {"down", "backlog", "tls", "up"}]
    /\ call \in [Callers -> [stage : {"none", "asking", "opening", "working"},
                             kind : AllKinds \cup {"none"}]]

\* The handshake that runs is that of the one connection between accept and
\* use; the kernel's queue holds each waiting connection once.
BacklogQueued ==
    /\ \A c \in Callers : handshaking = c => line[c] = "tls"
    /\ \A i \in 1 .. Len(backlog) : line[backlog[i]] = "backlog"
    /\ \A i, j \in 1 .. Len(backlog) : backlog[i] = backlog[j] => i = j

\* A call that is under way is of some kind, one that opens a target a forward.
CallsKnown ==
    \A c \in Callers :
        /\ call[c].stage # "none" => call[c].kind \in AllKinds
        /\ call[c].stage = "opening" => call[c].kind = "forward"

AdmissionShape == AdmissionTyped /\ BacklogQueued /\ CallsKnown

\* The callers that hold a permit of the pool, and the permits the pool has.
Holders(pool) ==
    CASE pool = "connection" -> Connected
      [] pool = "handshake"  -> Asking
      [] OTHER               -> Holding(pool)

\* What the listener and the caller c hold of a pool.
Kept(pool) == IF pool = "connection" /\ ready THEN 1 ELSE 0
Owed(c, pool) == IF c \in Holders(pool) THEN 1 ELSE 0
\* A step in which nobody but c and the listener takes or gives: what they
\* hold less is free, what they hold more was.
Balanced(c) ==
    /\ \A d \in Callers \ {c}, pool \in Pools : Owed(d, pool)' = Owed(d, pool)
    /\ \A pool \in Pools :
           slots'[pool] + Kept(pool)' + Owed(c, pool)' = slots[pool] + Kept(pool) + Owed(c, pool)

\* Two sets that agree on all but one element differ by at most that one.
LEMMA Recount ==
    ASSUME IsFiniteSet(Callers), NEW S \in SUBSET Callers, NEW T \in SUBSET Callers,
           NEW c \in Callers, S \ {c} = T \ {c}
    PROVE  /\ Cardinality(S) \in Nat /\ Cardinality(T) \in Nat
           /\ Cardinality(T) + (IF c \in S THEN 1 ELSE 0)
                  = Cardinality(S) + (IF c \in T THEN 1 ELSE 0)
<1>1. IsFiniteSet(S) /\ IsFiniteSet(T)
    BY FS_Subset
<1>2. Cardinality(S) \in Nat /\ Cardinality(T) \in Nat
    BY <1>1, FS_CardinalityType
<1>3. Cardinality(S \ {c}) = IF c \in S THEN Cardinality(S) - 1 ELSE Cardinality(S)
    BY <1>1, FS_RemoveElement
<1>4. Cardinality(T \ {c}) = IF c \in T THEN Cardinality(T) - 1 ELSE Cardinality(T)
    BY <1>1, FS_RemoveElement
<1>5. Cardinality(S \ {c}) = Cardinality(T \ {c})
    OBVIOUS
<1>6. QED  BY <1>2, <1>3, <1>4, <1>5

\* Balanced steps keep the account of every pool.
LEMMA BalancedKeeps ==
    ASSUME AdmissionAssumption, AdmissionTyped, AdmissionTyped', PermitsHeld, NEW c \in Callers, Balanced(c)
    PROVE  PermitsHeld'
<1>1. ASSUME NEW pool \in Pools
      PROVE  /\ Cardinality(Holders(pool)) \in Nat /\ Cardinality(Holders(pool)') \in Nat
             /\ Cardinality(Holders(pool)') + Owed(c, pool)
                    = Cardinality(Holders(pool)) + Owed(c, pool)'
    <2>1. Holders(pool) \in SUBSET Callers /\ Holders(pool)' \in SUBSET Callers
        BY DEF Holders, Connected, Asking, Holding
    <2>2. \A d \in Callers \ {c} : d \in Holders(pool)' <=> d \in Holders(pool)
        BY DEF Balanced, Owed
    <2>3. Holders(pool) \ {c} = Holders(pool)' \ {c}
        BY <2>1, <2>2
    <2>4. IsFiniteSet(Callers)
        BY DEF AdmissionAssumption
    <2>5. QED  BY <2>1, <2>3, <2>4, Recount DEF Owed
<1>2. ASSUME NEW pool \in Pools
      PROVE  slots'[pool] + Kept(pool)' + Cardinality(Holders(pool)')
                 = slots[pool] + Kept(pool) + Cardinality(Holders(pool))
    <2>1. slots'[pool] + Kept(pool)' + Owed(c, pool)' = slots[pool] + Kept(pool) + Owed(c, pool)
        BY DEF Balanced
    <2>2. /\ slots[pool] \in Nat /\ slots'[pool] \in Nat
          /\ Kept(pool) \in Nat /\ Kept(pool)' \in Nat
          /\ Owed(c, pool) \in Nat /\ Owed(c, pool)' \in Nat
        BY DEF AdmissionTyped, Kept, Owed
    <2>3. QED  BY <1>1, <2>1, <2>2
<1>3. /\ Holders("connection") = Connected /\ Holders("connection")' = Connected'
      /\ Holders("handshake") = Asking /\ Holders("handshake")' = Asking'
      /\ \A pool \in {"exec", "file", "forward"} :
             Holders(pool) = Holding(pool) /\ Holders(pool)' = Holding(pool)'
    BY DEF Holders
<1>4. /\ Kept("connection") = (IF ready THEN 1 ELSE 0)
      /\ Kept("connection")' = (IF ready' THEN 1 ELSE 0)
      /\ \A pool \in Pools \ {"connection"} : Kept(pool) = 0 /\ Kept(pool)' = 0
    BY DEF Kept
<1>5. \A pool \in Pools :
          /\ Cardinality(Holders(pool)) \in Nat /\ Cardinality(Holders(pool)') \in Nat
          /\ slots[pool] \in Nat /\ slots'[pool] \in Nat
    BY <1>1 DEF AdmissionTyped
<1>6. /\ slots'["connection"] + Cardinality(Connected') + (IF ready' THEN 1 ELSE 0) = MaxConnections
      /\ slots'["handshake"] + Cardinality(Asking') = MaxHandshakes
    BY <1>2, <1>3, <1>4, <1>5 DEF PermitsHeld, Pools
<1>7. /\ slots'["exec"] + Cardinality(Holding("exec")') = MaxExecs
      /\ slots'["file"] + Cardinality(Holding("file")') = MaxFiles
      /\ slots'["forward"] + Cardinality(Holding("forward")') = MaxForwards
    BY <1>2, <1>3, <1>4, <1>5 DEF PermitsHeld, Pools
<1>8. QED  BY <1>6, <1>7 DEF PermitsHeld

\* The shape of connections and calls is kept by every step.
LEMMA AdmissionShapeStep ==
    ASSUME AdmissionAssumption
    PROVE  AdmissionShape /\ [AdmissionNext]_admissionVars => AdmissionShape'
<1> SUFFICES ASSUME AdmissionShape, [AdmissionNext]_admissionVars
             PROVE  AdmissionShape'
    OBVIOUS
<1> USE DEF AdmissionAssumption, AdmissionShape, AdmissionTyped, BacklogQueued, CallsKnown, Pools
<1>1. ASSUME NEW c \in Callers, Dials(c)
      PROVE  AdmissionShape'
    <2>1. /\ backlog' = Append(backlog, c) /\ backlog' \in Seq(Callers)
          /\ Len(backlog') = Len(backlog) + 1
          /\ \A i \in 1 .. Len(backlog) : backlog'[i] = backlog[i] /\ backlog[i] # c
          /\ backlog'[Len(backlog) + 1] = c
        BY <1>1 DEF Dials
    <2>2. AdmissionTyped' /\ CallsKnown'
        BY <1>1, <2>1 DEF Dials
    <2>3. \A d \in Callers : handshaking' = d => line'[d] = "tls"
        BY <1>1 DEF Dials
    <2>4. ASSUME NEW i \in 1 .. Len(backlog')
          PROVE  line'[backlog'[i]] = "backlog"
        <3>1. line' = [line EXCEPT ![c] = "backlog"] /\ line \in [Callers -> {"down", "backlog", "tls", "up"}]
            BY <1>1 DEF Dials
        <3>2. CASE i = Len(backlog) + 1
            BY <2>1, <3>1, <3>2
        <3>3. CASE i # Len(backlog) + 1
            <4>1. backlog \in Seq(Callers) /\ Len(backlog) \in Nat
                OBVIOUS
            <4>2. i \in 1 .. Len(backlog)
                BY <2>1, <3>3, <4>1
            <4>3. backlog[i] \in Callers
                BY <4>1, <4>2
            <4>4. line[backlog[i]] = "backlog"
                BY <4>2
            <4>5. QED  BY <2>1, <3>1, <4>2, <4>3, <4>4
        <3>4. QED  BY <3>2, <3>3
    <2>5. ASSUME NEW i \in 1 .. Len(backlog'), NEW j \in 1 .. Len(backlog'),
                 backlog'[i] = backlog'[j]
          PROVE  i = j
        <3>1. Len(backlog) \in Nat
            OBVIOUS
        <3>2. /\ i \in 1 .. Len(backlog) \/ i = Len(backlog) + 1
              /\ j \in 1 .. Len(backlog) \/ j = Len(backlog) + 1
            BY <2>1, <3>1
        <3>3. CASE i \in 1 .. Len(backlog) /\ j \in 1 .. Len(backlog)
            BY <2>1, <2>5, <3>3
        <3>4. CASE ~(i \in 1 .. Len(backlog) /\ j \in 1 .. Len(backlog))
            BY <2>1, <2>5, <3>2, <3>4
        <3>5. QED  BY <3>3, <3>4
    <2>6. QED  BY <2>2, <2>3, <2>4, <2>5
<1>2. ASSUME AcquiresPermit
      PROVE  AdmissionShape'
    <2>1. /\ slots["connection"] > 0 /\ slots' = [slots EXCEPT !["connection"] = @ - 1]
          /\ ready' = TRUE /\ UNCHANGED <<backlog, handshaking, line, call>>
        BY <1>2 DEF AcquiresPermit, Take
    <2>2. slots' \in [Pools -> Nat]
        BY <2>1
    <2>3. QED  BY <2>1, <2>2
<1>3. ASSUME Accepts \/ AcceptFails
      PROVE  AdmissionShape'
    <2> DEFINE first == Head(backlog)
    <2>1. backlog # <<>> /\ backlog' = Tail(backlog) /\ UNCHANGED call
        BY <1>3 DEF Accepts, AcceptFails
    <2>2. /\ Len(backlog) \in Nat \ {0} /\ Len(backlog') = Len(backlog) - 1
          /\ backlog' \in Seq(Callers)
          /\ \A i \in 1 .. Len(backlog') : backlog'[i] = backlog[i + 1]
          /\ first = backlog[1] /\ first \in Callers
        BY <2>1
    <2>3. \A d \in Callers \ {first} : line'[d] = line[d]
        BY <1>3, <2>2 DEF Accepts, AcceptFails
    <2>4. AdmissionTyped'
        <3>1. /\ slots' = slots \/ slots' = [slots EXCEPT !["connection"] = @ + 1]
              /\ line' = [line EXCEPT ![first] = "tls"] \/ line' = [line EXCEPT ![first] = "down"]
              /\ ready' = FALSE
            BY <1>3 DEF Accepts, AcceptFails, Give
        <3>2. slots' \in [Pools -> Nat]
            BY <3>1
        <3>3. line' \in [Callers -> {"down", "backlog", "tls", "up"}]
            BY <3>1
        <3>4. QED  BY <2>1, <2>2, <3>1, <3>2, <3>3
    <2>5. ASSUME NEW i \in 1 .. Len(backlog')
          PROVE  line'[backlog'[i]] = "backlog"
        <3>1. i + 1 \in 1 .. Len(backlog) /\ 1 \in 1 .. Len(backlog) /\ i + 1 # 1
            BY <2>2
        <3>2. backlog[i + 1] \in Callers /\ line[backlog[i + 1]] = "backlog"
            BY <3>1
        <3>3. backlog[i + 1] # backlog[1]
            BY <3>1
        <3>4. backlog'[i] = backlog[i + 1] /\ first = backlog[1]
            BY <2>2
        <3>5. QED  BY <2>3, <3>2, <3>3, <3>4
    <2>6. ASSUME NEW i \in 1 .. Len(backlog'), NEW j \in 1 .. Len(backlog'),
                 backlog'[i] = backlog'[j]
          PROVE  i = j
        <3>1. i + 1 \in 1 .. Len(backlog) /\ j + 1 \in 1 .. Len(backlog)
            BY <2>2
        <3>2. backlog[i + 1] = backlog[j + 1]
            BY <2>2, <2>6
        <3>3. i + 1 = j + 1
            BY <3>1, <3>2
        <3>4. QED  BY <2>2, <3>3
    <2>7. \A d \in Callers : handshaking' = d => line'[d] = "tls"
        <3>1. line[first] = "backlog"
            BY <2>2
        <3>2. QED  BY <1>3, <2>2, <2>3, <3>1 DEF Accepts, AcceptFails
    <2>8. QED  BY <2>1, <2>4, <2>5, <2>6, <2>7
<1>4. ASSUME NEW c \in Callers, Handshake(c) \/ HangsUp(c)
      PROVE  AdmissionShape'
    <2>1. AdmissionTyped'
        <3>1. CASE Handshake(c)
            <4>1. /\ slots' = slots \/ slots' = [slots EXCEPT !["connection"] = @ + 1]
                  /\ line' = [line EXCEPT ![c] = "up"] \/ line' = [line EXCEPT ![c] = "down"]
                  /\ UNCHANGED <<backlog, ready, call>>
                BY <3>1 DEF Handshake, HandshakeSucceeds, HandshakeFails, Give
            <4>2. slots' \in [Pools -> Nat]
                BY <4>1
            <4>3. line' \in [Callers -> {"down", "backlog", "tls", "up"}]
                BY <4>1
            <4>4. QED  BY <4>1, <4>2, <4>3
        <3>2. CASE HangsUp(c)
            BY <3>2 DEF HangsUp, Idle
        <3>3. QED  BY <1>4, <3>1, <3>2
    <2>2. \A i \in 1 .. Len(backlog) : backlog[i] # c
        BY <1>4 DEF Handshake, HandshakeSucceeds, HandshakeFails, HangsUp
    <2>3. /\ backlog' = backlog
          /\ \A d \in Callers \ {c} : line'[d] = line[d]
        BY <1>4 DEF Handshake, HandshakeSucceeds, HandshakeFails, HangsUp
    <2>4. \A i \in 1 .. Len(backlog) : backlog[i] \in Callers
        OBVIOUS
    <2>5. \A d \in Callers : handshaking' = d => line'[d] = "tls"
        BY <1>4 DEF Handshake, HandshakeSucceeds, HandshakeFails, HangsUp
    <2>6. CallsKnown'
        BY <1>4 DEF Handshake, HandshakeSucceeds, HandshakeFails, HangsUp, Idle
    <2>7. QED  BY <2>1, <2>2, <2>3, <2>4, <2>5, <2>6
<1>5. ASSUME NEW c \in Callers,
             \/ \E kind \in CallKinds : Calls(c, kind)
             \/ FirstMessage(c) \/ FirstMessageRejected(c) \/ AsksForFile(c)
             \/ TargetOpens(c) \/ TargetRefused(c) \/ WorkEnds(c)
      PROVE  AdmissionShape'
    <2>1. UNCHANGED <<backlog, ready, handshaking, line>>
        BY <1>5 DEF Calls, FirstMessage, FirstMessageRejected, AsksForFile, TargetOpens,
                    TargetRefused, WorkEnds
    <2>2. slots' \in [Pools -> Nat]
        <3>1. CASE \/ \E kind \in CallKinds : Calls(c, kind)
                   \/ FirstMessageRejected(c) \/ AsksForFile(c)
                   \/ TargetOpens(c) \/ TargetRefused(c)
            <4>1. \/ slots' = slots
                  \/ \E pool \in Pools : slots' = [slots EXCEPT ![pool] = @ + 1]
                  \/ \E pool \in Pools : slots[pool] > 0 /\ slots' = [slots EXCEPT ![pool] = @ - 1]
                BY <3>1 DEF Calls, FirstMessageRejected, AsksForFile, TargetOpens, TargetRefused,
                            Take, Give
            <4>2. ASSUME NEW pool \in Pools, slots' = [slots EXCEPT ![pool] = @ + 1]
                  PROVE  slots' \in [Pools -> Nat]
                BY <4>2
            <4>3. ASSUME NEW pool \in Pools, slots[pool] > 0, slots' = [slots EXCEPT ![pool] = @ - 1]
                  PROVE  slots' \in [Pools -> Nat]
                BY <4>3
            <4>4. QED  BY <4>1, <4>2, <4>3
        <3>2. CASE FirstMessage(c)
            <4>1. Class(call[c].kind) \in {"exec", "file", "forward"}
                BY <3>2 DEF FirstMessage, Class, AllKinds
            <4>2. \/ slots' = [slots EXCEPT !["handshake"] = @ + 1]
                  \/ /\ slots[Class(call[c].kind)] > 0
                     /\ slots' = [slots EXCEPT !["handshake"] = @ + 1,
                                              ![Class(call[c].kind)] = @ - 1]
                BY <3>2 DEF FirstMessage, Give
            <4>3. QED  BY <4>1, <4>2
        <3>3. CASE WorkEnds(c)
            <4>1. Class(call[c].kind) \in {"exec", "file", "forward"}
                BY <3>3 DEF WorkEnds, Class, AllKinds
            <4>2. QED  BY <3>3, <4>1 DEF WorkEnds, Give
        <3>4. QED  BY <1>5, <3>1, <3>2, <3>3
    <2>3. /\ call' \in [Callers -> [stage : {"none", "asking", "opening", "working"},
                                    kind : AllKinds \cup {"none"}]]
          /\ CallsKnown'
        <3>1. CASE \E kind \in CallKinds : Calls(c, kind)
            BY <3>1 DEF Calls
        <3>2. CASE FirstMessage(c)
            <4>1. CASE call' = [call EXCEPT ![c] = Idle]
                BY <4>1 DEF Idle
            <4>2. CASE call' = [call EXCEPT ![c].stage =
                                   IF call[c].kind = "forward" THEN "opening" ELSE "working"]
                BY <3>2, <4>2 DEF FirstMessage
            <4>3. QED  BY <3>2, <4>1, <4>2 DEF FirstMessage
        <3>3. CASE FirstMessageRejected(c) \/ TargetRefused(c) \/ WorkEnds(c)
            <4>1. call' = [call EXCEPT ![c] = Idle]
                BY <3>3 DEF FirstMessageRejected, TargetRefused, WorkEnds
            <4>2. QED  BY <4>1 DEF Idle
        <3>4. CASE AsksForFile(c)
            BY <3>4 DEF AsksForFile, AllKinds
        <3>5. CASE TargetOpens(c)
            BY <3>5 DEF TargetOpens, AllKinds
        <3>6. QED  BY <1>5, <3>1, <3>2, <3>3, <3>4, <3>5
    <2>4. QED  BY <2>1, <2>2, <2>3
<1>6. CASE UNCHANGED admissionVars
    BY <1>6 DEF admissionVars
<1>7. QED
    BY <1>1, <1>2, <1>3, <1>4, <1>5, <1>6 DEF AdmissionNext, Listener

\* What a caller holds of each pool, by its connection and its call.
Works(c, kinds) == call[c].stage \in {"opening", "working"} /\ call[c].kind \in kinds
LEMMA OwedMeans ==
    ASSUME NEW c \in Callers, CallsKnown, CallsKnown'
    PROVE  /\ Owed(c, "connection") = (IF line[c] \in {"tls", "up"} THEN 1 ELSE 0)
           /\ Owed(c, "handshake") = (IF call[c].stage = "asking" THEN 1 ELSE 0)
           /\ Owed(c, "exec") = (IF Works(c, {"exec"}) THEN 1 ELSE 0)
           /\ Owed(c, "file") = (IF Works(c, {"put_file", "get_file"}) THEN 1 ELSE 0)
           /\ Owed(c, "forward") = (IF Works(c, {"forward"}) THEN 1 ELSE 0)
           /\ Owed(c, "connection")' = (IF line'[c] \in {"tls", "up"} THEN 1 ELSE 0)
           /\ Owed(c, "handshake")' = (IF call'[c].stage = "asking" THEN 1 ELSE 0)
           /\ Owed(c, "exec")' = (IF Works(c, {"exec"})' THEN 1 ELSE 0)
           /\ Owed(c, "file")' = (IF Works(c, {"put_file", "get_file"})' THEN 1 ELSE 0)
           /\ Owed(c, "forward")' = (IF Works(c, {"forward"})' THEN 1 ELSE 0)
<1> USE DEF Owed, Works, CallsKnown, AllKinds, Class
<1>1. /\ Holders("connection") = Connected /\ Holders("connection")' = Connected'
      /\ Holders("handshake") = Asking /\ Holders("handshake")' = Asking'
    BY DEF Holders
<1>2. /\ Holders("exec") = Holding("exec") /\ Holders("exec")' = Holding("exec")'
      /\ Holders("file") = Holding("file") /\ Holders("file")' = Holding("file")'
      /\ Holders("forward") = Holding("forward") /\ Holders("forward")' = Holding("forward")'
    BY DEF Holders
<1>3. /\ Owed(c, "connection") = (IF line[c] \in {"tls", "up"} THEN 1 ELSE 0)
      /\ Owed(c, "connection")' = (IF line'[c] \in {"tls", "up"} THEN 1 ELSE 0)
      /\ Owed(c, "handshake") = (IF call[c].stage = "asking" THEN 1 ELSE 0)
      /\ Owed(c, "handshake")' = (IF call'[c].stage = "asking" THEN 1 ELSE 0)
    BY <1>1 DEF Connected, Asking
<1>4. /\ Owed(c, "exec") = (IF Works(c, {"exec"}) THEN 1 ELSE 0)
      /\ Owed(c, "exec")' = (IF Works(c, {"exec"})' THEN 1 ELSE 0)
    BY <1>2 DEF Holding
<1>5. /\ Owed(c, "file") = (IF Works(c, {"put_file", "get_file"}) THEN 1 ELSE 0)
      /\ Owed(c, "file")' = (IF Works(c, {"put_file", "get_file"})' THEN 1 ELSE 0)
    BY <1>2 DEF Holding
<1>6. /\ Owed(c, "forward") = (IF Works(c, {"forward"}) THEN 1 ELSE 0)
      /\ Owed(c, "forward")' = (IF Works(c, {"forward"})' THEN 1 ELSE 0)
    BY <1>2 DEF Holding
<1>7. QED  BY <1>3, <1>4, <1>5, <1>6

\* Who keeps connection and call owes what it owed.
LEMMA OthersOwe ==
    ASSUME NEW d \in Callers, NEW pool, line'[d] = line[d], call'[d] = call[d]
    PROVE  Owed(d, pool)' = Owed(d, pool)
BY DEF Owed, Holders, Connected, Asking, Holding

\* Every action but the listener's own is balanced by its caller; so is an
\* accept, by the connection at the head of the queue.
LEMMA StepBalanced ==
    ASSUME AdmissionAssumption, AdmissionShape, AdmissionShape', NEW c \in Callers,
           \/ Dials(c) \/ Handshake(c) \/ HangsUp(c)
           \/ (Accepts \/ AcceptFails) /\ c = Head(backlog)
           \/ \E kind \in CallKinds : Calls(c, kind)
           \/ FirstMessage(c) \/ FirstMessageRejected(c) \/ AsksForFile(c)
           \/ TargetOpens(c) \/ TargetRefused(c) \/ WorkEnds(c)
    PROVE  Balanced(c)
<1> USE DEF AdmissionShape, AdmissionTyped, CallsKnown, Kept, Pools
<1>1. \A d \in Callers \ {c}, pool \in Pools : Owed(d, pool)' = Owed(d, pool)
    <2>1. \A d \in Callers \ {c} : line'[d] = line[d] /\ call'[d] = call[d]
        <3>1. CASE \/ Dials(c) \/ Handshake(c) \/ HangsUp(c)
                   \/ (Accepts \/ AcceptFails) /\ c = Head(backlog)
            BY <3>1 DEF Dials, Handshake, HandshakeSucceeds, HandshakeFails, HangsUp,
                        Accepts, AcceptFails
        <3>2. CASE \/ \E kind \in CallKinds : Calls(c, kind)
                   \/ FirstMessage(c) \/ FirstMessageRejected(c) \/ AsksForFile(c)
                   \/ TargetOpens(c) \/ TargetRefused(c) \/ WorkEnds(c)
            BY <3>2 DEF Calls, FirstMessage, FirstMessageRejected, AsksForFile, TargetOpens,
                        TargetRefused, WorkEnds
        <3>3. QED  BY <3>1, <3>2
    <2>2. QED  BY <2>1, OthersOwe
<1>2. ASSUME \A pool \in Pools :
                 slots'[pool] + Kept(pool)' + Owed(c, pool)' = slots[pool] + Kept(pool) + Owed(c, pool)
      PROVE  Balanced(c)
    BY <1>1, <1>2 DEF Balanced
<1>3. CASE Dials(c) \/ Handshake(c)
    <2>1. call' = call
        BY <1>3 DEF Dials, Handshake, HandshakeSucceeds, HandshakeFails
    <2>2. \A pool \in Pools \ {"connection"} :
              slots'[pool] = slots[pool] /\ Owed(c, pool)' = Owed(c, pool)
        <3>1. \A pool \in Pools \ {"connection"} : slots'[pool] = slots[pool]
            BY <1>3 DEF Dials, Handshake, HandshakeSucceeds, HandshakeFails, Give
        <3>2. QED  BY <2>1, <3>1, OwedMeans DEF Works
    <2>3. slots'["connection"] + Kept("connection")' + Owed(c, "connection")'
              = slots["connection"] + Kept("connection") + Owed(c, "connection")
        BY <1>3, OwedMeans, SMTT(30) DEF Dials, Handshake, HandshakeSucceeds, HandshakeFails, Give, BacklogQueued
    <2>4. QED  BY <1>2, <2>2, <2>3
<1>4. CASE (Accepts \/ AcceptFails) /\ c = Head(backlog)
    <2>1. line[c] = "backlog" /\ call' = call
        BY <1>4 DEF Accepts, AcceptFails, BacklogQueued
    <2>2. \A pool \in Pools \ {"connection"} :
              slots'[pool] = slots[pool] /\ Owed(c, pool)' = Owed(c, pool)
        <3>1. \A pool \in Pools \ {"connection"} : slots'[pool] = slots[pool]
            BY <1>4 DEF Accepts, AcceptFails, Give
        <3>2. QED  BY <2>1, <3>1, OwedMeans DEF Works
    <2>3. slots'["connection"] + Kept("connection")' + Owed(c, "connection")'
              = slots["connection"] + Kept("connection") + Owed(c, "connection")
        <3>1. Owed(c, "connection") = 0 /\ Kept("connection") = 1 /\ Kept("connection")' = 0
            BY <1>4, <2>1, OwedMeans DEF Accepts, AcceptFails
        <3>2. CASE Accepts
            <4>1. slots' = slots /\ line'[c] = "tls"
                BY <1>4, <3>2 DEF Accepts
            <4>2. Owed(c, "connection")' = 1
                BY <4>1, OwedMeans
            <4>3. slots'["connection"] = slots["connection"] /\ slots["connection"] \in Nat
                BY <4>1
            <4>4. QED  BY <3>1, <4>2, <4>3
        <3>3. CASE AcceptFails
            <4>1. slots'["connection"] = slots["connection"] + 1 /\ line'[c] = "down"
                BY <1>4, <3>3 DEF AcceptFails, Give
            <4>2. Owed(c, "connection")' = 0
                BY <4>1, OwedMeans
            <4>3. QED  BY <3>1, <4>1, <4>2
        <3>4. QED  BY <1>4, <3>2, <3>3
    <2>4. QED  BY <1>2, <2>2, <2>3
<1>5. CASE HangsUp(c)
    <2>1. \A pool \in Pools :
              slots'[pool] = slots[pool] + (IF pool \in {"connection", Dropped(c)} THEN 1 ELSE 0)
        BY <1>5 DEF HangsUp
    <2>2. slots'["connection"] + Owed(c, "connection")'
              = slots["connection"] + Owed(c, "connection")
        BY <1>5, <2>1, OwedMeans DEF HangsUp
    <2>3. \A pool \in Pools \ {"connection"} :
              slots'[pool] + Owed(c, pool)' = slots[pool] + Owed(c, pool)
        <3>1. CASE Dropped(c) = "none"
            BY <1>5, <2>1, <3>1, OwedMeans DEF HangsUp, Works
        <3>2. CASE Dropped(c) # "none"
            <4>1. call'[c].stage = "none"
                BY <1>5, <3>2 DEF HangsUp, Idle
            <4>2. CASE call[c].stage = "asking"
                BY <2>1, <4>1, <4>2, OwedMeans, SMTT(30) DEF Dropped, Works
            <4>3. CASE call[c].stage = "opening"
                <5>1. call[c].kind = "forward" /\ Dropped(c) = "forward"
                    BY <4>3 DEF Dropped
                <5>2. /\ Works(c, {"forward"})
                      /\ ~Works(c, {"exec"}) /\ ~Works(c, {"put_file", "get_file"})
                    BY <4>3, <5>1 DEF Works
                <5>3. /\ ~Works(c, {"forward"})'
                      /\ ~Works(c, {"exec"})' /\ ~Works(c, {"put_file", "get_file"})'
                    BY <4>1 DEF Works
                <5>4. QED  BY <2>1, <4>1, <4>3, <5>1, <5>2, <5>3, OwedMeans, SMTT(30)
            <4>4. CASE call[c].stage = "working"
                <5>1. call[c].kind = "put_file" /\ Dropped(c) = "file"
                    BY <3>2, <4>4 DEF Dropped, Spawned
                <5>2. QED  BY <2>1, <4>1, <4>4, <5>1, OwedMeans, SMTT(30) DEF Works
            <4>5. QED  BY <3>2, <4>2, <4>3, <4>4 DEF Dropped
        <3>3. QED  BY <3>1, <3>2
    <2>4. \A pool \in Pools : Kept(pool)' = Kept(pool) /\ Kept(pool) \in Nat
        BY <1>5 DEF HangsUp
    <2>5. \A pool \in Pools : /\ slots[pool] \in Nat /\ slots'[pool] \in Nat
                              /\ Owed(c, pool) \in Nat /\ Owed(c, pool)' \in Nat
        BY DEF Owed
    <2>6. ASSUME NEW pool \in Pools
          PROVE  slots'[pool] + Kept(pool)' + Owed(c, pool)'
                     = slots[pool] + Kept(pool) + Owed(c, pool)
        <3> HIDE DEF AdmissionShape, AdmissionTyped, CallsKnown, Kept, Pools
        <3>1. slots'[pool] + Owed(c, pool)' = slots[pool] + Owed(c, pool)
            BY <2>2, <2>3
        <3>2. QED  BY <2>4, <2>5, <3>1
    <2>7. QED  BY <1>2, <2>6
<1>6. ASSUME UNCHANGED <<ready, line>>,
             \A pool \in Pools \ {"connection"} : slots'[pool] + Owed(c, pool)' = slots[pool] + Owed(c, pool),
             slots'["connection"] = slots["connection"]
      PROVE  Balanced(c)
    <2>1. \A pool \in Pools : Kept(pool)' = Kept(pool) /\ Kept(pool) \in Nat
        BY <1>6
    <2>2. \A pool \in Pools : /\ slots[pool] \in Nat /\ slots'[pool] \in Nat
                              /\ Owed(c, pool) \in Nat /\ Owed(c, pool)' \in Nat
        BY DEF Owed
    <2>3. Owed(c, "connection")' = Owed(c, "connection")
        BY <1>6, OwedMeans
    <2>4. ASSUME NEW pool \in Pools
          PROVE  slots'[pool] + Kept(pool)' + Owed(c, pool)'
                     = slots[pool] + Kept(pool) + Owed(c, pool)
        <3> HIDE DEF AdmissionShape, AdmissionTyped, CallsKnown, Kept, Pools
        <3>1. slots'[pool] + Owed(c, pool)' = slots[pool] + Owed(c, pool)
            BY <1>6, <2>2, <2>3
        <3>2. QED  BY <2>1, <2>2, <3>1
    <2>5. QED  BY <1>2, <2>4
<1>7. CASE \/ \E kind \in CallKinds : Calls(c, kind)
           \/ FirstMessageRejected(c) \/ AsksForFile(c) \/ TargetOpens(c) \/ TargetRefused(c)
    <2>1. UNCHANGED <<ready, line>> /\ slots'["connection"] = slots["connection"]
        BY <1>7 DEF Calls, FirstMessageRejected, AsksForFile, TargetOpens, TargetRefused, Take, Give
    <2>2. \A pool \in Pools \ {"connection"} : slots'[pool] + Owed(c, pool)' = slots[pool] + Owed(c, pool)
        <3>1. CASE \E kind \in CallKinds : Calls(c, kind)
            <4>1. PICK kind \in CallKinds : Calls(c, kind)
                BY <3>1
            <4>2. /\ slots' = [slots EXCEPT !["handshake"] = @ - 1]
                  /\ call[c].stage = "none" /\ call'[c].stage = "asking"
                BY <4>1 DEF Calls, Take, Idle
            <4>3. \A kinds : ~Works(c, kinds) /\ ~Works(c, kinds)'
                BY <4>2 DEF Works
            <4>4. /\ slots'["handshake"] = slots["handshake"] - 1 /\ slots["handshake"] \in Nat
                  /\ \A p \in Pools \ {"handshake"} : slots'[p] = slots[p] /\ slots[p] \in Nat
                BY <4>2
            <4>5. /\ Owed(c, "handshake") = 0 /\ Owed(c, "handshake")' = 1
                  /\ \A p \in {"exec", "file", "forward"} : Owed(c, p) = 0 /\ Owed(c, p)' = 0
                BY <4>2, <4>3, OwedMeans
            <4>6. QED  BY <4>4, <4>5
        <3>2. CASE FirstMessageRejected(c)
            BY <3>2, OwedMeans DEF FirstMessageRejected, Give, Idle, Works
        <3>3. CASE AsksForFile(c)
            BY <3>3, OwedMeans, SMTT(30) DEF AsksForFile, Take, Idle, Works
        <3>4. CASE TargetOpens(c)
            BY <3>4, OwedMeans DEF TargetOpens, Works
        <3>5. CASE TargetRefused(c)
            BY <3>5, OwedMeans DEF TargetRefused, Give, Idle, Works
        <3>6. QED  BY <1>7, <3>1, <3>2, <3>3, <3>4, <3>5
    <2>3. QED  BY <1>6, <2>1, <2>2
<1>8. CASE FirstMessage(c) \/ WorkEnds(c)
    <2> DEFINE pool == Class(call[c].kind)
    <2>1. pool \in {"exec", "file", "forward"} /\ call[c].kind \in AllKinds
        BY <1>8 DEF FirstMessage, WorkEnds, Class, AllKinds
    <2>2. UNCHANGED <<ready, line>> /\ slots'["connection"] = slots["connection"]
        <3>1. CASE WorkEnds(c)
            BY <2>1, <3>1 DEF WorkEnds, Give
        <3>2. CASE FirstMessage(c)
            <4>1. UNCHANGED <<ready, line>>
                BY <3>2 DEF FirstMessage
            <4>2. \/ slots' = [slots EXCEPT !["handshake"] = @ + 1, ![pool] = @ - 1]
                  \/ slots' = [slots EXCEPT !["handshake"] = @ + 1]
                BY <3>2 DEF FirstMessage, Give
            <4>3. QED  BY <2>1, <4>1, <4>2
        <3>3. QED  BY <1>8, <3>1, <3>2
    <2>3. \A p \in Pools \ {"connection"} : slots'[p] + Owed(c, p)' = slots[p] + Owed(c, p)
        <3>1. CASE WorkEnds(c)
            BY <3>1, <2>1, OwedMeans DEF WorkEnds, Give, Idle, Works, Class, AllKinds
        <3>2. CASE FirstMessage(c)
            <4>1. call[c].stage = "asking"
                BY <3>2 DEF FirstMessage
            <4>2. CASE slots' = Give("handshake") /\ call' = [call EXCEPT ![c] = Idle]
                BY <4>1, <4>2, OwedMeans DEF Give, Idle, Works
            <4>3. CASE /\ slots' = [slots EXCEPT !["handshake"] = @ + 1, ![pool] = @ - 1]
                       /\ call' = [call EXCEPT ![c].stage =
                                     IF call[c].kind = "forward" THEN "opening" ELSE "working"]
                <5>1. /\ call'[c].stage \in {"opening", "working"} /\ call'[c].kind = call[c].kind
                      /\ slots'["handshake"] = slots["handshake"] + 1
                      /\ slots'[pool] = slots[pool] - 1
                      /\ \A p \in Pools \ {"handshake", pool} : slots'[p] = slots[p]
                    BY <2>1, <4>3
                <5>2. QED  BY <2>1, <4>1, <5>1, OwedMeans, SMTT(30) DEF Works, Class, AllKinds
            <4>4. QED  BY <3>2, <4>2, <4>3 DEF FirstMessage
        <3>3. QED  BY <1>8, <3>1, <3>2
    <2>4. QED  BY <1>6, <2>2, <2>3
<1>9. QED  BY <1>3, <1>4, <1>5, <1>7, <1>8

\* The account of every pool is kept by every step.
LEMMA AdmissionStep ==
    ASSUME AdmissionAssumption, AdmissionShape, PermitsHeld, [AdmissionNext]_admissionVars
    PROVE  PermitsHeld'
<1>1. AdmissionShape' /\ AdmissionTyped /\ AdmissionTyped'
    BY AdmissionShapeStep DEF AdmissionShape
<1>2. ASSUME NEW c \in Callers, Balanced(c)
      PROVE  PermitsHeld'
    BY <1>1, <1>2, BalancedKeeps
<1>3. CASE AcquiresPermit
    <2>1. Cardinality(Connected) \in Nat /\ slots["connection"] \in Nat
        <3>1. Connected \in SUBSET Callers
            BY DEF Connected
        <3>2. QED  BY <1>1, <3>1, FS_Subset, FS_CardinalityType DEF AdmissionAssumption, AdmissionTyped, Pools
    <2>2. /\ Connected' = Connected /\ Asking' = Asking
          /\ \A pool : Holding(pool)' = Holding(pool)
        BY <1>3 DEF AcquiresPermit, Connected, Asking, Holding
    <2>3. /\ slots'["connection"] = slots["connection"] - 1
          /\ \A pool \in Pools \ {"connection"} : slots'[pool] = slots[pool]
          /\ ~ready /\ ready'
        BY <1>1, <1>3 DEF AcquiresPermit, Take, AdmissionTyped, Pools
    <2>4. QED  BY <2>1, <2>2, <2>3 DEF PermitsHeld, Pools
<1>4. CASE Accepts \/ AcceptFails
    <2>1. Head(backlog) \in Callers
        BY <1>1, <1>4 DEF Accepts, AcceptFails, AdmissionTyped
    <2>2. QED  BY <1>1, <1>2, <1>4, <2>1, StepBalanced
<1>5. ASSUME NEW c \in Callers,
             \/ Dials(c) \/ Handshake(c) \/ HangsUp(c)
             \/ \E kind \in CallKinds : Calls(c, kind)
             \/ FirstMessage(c) \/ FirstMessageRejected(c) \/ AsksForFile(c)
             \/ TargetOpens(c) \/ TargetRefused(c) \/ WorkEnds(c)
      PROVE  PermitsHeld'
    BY <1>1, <1>2, <1>5, StepBalanced
<1>6. CASE UNCHANGED admissionVars
    BY <1>6 DEF admissionVars, PermitsHeld, Connected, Asking, Holding
<1>7. QED  BY <1>3, <1>4, <1>5, <1>6 DEF AdmissionNext, Listener

\* The invariant of the listener and the admission of calls.
THEOREM AdmissionInvariant ==
    ASSUME AdmissionAssumption
    PROVE  AdmissionSpec => [](AdmissionShape /\ PermitsHeld)
<1>1. AdmissionInit => AdmissionShape /\ PermitsHeld
    <2> SUFFICES ASSUME AdmissionInit
                 PROVE  AdmissionShape /\ PermitsHeld
        OBVIOUS
    <2>1. {MaxConnections, MaxHandshakes, MaxExecs, MaxFiles, MaxForwards} \subseteq Nat
        BY DEF AdmissionAssumption, Limits, MaxConnections
    <2>2. AdmissionTyped
        <3>1. slots \in [Pools -> Nat]
            <4>1. slots = [pool \in Pools |->
                      CASE pool = "connection" -> MaxConnections
                        [] pool = "handshake"  -> MaxHandshakes
                        [] pool = "exec"       -> MaxExecs
                        [] pool = "file"       -> MaxFiles
                        [] pool = "forward"    -> MaxForwards]
                BY DEF AdmissionInit, Pools
            <4>2. QED  BY <2>1, <4>1 DEF Pools
        <3>2. call \in [Callers -> [stage : {"none", "asking", "opening", "working"},
                                    kind : AllKinds \cup {"none"}]]
            <4>1. Idle \in [stage : {"none", "asking", "opening", "working"},
                             kind : AllKinds \cup {"none"}]
                BY DEF Idle
            <4>2. call = [c \in Callers |-> Idle]
                BY DEF AdmissionInit
            <4>3. QED  BY <4>1, <4>2, Zenon
        <3>3. /\ line \in [Callers -> {"down", "backlog", "tls", "up"}]
              /\ ready \in BOOLEAN
            BY DEF AdmissionInit
        <3>4. backlog \in Seq(Callers)
            BY DEF AdmissionInit
        <3>5. QED  BY <3>1, <3>2, <3>3, <3>4 DEF AdmissionTyped
    <2>3. BacklogQueued /\ CallsKnown
        BY DEF AdmissionInit, AdmissionAssumption, BacklogQueued, CallsKnown, Idle
    <2>4. /\ Connected = {} /\ Asking = {}
          /\ \A pool : Holding(pool) = {}
        BY DEF AdmissionInit, Connected, Asking, Holding, Idle
    <2>5. /\ slots["connection"] = MaxConnections /\ slots["handshake"] = MaxHandshakes
          /\ slots["exec"] = MaxExecs /\ slots["file"] = MaxFiles /\ slots["forward"] = MaxForwards
          /\ ~ready
        BY DEF AdmissionInit
    <2>6. PermitsHeld
        BY <2>1, <2>4, <2>5, FS_EmptySet DEF PermitsHeld
    <2>7. QED  BY <2>2, <2>3, <2>6 DEF AdmissionShape
<1>2. AdmissionShape /\ PermitsHeld /\ [AdmissionNext]_admissionVars => (AdmissionShape /\ PermitsHeld)'
    BY AdmissionShapeStep, AdmissionStep
<1>3. QED  BY <1>1, <1>2, PTL DEF AdmissionSpec

\* Whatever fails between a permit taken and the next, every permit of the five
\* semaphores of the agent is free or held by exactly one connection or call, with
\* any number of callers and any limits.
THEOREM PermitsNeverLeak ==
    ASSUME AdmissionAssumption
    PROVE  AdmissionSpec => []PermitsHeld
<1>1. AdmissionShape /\ PermitsHeld => PermitsHeld
    OBVIOUS
<1>2. QED  BY <1>1, AdmissionInvariant, PTL

\* A handshake that runs is some caller's.
HandshakeKnown == handshaking \in Callers \cup {Nobody}

LEMMA HandshakeStep ==
    AdmissionShape /\ HandshakeKnown /\ [AdmissionNext]_admissionVars => HandshakeKnown'
<1> SUFFICES ASSUME AdmissionShape, HandshakeKnown, [AdmissionNext]_admissionVars
             PROVE  HandshakeKnown'
    OBVIOUS
<1>1. CASE Accepts
    <2>1. backlog \in Seq(Callers) /\ backlog # <<>>
        BY <1>1 DEF Accepts, AdmissionShape, AdmissionTyped
    <2>2. Head(backlog) \in Callers
        BY <2>1
    <2>3. QED  BY <1>1, <2>2 DEF Accepts, HandshakeKnown
<1>2. CASE UNCHANGED admissionVars \/ AcquiresPermit \/ AcceptFails
    BY <1>2 DEF admissionVars, AcquiresPermit, AcceptFails, HandshakeKnown
<1>3. ASSUME NEW c \in Callers,
             \/ Dials(c) \/ Handshake(c) \/ HangsUp(c)
             \/ \E kind \in CallKinds : Calls(c, kind)
             \/ FirstMessage(c) \/ FirstMessageRejected(c) \/ AsksForFile(c)
             \/ TargetOpens(c) \/ TargetRefused(c) \/ WorkEnds(c)
      PROVE  HandshakeKnown'
    BY <1>3 DEF Dials, Handshake, HandshakeSucceeds, HandshakeFails, HangsUp, Calls, FirstMessage,
                FirstMessageRejected, AsksForFile, TargetOpens, TargetRefused, WorkEnds, HandshakeKnown
<1>4. QED  BY <1>1, <1>2, <1>3 DEF AdmissionNext, Listener

\* No pool has more permits than the listener admits connections.
LEMMA AdmissionTold ==
    AdmissionAssumption /\ AdmissionShape /\ HandshakeKnown /\ PermitsHeld => AdmissionTypeOK
<1> SUFFICES ASSUME AdmissionAssumption, AdmissionShape, HandshakeKnown, PermitsHeld
             PROVE  AdmissionTypeOK
    OBVIOUS
<1>1. {MaxConnections, MaxHandshakes, MaxExecs, MaxFiles, MaxForwards} \subseteq Nat
    BY DEF AdmissionAssumption, Limits, MaxConnections
<1>2. /\ MaxHandshakes <= MaxConnections /\ MaxExecs <= MaxConnections
      /\ MaxFiles <= MaxConnections /\ MaxForwards <= MaxConnections
    <2>1. {MaxHandshakes, MaxExecs, MaxFiles, MaxForwards} \subseteq Nat
        BY DEF AdmissionAssumption, Limits
    <2>2. QED  BY <2>1 DEF MaxConnections
<1>3. \A S \in SUBSET Callers : Cardinality(S) \in Nat
    BY FS_Subset, FS_CardinalityType DEF AdmissionAssumption
<1>4. /\ Cardinality(Connected) \in Nat /\ Cardinality(Asking) \in Nat
      /\ \A pool \in Pools : Cardinality(Holding(pool)) \in Nat
    <2>1. /\ Connected \in SUBSET Callers /\ Asking \in SUBSET Callers
          /\ \A pool \in Pools : Holding(pool) \in SUBSET Callers
        BY DEF Connected, Asking, Holding
    <2>2. QED  BY <1>3, <2>1
<1>5. \A pool \in Pools : slots[pool] \in Nat
    BY DEF AdmissionShape, AdmissionTyped
<1>6. \A pool \in Pools : slots[pool] \in 0 .. MaxConnections
    BY <1>1, <1>2, <1>4, <1>5 DEF PermitsHeld, Pools
<1>7. slots \in [Pools -> 0 .. MaxConnections]
    BY <1>6 DEF AdmissionShape, AdmissionTyped
<1>8. QED  BY <1>7 DEF AdmissionShape, AdmissionTyped, HandshakeKnown, AdmissionTypeOK, Pools

\* The listener's state keeps its shape, and no pool has more permits than connections.
THEOREM AdmissionStaysTyped ==
    ASSUME AdmissionAssumption
    PROVE  AdmissionSpec => []AdmissionTypeOK
<1>1. AdmissionInit => HandshakeKnown
    BY DEF AdmissionInit, HandshakeKnown
<1>2. AdmissionShape /\ HandshakeKnown /\ [AdmissionNext]_admissionVars => HandshakeKnown'
    BY HandshakeStep
<1>3. AdmissionShape /\ HandshakeKnown /\ PermitsHeld => AdmissionTypeOK
    BY AdmissionTold
<1>4. QED  BY <1>1, <1>2, <1>3, AdmissionInvariant, PTL DEF AdmissionSpec

-----------------------------------------------------------------------------
(***************************************************************************)
(* File transfer: what copies leave behind                                 *)
(***************************************************************************)

UpStates ==
    [at : {"probe", "mkdir", "next", "ok", "failed"} \cup Handling,
     target : Targets, file : Files \cup {NoFile}, id : Nat, parts : 0 .. MaxParts,
     todo : SUBSET Files]
DownStates ==
    [at : {"ask", "read", "write", "ok", "failed"}, file : Files \cup {NoFile},
     open : BOOLEAN, content : Content, got : Seq(Uploads \cup {NoFile}),
     local : {"old", "new"}]
Remotes == [Targets -> [Files -> Content]]
Temps == [target : Targets, file : Files, id : Nat]

TransferShaped ==
    /\ sameName \in BOOLEAN /\ directory \in BOOLEAN
    /\ remote \in Remotes
    /\ temps \subseteq Temps /\ unarmed \subseteq Temps
    /\ uploadId \in Nat /\ restarts \in 0 .. MaxRestarts
    /\ upload \in [Uploads -> UpStates]
    /\ download \in [Downloads -> DownStates]
    /\ \A d \in Downloads : Len(download[d].got) <= MaxParts

\* What a command knows at each of its steps.
Fitting ==
    /\ \A u \in Uploads :
        /\ upload[u].at \in Handling =>
               upload[u].file \in Files /\ upload[u].file \in upload[u].todo
        /\ upload[u].at = "place" => upload[u].parts = MaxParts
        /\ upload[u].at = "fill" => u \in InPlace
        /\ upload[u].at \in {"probe", "mkdir"} => upload[u].todo = Files
        /\ upload[u].at = "ok" => upload[u].todo = {}
        /\ upload[u].at \in {"next", "ok"} \cup Handling => directory
    /\ \A d \in Downloads :
        /\ download[d].at = "read" => download[d].file \in Files
        /\ download[d].local = "new" => download[d].at = "ok"
        /\ download[d].open => download[d].at = "read"
        /\ download[d].at = "ask" => Len(download[d].got) = 0

\* What is no longer to do has been copied to the target.
ByUpload(content) == content.by # NoFile
Copied ==
    \A u \in Uploads :
        /\ upload[u].at \in {"next", "ok"} \cup Handling =>
               \A f \in Files \ upload[u].todo : ByUpload(remote[upload[u].target][f])
        /\ upload[u].at \in {"fill", "reply"} =>
               ByUpload(remote[upload[u].target][upload[u].file])

\* Every handler has its temporary file, which is no other's.
UploadRuns(u) == upload[u].at \in Handling \ {"reply"}
TempsKnown ==
    /\ \A u \in Uploads : UploadRuns(u) => Temp(u, upload[u].id) \in temps
    /\ \A u, v \in Uploads :
           UploadRuns(u) /\ UploadRuns(v) /\ Temp(u, upload[u].id) = Temp(v, upload[v].id) => u = v
    /\ restarts = 0 =>
           \A temp \in temps \ unarmed :
               \E u \in Uploads : UploadRuns(u) /\ temp = Temp(u, upload[u].id)
    /\ \A u \in Uploads : upload[u].at = "open" => Temp(u, upload[u].id) \in unarmed

WholeOrInPlace ==
    \A t \in Targets, f \in Files : Whole(remote[t][f]) \/ remote[t][f].by \in InPlace

\* As long as no file was written in place, every one is whole, and what a download
\* has collected comes from the one that it opened.
Collecting ==
    NothingInPlace =>
        /\ \A t \in Targets, f \in Files : Whole(remote[t][f])
        /\ \A d \in Downloads :
            /\ download[d].at = "read" =>
                /\ Whole(Opened(d))
                /\ \A i \in 1 .. Len(download[d].got) : download[d].got[i] = Opened(d).by
            /\ download[d].at \in {"write", "ok"} =>
                /\ Len(download[d].got) = MaxParts
                /\ \A i, j \in 1 .. MaxParts : download[d].got[i] = download[d].got[j]

TransferInv == TransferShaped /\ Fitting /\ Copied /\ TempsKnown /\ WholeOrInPlace /\ Collecting

-----------------------------------------------------------------------------
(***************************************************************************)
(* Effects of a step                                                       *)
(***************************************************************************)

UploadBecomes(u, at, target, file, id, parts, todo) ==
    /\ upload' \in [Uploads -> UpStates]
    /\ \A v \in Uploads : v # u => upload'[v] = upload[v]
    /\ upload'[u].at = at
    /\ upload'[u].target = target
    /\ upload'[u].file = file
    /\ upload'[u].id = id
    /\ upload'[u].parts = parts
    /\ upload'[u].todo = todo

\* The command takes a step with what it has.
UploadAdvances(u, at) ==
    UploadBecomes(u, at, upload[u].target, upload[u].file, upload[u].id, upload[u].parts,
            upload[u].todo)

\* One file changes.
Written(t, f, by, parts) ==
    /\ remote' \in Remotes
    /\ \A s \in Targets, g \in Files : s # t \/ g # f => remote'[s][g] = remote[s][g]
    /\ remote'[t][f].by = by
    /\ remote'[t][f].parts = parts

Fetches(d, at, file, open, content, got, local) ==
    /\ download' \in [Downloads -> DownStates]
    /\ \A e \in Downloads : e # d => download'[e] = download[e]
    /\ download'[d].at = at
    /\ download'[d].file = file
    /\ download'[d].open <=> open
    /\ download'[d].content = content
    /\ download'[d].got = got
    /\ download'[d].local = local

\* A command that takes a step keeps its file.
LEMMA ProceedsMoves ==
    ASSUME TransferShaped, NEW u \in Uploads, NEW at, Proceeds(u, at),
           at \in {"probe", "mkdir", "next", "ok", "failed"} \cup Handling
    PROVE  UploadAdvances(u, at)
<1>1. upload \in [Uploads -> UpStates]
    BY DEF TransferShaped
<1>2. QED  BY <1>1 DEF Proceeds, UploadAdvances, UploadBecomes, UpStates

\* What a written file is.
LEMMA RemoteWritten ==
    ASSUME TransferShaped, NEW t \in Targets, NEW f \in Files, NEW content \in Content,
           NEW by, NEW parts, content.by = by, content.parts = parts,
           remote' = [remote EXCEPT ![t][f] = content]
    PROVE  Written(t, f, by, parts)
<1>1. remote \in [Targets -> [Files -> Content]]
    BY DEF TransferShaped, Remotes
<1>2. remote' \in [Targets -> [Files -> Content]]
    BY <1>1
<1>3. \A s \in Targets, g \in Files :
          remote'[s][g] = IF s = t /\ g = f THEN content ELSE remote[s][g]
    BY <1>1
<1>4. QED  BY <1>2, <1>3 DEF Written, Remotes

\* A handler that is gone leaves the command its target and its list.
LEMMA EndedState ==
    ASSUME TransferAssumption, NEW up \in UpStates, NEW at,
           at \in {"probe", "mkdir", "next", "ok", "failed"} \cup Handling
    PROVE  /\ Ended(up, at) \in UpStates
           /\ Ended(up, at).at = at
           /\ Ended(up, at).target = up.target
           /\ Ended(up, at).file = NoFile
           /\ Ended(up, at).id = 0
           /\ Ended(up, at).parts = 0
           /\ Ended(up, at).todo = up.todo
<1>1. 0 \in 0 .. MaxParts /\ 0 \in Nat /\ NoFile \in Files \cup {NoFile}
    BY DEF TransferAssumption
<1>2. QED  BY <1>1 DEF Ended, UpStates

\* A download that failed has nothing to show for it.
LEMMA DiscardedState ==
    ASSUME TransferAssumption, NEW down \in DownStates
    PROVE  /\ Discarded(down) \in DownStates
           /\ Discarded(down).at = "failed"
           /\ Discarded(down).file = NoFile
           /\ ~Discarded(down).open
           /\ Discarded(down).content = Original
           /\ Discarded(down).got = <<>>
           /\ Discarded(down).local = down.local
<1>1. Original \in Content
    BY DEF Original, Content, TransferAssumption
<1>2. <<>> \in Seq(Uploads \cup {NoFile})
    OBVIOUS
<1>3. QED  BY <1>1, <1>2 DEF Discarded, DownStates

\* Replacing a file leaves its old content to who has it open, and the rest alone.
LEMMA DetachedState ==
    ASSUME TransferShaped, NEW t \in Targets, NEW f \in Files, download' = Detached(t, f)
    PROVE  /\ download' \in [Downloads -> DownStates]
           /\ \A d \in Downloads :
                  /\ download'[d].at = download[d].at /\ download'[d].file = download[d].file
                  /\ download'[d].got = download[d].got
                  /\ download'[d].local = download[d].local
                  /\ \/ /\ download'[d] = download[d]
                        /\ ~(download[d].open /\ t = "destination" /\ download[d].file = f)
                     \/ /\ download[d].open /\ t = "destination" /\ download[d].file = f
                        /\ ~download'[d].open /\ download'[d].content = remote[t][f]
<1>1. remote[t][f] \in Content
    BY DEF TransferShaped, Remotes
<1>2. ASSUME NEW d \in Downloads, download[d].open, t = "destination", download[d].file = f
      PROVE  /\ download'[d] \in DownStates
             /\ download'[d].at = download[d].at /\ download'[d].file = download[d].file
             /\ download'[d].got = download[d].got /\ download'[d].local = download[d].local
             /\ ~download'[d].open /\ download'[d].content = remote[t][f]
    <2>1. download'[d] = [download[d] EXCEPT !.open = FALSE, !.content = remote[t][f]]
        BY <1>2 DEF Detached
    <2>2. download[d] \in DownStates
        BY DEF TransferShaped
    <2>3. QED  BY <1>1, <2>1, <2>2 DEF DownStates
<1>3. ASSUME NEW d \in Downloads,
             ~(download[d].open /\ t = "destination" /\ download[d].file = f)
      PROVE  download'[d] = download[d] /\ download'[d] \in DownStates
    <2>1. download'[d] = download[d]
        BY <1>3 DEF Detached
    <2>2. QED  BY <2>1 DEF TransferShaped
<1>4. \A d \in Downloads : download'[d] \in DownStates
    BY <1>2, <1>3
<1>5. download' \in [Downloads -> DownStates]
    BY <1>4 DEF Detached
<1>6. QED  BY <1>2, <1>3, <1>5

-----------------------------------------------------------------------------
(***************************************************************************)
(* The steps                                                               *)
(***************************************************************************)

\* The target is chosen once.
LEMMA FindsTargetKeeps ==
    ASSUME TransferAssumption, TransferInv, NEW u \in Uploads, FindsTarget(u)
    PROVE  TransferInv'
<1>0. /\ TransferAssumption
      /\ TransferShaped /\ Fitting /\ Copied /\ TempsKnown /\ WholeOrInPlace /\ Collecting
    BY DEF TransferInv
<1> USE DEF UploadAdvances, UploadBecomes, Written, Fetches, Handling, Targets
<1>1. /\ upload[u].at = "probe"
      /\ UNCHANGED <<sameName, directory, remote, temps, unarmed, uploadId, download, restarts>>
    BY DEF FindsTarget
<1>2. upload \in [Uploads -> UpStates] /\ upload[u] \in UpStates
    BY <1>0 DEF TransferShaped
<1>3. PICK target \in Targets :
          upload' = [upload EXCEPT ![u].at = "mkdir", ![u].target = target]
    BY DEF FindsTarget
<1>4. UploadBecomes(u, "mkdir", target, upload[u].file, upload[u].id, upload[u].parts, upload[u].todo)
    BY <1>2, <1>3 DEF UpStates
<1>5. TransferShaped'  BY <1>0, <1>1, <1>4 DEF TransferShaped
<1>6. Fitting'  BY <1>0, <1>1, <1>4 DEF TransferShaped, Fitting
<1>7. Copied'  BY <1>0, <1>1, <1>4 DEF TransferShaped, Fitting, Copied, Content
<1>8. TempsKnown'  BY <1>0, <1>1, <1>4 DEF TransferShaped, Fitting, TempsKnown, UploadRuns, Temp
<1>9. WholeOrInPlace'  BY <1>0, <1>1, <1>4 DEF TransferShaped, Fitting, WholeOrInPlace, Whole
<1>10. Collecting'
    BY <1>0, <1>1, <1>4 DEF TransferShaped, Fitting, Collecting, NothingInPlace, Whole, Opened
<1>11. QED  BY <1>5, <1>6, <1>7, <1>8, <1>9, <1>10 DEF TransferInv

\* The target is there before the first file.
LEMMA MakesDirectoryKeeps ==
    ASSUME TransferAssumption, TransferInv, NEW u \in Uploads, MakesDirectory(u)
    PROVE  TransferInv'
<1>0. /\ TransferAssumption
      /\ TransferShaped /\ Fitting /\ Copied /\ TempsKnown /\ WholeOrInPlace /\ Collecting
    BY DEF TransferInv
<1> USE DEF UploadAdvances, UploadBecomes, Written, Fetches, Handling, Targets
<1>1. /\ upload[u].at = "mkdir" /\ directory'
      /\ UNCHANGED <<sameName, remote, temps, unarmed, uploadId, download, restarts>>
    BY DEF MakesDirectory
<1>2. UploadAdvances(u, "next")
    BY <1>0, ProceedsMoves DEF MakesDirectory
<1>3. TransferShaped'  BY <1>0, <1>1, <1>2 DEF TransferShaped
<1>4. Fitting'  BY <1>0, <1>1, <1>2 DEF TransferShaped, Fitting
<1>5. Copied'  BY <1>0, <1>1, <1>2 DEF TransferShaped, Fitting, Copied, Content
<1>6. TempsKnown'  BY <1>0, <1>1, <1>2 DEF TransferShaped, Fitting, TempsKnown, UploadRuns, Temp
<1>7. WholeOrInPlace'  BY <1>0, <1>1, <1>2 DEF TransferShaped, Fitting, WholeOrInPlace, Whole
<1>8. Collecting'
    BY <1>0, <1>1, <1>2 DEF TransferShaped, Fitting, Collecting, NothingInPlace, Whole, Opened
<1>9. QED  BY <1>3, <1>4, <1>5, <1>6, <1>7, <1>8 DEF TransferInv

\* A handler begins with a temporary file that was not there.
LEMMA PutsFileKeeps ==
    ASSUME TransferAssumption, TransferInv, NEW u \in Uploads, NEW f \in Files, PutsFile(u, f)
    PROVE  TransferInv'
<1>0. /\ TransferAssumption
      /\ TransferShaped /\ Fitting /\ Copied /\ TempsKnown /\ WholeOrInPlace /\ Collecting
    BY DEF TransferInv
<1> USE DEF UploadAdvances, UploadBecomes, Written, Fetches, Handling, Targets
<1>1. /\ upload[u].at = "next" /\ f \in upload[u].todo
      /\ uploadId' = uploadId + 1
      /\ UNCHANGED <<sameName, directory, remote, download, restarts>>
    BY DEF PutsFile
<1>2. upload \in [Uploads -> UpStates] /\ upload[u] \in UpStates /\ uploadId \in Nat
    BY <1>0 DEF TransferShaped
<1> DEFINE temp == [target |-> upload[u].target, file |-> f, id |-> uploadId]
<1>3. CASE temp \in temps /\ upload' = [upload EXCEPT ![u] = Ended(@, "failed")]
                          /\ UNCHANGED <<temps, unarmed>>
    <2>1. UploadBecomes(u, "failed", upload[u].target, NoFile, 0, 0, upload[u].todo)
        BY <1>0, <1>2, <1>3, EndedState
    <2>2. TransferShaped'  BY <1>0, <1>1, <1>2, <1>3, <2>1 DEF TransferShaped
    <2>3. Fitting'  BY <1>0, <1>1, <1>2, <1>3, <2>1 DEF TransferShaped, Fitting
    <2>4. Copied'  BY <1>0, <1>1, <1>2, <1>3, <2>1 DEF TransferShaped, Fitting, Copied, Content
    <2>5. TempsKnown'  BY <1>0, <1>1, <1>2, <1>3, <2>1 DEF TransferShaped, Fitting, TempsKnown, UploadRuns, Temp
    <2>6. WholeOrInPlace'
        BY <1>0, <1>1, <1>2, <1>3, <2>1 DEF TransferShaped, Fitting, WholeOrInPlace, Whole
    <2>7. Collecting'
        BY <1>0, <1>1, <1>2, <1>3, <2>1 DEF TransferShaped, Fitting, Collecting, NothingInPlace,
           Whole, Opened
    <2>8. QED  BY <2>2, <2>3, <2>4, <2>5, <2>6, <2>7 DEF TransferInv
<1>4. CASE /\ temp \notin temps
           /\ temps' = temps \cup {temp} /\ unarmed' = unarmed \cup {temp}
           /\ upload' = [upload EXCEPT ![u].at = "open", ![u].file = f,
                                       ![u].id = uploadId, ![u].parts = 0]
    <2>0. 0 \in 0 .. MaxParts /\ f \in Files \cup {NoFile}
        BY <1>0, <1>1, <1>2 DEF UpStates, TransferAssumption
    <2>1. UploadBecomes(u, "open", upload[u].target, f, uploadId, 0, upload[u].todo)
        BY <1>2, <1>4, <2>0 DEF UpStates
    <2>2. temp \in Temps
        BY <1>2 DEF UpStates, Temps
    <2>3. temp \notin temps /\ temps' = temps \cup {temp} /\ unarmed' = unarmed \cup {temp}
        BY <1>4
    <2>4. TransferShaped'  BY <1>0, <1>1, <1>2, <2>1, <2>2, <2>3 DEF TransferShaped
    <2>5. Fitting'  BY <1>0, <1>1, <1>2, <2>1, <2>2, <2>3 DEF TransferShaped, Fitting
    <2>6. Copied'
        BY <1>0, <1>1, <1>2, <2>1, <2>2, <2>3 DEF TransferShaped, Fitting, Copied, Content
    <2>7. TempsKnown'
        BY <1>0, <1>1, <1>2, <2>1, <2>2, <2>3 DEF TransferShaped, Fitting, TempsKnown, UploadRuns, Temp
    <2>8. WholeOrInPlace'
        BY <1>0, <1>1, <1>2, <2>1, <2>2, <2>3 DEF TransferShaped, Fitting, WholeOrInPlace, Whole
    <2>9. Collecting'
        BY <1>0, <1>1, <1>2, <2>1, <2>2, <2>3 DEF TransferShaped, Fitting, Collecting,
           NothingInPlace, Whole, Opened
    <2>10. QED  BY <2>4, <2>5, <2>6, <2>7, <2>8, <2>9 DEF TransferInv
<1>5. QED  BY <1>3, <1>4 DEF PutsFile

\* From here on the handler removes its temporary file.
LEMMA ArmsCleanupKeeps ==
    ASSUME TransferAssumption, TransferInv, NEW u \in Uploads, ArmsCleanup(u)
    PROVE  TransferInv'
<1>0. /\ TransferAssumption
      /\ TransferShaped /\ Fitting /\ Copied /\ TempsKnown /\ WholeOrInPlace /\ Collecting
    BY DEF TransferInv
<1> USE DEF UploadAdvances, UploadBecomes, Written, Fetches, Handling, Targets
<1>1. /\ upload[u].at = "open" /\ unarmed' = unarmed \ {Temp(u, upload[u].id)}
      /\ UNCHANGED <<sameName, directory, remote, temps, uploadId, download, restarts>>
    BY DEF ArmsCleanup
<1>2. UploadAdvances(u, "receive")
    BY <1>0, ProceedsMoves DEF ArmsCleanup
<1>3. TransferShaped'  BY <1>0, <1>1, <1>2 DEF TransferShaped
<1>4. Fitting'  BY <1>0, <1>1, <1>2 DEF TransferShaped, Fitting
<1>5. Copied'  BY <1>0, <1>1, <1>2 DEF TransferShaped, Fitting, Copied, Content
<1>6. TempsKnown'
    <2>1. \A v \in Uploads :
              /\ UploadRuns(v)' <=> UploadRuns(v)
              /\ Temp(v, upload[v].id)' = Temp(v, upload[v].id)
              /\ upload'[v].at = "open" => upload[v].at = "open" /\ v # u
        BY <1>1, <1>2 DEF UploadRuns, Temp
    <2>2. UploadRuns(u)
        BY <1>1 DEF UploadRuns
    <2>3. \A v \in Uploads : upload[v].at = "open" => UploadRuns(v)
        BY DEF UploadRuns
    <2>4. /\ \A v \in Uploads : UploadRuns(v)' => Temp(v, upload[v].id)' \in temps'
          /\ \A v, w \in Uploads :
                 UploadRuns(v)' /\ UploadRuns(w)' /\ Temp(v, upload[v].id)' = Temp(w, upload[w].id)'
                     => v = w
        BY <1>0, <1>1, <2>1 DEF TempsKnown
    <2>5. ASSUME restarts' = 0, NEW temp \in temps' \ unarmed'
          PROVE  \E v \in Uploads : UploadRuns(v)' /\ temp = Temp(v, upload[v].id)'
        <3>1. CASE temp = Temp(u, upload[u].id)
            BY <2>1, <2>2, <3>1
        <3>2. CASE temp # Temp(u, upload[u].id)
            <4>1. temp \in temps \ unarmed /\ restarts = 0
                BY <1>1, <2>5, <3>2
            <4>2. PICK v \in Uploads : UploadRuns(v) /\ temp = Temp(v, upload[v].id)
                BY <1>0, <4>1 DEF TempsKnown
            <4>3. QED  BY <2>1, <4>2
        <3>3. QED  BY <3>1, <3>2
    <2>6. ASSUME NEW v \in Uploads, upload'[v].at = "open"
          PROVE  Temp(v, upload[v].id)' \in unarmed'
        <3>1. upload[v].at = "open" /\ v # u
            BY <2>1, <2>6
        <3>2. Temp(v, upload[v].id) \in unarmed /\ Temp(v, upload[v].id) # Temp(u, upload[u].id)
            BY <1>0, <2>2, <2>3, <3>1 DEF TempsKnown
        <3>3. QED  BY <1>1, <2>1, <3>2
    <2>7. QED  BY <2>4, <2>5, <2>6 DEF TempsKnown
<1>7. WholeOrInPlace'  BY <1>0, <1>1, <1>2 DEF TransferShaped, Fitting, WholeOrInPlace, Whole
<1>8. Collecting'
    BY <1>0, <1>1, <1>2 DEF TransferShaped, Fitting, Collecting, NothingInPlace, Whole, Opened
<1>9. QED  BY <1>3, <1>4, <1>5, <1>6, <1>7, <1>8 DEF TransferInv

\* Parts are collected in the temporary file.
LEMMA ReceivesPartKeeps ==
    ASSUME TransferAssumption, TransferInv, NEW u \in Uploads, ReceivesPart(u)
    PROVE  TransferInv'
<1>0. /\ TransferAssumption
      /\ TransferShaped /\ Fitting /\ Copied /\ TempsKnown /\ WholeOrInPlace /\ Collecting
    BY DEF TransferInv
<1> USE DEF UploadAdvances, UploadBecomes, Written, Fetches, Handling, Targets
<1>1. /\ upload[u].at = "receive" /\ upload[u].parts < MaxParts
      /\ UNCHANGED <<sameName, directory, remote, temps, unarmed, uploadId, download, restarts>>
    BY DEF ReceivesPart
<1>2. upload \in [Uploads -> UpStates] /\ upload[u] \in UpStates
    BY <1>0 DEF TransferShaped
<1>3. UploadBecomes(u, "receive", upload[u].target, upload[u].file, upload[u].id,
             upload[u].parts + 1, upload[u].todo)
    BY <1>0, <1>1, <1>2 DEF ReceivesPart, UpStates, TransferAssumption
<1>4. TransferShaped'  BY <1>0, <1>1, <1>3 DEF TransferShaped
<1>5. Fitting'  BY <1>0, <1>1, <1>3 DEF TransferShaped, Fitting
<1>6. Copied'  BY <1>0, <1>1, <1>3 DEF TransferShaped, Fitting, Copied, Content
<1>7. TempsKnown'  BY <1>0, <1>1, <1>3 DEF TransferShaped, Fitting, TempsKnown, UploadRuns, Temp
<1>8. WholeOrInPlace'  BY <1>0, <1>1, <1>3 DEF TransferShaped, Fitting, WholeOrInPlace, Whole
<1>9. Collecting'
    BY <1>0, <1>1, <1>3 DEF TransferShaped, Fitting, Collecting, NothingInPlace, Whole, Opened
<1>10. QED  BY <1>4, <1>5, <1>6, <1>7, <1>8, <1>9 DEF TransferInv

\* Only a whole file is placed.
LEMMA EndMarkerKeeps ==
    ASSUME TransferAssumption, TransferInv, NEW u \in Uploads, EndMarker(u)
    PROVE  TransferInv'
<1>0. /\ TransferAssumption
      /\ TransferShaped /\ Fitting /\ Copied /\ TempsKnown /\ WholeOrInPlace /\ Collecting
    BY DEF TransferInv
<1> USE DEF UploadAdvances, UploadBecomes, Written, Fetches, Handling, Targets
<1>1. /\ upload[u].at = "receive" /\ upload[u].parts = MaxParts
      /\ UNCHANGED <<sameName, directory, remote, temps, unarmed, uploadId, download, restarts>>
    BY DEF EndMarker
<1>2. UploadAdvances(u, "place")
    BY <1>0, ProceedsMoves DEF EndMarker
<1>3. TransferShaped'  BY <1>0, <1>1, <1>2 DEF TransferShaped
<1>4. Fitting'  BY <1>0, <1>1, <1>2 DEF TransferShaped, Fitting
<1>5. Copied'  BY <1>0, <1>1, <1>2 DEF TransferShaped, Fitting, Copied, Content
<1>6. TempsKnown'  BY <1>0, <1>1, <1>2 DEF TransferShaped, Fitting, TempsKnown, UploadRuns, Temp
<1>7. WholeOrInPlace'  BY <1>0, <1>1, <1>2 DEF TransferShaped, Fitting, WholeOrInPlace, Whole
<1>8. Collecting'
    BY <1>0, <1>1, <1>2 DEF TransferShaped, Fitting, Collecting, NothingInPlace, Whole, Opened
<1>9. QED  BY <1>3, <1>4, <1>5, <1>6, <1>7, <1>8 DEF TransferInv

\* The new file replaces the old one, and who has that open keeps it.
LEMMA UploadRenamesKeeps ==
    ASSUME TransferAssumption, TransferInv, NEW u \in Uploads, Renames(u)
    PROVE  TransferInv'
<1>0. /\ TransferAssumption
      /\ TransferShaped /\ Fitting /\ Copied /\ TempsKnown /\ WholeOrInPlace /\ Collecting
    BY DEF TransferInv
<1>1. /\ upload[u].at = "place" /\ u \notin InPlace
      /\ temps' = temps \ {Temp(u, upload[u].id)}
      /\ UNCHANGED <<sameName, directory, unarmed, uploadId, restarts>>
    BY DEF Renames
<1>2. /\ upload[u] \in UpStates /\ upload[u].file \in Files /\ upload[u].target \in Targets
      /\ upload[u].parts \in 0 .. MaxParts /\ upload[u].id \in Nat
    BY <1>0, <1>1 DEF TransferShaped, Fitting, UpStates, Handling
<1> DEFINE content == [by |-> u, parts |-> upload[u].parts]
<1>3. content \in Content /\ content.by = u /\ content.parts = upload[u].parts
    BY <1>2 DEF Content
<1>4. remote' = [remote EXCEPT ![upload[u].target][upload[u].file] = content]
    BY DEF Renames
<1> HIDE DEF content
<1>5. Written(upload[u].target, upload[u].file, u, upload[u].parts)
    BY <1>0, <1>2, <1>3, <1>4, RemoteWritten
<1> USE DEF UploadAdvances, UploadBecomes, Written, Fetches, Handling, Targets
<1>6. UploadAdvances(u, "reply")
    BY <1>0, ProceedsMoves DEF Renames
<1>7. download' = Detached(upload[u].target, upload[u].file)
    BY DEF Renames
<1>8. /\ download' \in [Downloads -> DownStates]
      /\ \A d \in Downloads :
             /\ download'[d].at = download[d].at /\ download'[d].file = download[d].file
             /\ download'[d].got = download[d].got
             /\ download'[d].local = download[d].local
             /\ \/ /\ download'[d] = download[d]
                   /\ ~(download[d].open /\ upload[u].target = "destination"
                                         /\ download[d].file = upload[u].file)
                \/ /\ download[d].open /\ upload[u].target = "destination"
                   /\ download[d].file = upload[u].file
                   /\ ~download'[d].open
                   /\ download'[d].content = remote[upload[u].target][upload[u].file]
    BY <1>0, <1>2, <1>7, DetachedState
<1>9. /\ ByUpload(remote'[upload[u].target][upload[u].file])
      /\ \A t \in Targets, f \in Files :
             ByUpload(remote[t][f]) => ByUpload(remote'[t][f])
    BY <1>0, <1>2, <1>5 DEF TransferAssumption, ByUpload
<1>10. TransferShaped'  BY <1>0, <1>1, <1>2, <1>5, <1>6, <1>8 DEF TransferShaped
<1>11. Fitting'  BY <1>0, <1>1, <1>2, <1>5, <1>6, <1>8 DEF TransferShaped, Fitting
<1>12. Copied'
    <2> SUFFICES ASSUME NEW v \in Uploads
                 PROVE  /\ upload'[v].at \in {"next", "ok"} \cup Handling =>
                               \A f \in Files \ upload'[v].todo :
                                   ByUpload(remote'[upload'[v].target][f])
                        /\ upload'[v].at \in {"fill", "reply"} =>
                               ByUpload(remote'[upload'[v].target][upload'[v].file])
        BY DEF Copied
    <2>1. /\ upload[v] \in UpStates /\ upload[v].target \in Targets
          /\ upload[v].at \in Handling => upload[v].file \in Files
          /\ upload[v].at \in {"next", "ok"} \cup Handling =>
                 \A f \in Files \ upload[v].todo : ByUpload(remote[upload[v].target][f])
          /\ upload[v].at \in {"fill", "reply"} =>
                 ByUpload(remote[upload[v].target][upload[v].file])
        BY <1>0 DEF TransferShaped, Fitting, Copied, UpStates
    <2>2. /\ upload'[v].target = upload[v].target /\ upload'[v].file = upload[v].file
          /\ upload'[v].todo = upload[v].todo
          /\ upload'[v].at = upload[v].at \/ v = u
        BY <1>6
    <2>3. ASSUME upload'[v].at \in {"next", "ok"} \cup Handling,
                  NEW f \in Files \ upload'[v].todo
           PROVE  ByUpload(remote'[upload'[v].target][f])
        <3>1. upload[v].at \in {"next", "ok"} \cup Handling
            BY <1>1, <2>2, <2>3
        <3>2. ByUpload(remote[upload[v].target][f])
            BY <2>1, <2>2, <2>3, <3>1
        <3>3. QED  BY <1>9, <2>1, <2>2, <3>2
    <2>4. ASSUME upload'[v].at \in {"fill", "reply"}
           PROVE  ByUpload(remote'[upload'[v].target][upload'[v].file])
        <3>1. CASE v = u
            BY <1>9, <2>2, <3>1
        <3>2. CASE v # u
            <4>1. upload[v].at \in {"fill", "reply"}
                BY <2>2, <2>4, <3>2
            <4>2. QED
                BY <1>9, <2>1, <2>2, <4>1
        <3>3. QED  BY <3>1, <3>2
    <2>5. QED  BY <2>3, <2>4
<1>13. TempsKnown'
    <2>1. \A v \in Uploads : v # u => (UploadRuns(v)' <=> UploadRuns(v))
        BY <1>6 DEF UploadRuns
    <2>2. UploadRuns(u) /\ ~UploadRuns(u)'
        BY <1>1, <1>6 DEF UploadRuns
    <2>3. \A v \in Uploads : v # u => Temp(v, upload[v].id)' = Temp(v, upload[v].id)
        BY <1>6 DEF Temp
    <2>4. \A v \in Uploads : UploadRuns(v)' => Temp(v, upload[v].id)' \in temps'
        BY <1>0, <1>1, <2>1, <2>2, <2>3 DEF TempsKnown
    <2>5. \A v, w \in Uploads :
              UploadRuns(v)' /\ UploadRuns(w)' /\ Temp(v, upload[v].id)' = Temp(w, upload[w].id)'
                  => v = w
        BY <1>0, <2>1, <2>2, <2>3 DEF TempsKnown
    <2>6. restarts' = 0 =>
              \A temp \in temps' \ unarmed' :
                  \E v \in Uploads : UploadRuns(v)' /\ temp = Temp(v, upload[v].id)'
        BY <1>0, <1>1, <2>1, <2>2, <2>3 DEF TempsKnown
    <2>7. \A v \in Uploads : upload'[v].at = "open" => Temp(v, upload[v].id)' \in unarmed'
        BY <1>0, <1>1, <1>6, <2>3 DEF TempsKnown
    <2>8. QED  BY <2>4, <2>5, <2>6, <2>7 DEF TempsKnown
<1>14. WholeOrInPlace'
    BY <1>0, <1>1, <1>2, <1>5, <1>6, <1>8 DEF TransferShaped, Fitting, WholeOrInPlace, Whole
<1>15. Collecting'
    BY <1>0, <1>1, <1>2, <1>5, <1>6, <1>8, SMTT(30) DEF TransferShaped, Fitting, Collecting,
       NothingInPlace, Whole, Opened
<1>16. QED  BY <1>10, <1>11, <1>12, <1>13, <1>14, <1>15 DEF TransferInv

\* An upload in place opens its destination for writing.
LEMMA TruncatesKeeps ==
    ASSUME TransferAssumption, TransferInv, NEW u \in Uploads, Truncates(u)
    PROVE  TransferInv'
<1>0. /\ TransferAssumption
      /\ TransferShaped /\ Fitting /\ Copied /\ TempsKnown /\ WholeOrInPlace /\ Collecting
    BY DEF TransferInv
<1>1. /\ upload[u].at = "place" /\ u \in InPlace
      /\ UNCHANGED <<sameName, directory, temps, unarmed, uploadId, download, restarts>>
    BY DEF Truncates
<1>2. /\ upload[u] \in UpStates /\ upload[u].file \in Files /\ upload[u].target \in Targets
      /\ upload[u].parts \in 0 .. MaxParts /\ upload[u].id \in Nat
    BY <1>0, <1>1 DEF TransferShaped, Fitting, UpStates, Handling
<1> DEFINE content == [by |-> u, parts |-> 0]
<1>3. content \in Content /\ content.by = u /\ content.parts = 0
    BY <1>0 DEF Content, TransferAssumption
<1>4. remote' = [remote EXCEPT ![upload[u].target][upload[u].file] = content]
    BY DEF Truncates
<1> HIDE DEF content
<1>5. Written(upload[u].target, upload[u].file, u, 0)
    BY <1>0, <1>2, <1>3, <1>4, RemoteWritten
<1> USE DEF UploadAdvances, UploadBecomes, Written, Fetches, Handling, Targets
<1>6. UploadAdvances(u, "fill")
    BY <1>0, ProceedsMoves DEF Truncates
<1>7. /\ ByUpload(remote'[upload[u].target][upload[u].file])
      /\ \A t \in Targets, f \in Files :
             ByUpload(remote[t][f]) => ByUpload(remote'[t][f])
    BY <1>0, <1>2, <1>5 DEF TransferAssumption, ByUpload
<1>8. TransferShaped'  BY <1>0, <1>1, <1>2, <1>5, <1>6 DEF TransferShaped
<1>9. Fitting'  BY <1>0, <1>1, <1>2, <1>5, <1>6 DEF TransferShaped, Fitting
<1>10. Copied'
    <2> SUFFICES ASSUME NEW v \in Uploads
                 PROVE  /\ upload'[v].at \in {"next", "ok"} \cup Handling =>
                               \A f \in Files \ upload'[v].todo :
                                   ByUpload(remote'[upload'[v].target][f])
                        /\ upload'[v].at \in {"fill", "reply"} =>
                               ByUpload(remote'[upload'[v].target][upload'[v].file])
        BY DEF Copied
    <2>1. /\ upload[v] \in UpStates /\ upload[v].target \in Targets
          /\ upload[v].at \in Handling => upload[v].file \in Files
          /\ upload[v].at \in {"next", "ok"} \cup Handling =>
                 \A f \in Files \ upload[v].todo : ByUpload(remote[upload[v].target][f])
          /\ upload[v].at \in {"fill", "reply"} =>
                 ByUpload(remote[upload[v].target][upload[v].file])
        BY <1>0 DEF TransferShaped, Fitting, Copied, UpStates
    <2>2. /\ upload'[v].target = upload[v].target /\ upload'[v].file = upload[v].file
          /\ upload'[v].todo = upload[v].todo
          /\ upload'[v].at = upload[v].at \/ v = u
        BY <1>6
    <2>3. ASSUME upload'[v].at \in {"next", "ok"} \cup Handling,
                  NEW f \in Files \ upload'[v].todo
           PROVE  ByUpload(remote'[upload'[v].target][f])
        <3>1. upload[v].at \in {"next", "ok"} \cup Handling
            BY <1>1, <2>2, <2>3
        <3>2. ByUpload(remote[upload[v].target][f])
            BY <2>1, <2>2, <2>3, <3>1
        <3>3. QED  BY <1>7, <2>1, <2>2, <3>2
    <2>4. ASSUME upload'[v].at \in {"fill", "reply"}
           PROVE  ByUpload(remote'[upload'[v].target][upload'[v].file])
        <3>1. CASE v = u
            BY <1>7, <2>2, <3>1
        <3>2. CASE v # u
            <4>1. upload[v].at \in {"fill", "reply"}
                BY <2>2, <2>4, <3>2
            <4>2. QED
                BY <1>7, <2>1, <2>2, <4>1
        <3>3. QED  BY <3>1, <3>2
    <2>5. QED  BY <2>3, <2>4
<1>11. TempsKnown'  BY <1>0, <1>1, <1>2, <1>5, <1>6 DEF TransferShaped, Fitting, TempsKnown, UploadRuns, Temp
<1>12. WholeOrInPlace'
    BY <1>0, <1>1, <1>2, <1>5, <1>6 DEF TransferShaped, Fitting, WholeOrInPlace, Whole
<1>13. Collecting'
    BY <1>0, <1>1, <1>2, <1>5, <1>6 DEF TransferShaped, Fitting, Collecting, NothingInPlace,
       Whole, Opened
<1>14. QED  BY <1>8, <1>9, <1>10, <1>11, <1>12, <1>13 DEF TransferInv

\* A file that is written in place grows part by part.
LEMMA FillsKeeps ==
    ASSUME TransferAssumption, TransferInv, NEW u \in Uploads, Fills(u)
    PROVE  TransferInv'
<1>0. /\ TransferAssumption
      /\ TransferShaped /\ Fitting /\ Copied /\ TempsKnown /\ WholeOrInPlace /\ Collecting
    BY DEF TransferInv
<1> USE DEF UploadAdvances, UploadBecomes, Fetches, Handling, Targets
<1>1. /\ upload[u].at = "fill"
      /\ UNCHANGED <<sameName, directory, unarmed, uploadId, download, restarts>>
    BY DEF Fills
<1>2. /\ upload[u] \in UpStates /\ upload[u].file \in Files /\ upload[u].target \in Targets
      /\ upload[u].parts \in 0 .. MaxParts /\ upload[u].id \in Nat
    BY <1>0, <1>1 DEF TransferShaped, Fitting, UpStates
<1> DEFINE now == remote[upload[u].target][upload[u].file]
<1>3. now \in Content
    BY <1>0, <1>2 DEF TransferShaped, Remotes
<1>4. CASE /\ now.by = u /\ now.parts < MaxParts
           /\ remote' = [remote EXCEPT ![upload[u].target][upload[u].file].parts = @ + 1]
           /\ UNCHANGED <<temps, upload>>
    <2> DEFINE content == [now EXCEPT !.parts = @ + 1]
    <2>1. remote' = [remote EXCEPT ![upload[u].target][upload[u].file] = content]
        BY <1>4
    <2>2. content \in Content
        BY <1>0, <1>3, <1>4, SMTT(30) DEF Content, TransferAssumption
    <2>3. content.by = u /\ content.parts = now.parts + 1
        BY <1>3, <1>4 DEF Content
    <2> HIDE DEF content
    <2>4. Written(upload[u].target, upload[u].file, u, now.parts + 1)
        BY <1>0, <1>2, <2>1, <2>2, <2>3, RemoteWritten
    <2> USE DEF Written
    <2>5. UNCHANGED <<temps, upload>> /\ now.by = u
        BY <1>4
    <2>6. /\ ByUpload(remote'[upload[u].target][upload[u].file])
          /\ \A t \in Targets, f \in Files :
                 ByUpload(remote[t][f]) => ByUpload(remote'[t][f])
        BY <1>0, <1>2, <2>4 DEF TransferAssumption, ByUpload
    <2>7. TransferShaped'  BY <1>0, <1>1, <1>2, <2>4, <2>5 DEF TransferShaped
    <2>8. Fitting'  BY <1>0, <1>1, <1>2, <2>4, <2>5 DEF TransferShaped, Fitting
    <2>9. Copied'
        <3> SUFFICES ASSUME NEW v \in Uploads
                     PROVE  /\ upload'[v].at \in {"next", "ok"} \cup Handling =>
                                   \A f \in Files \ upload'[v].todo :
                                       ByUpload(remote'[upload'[v].target][f])
                            /\ upload'[v].at \in {"fill", "reply"} =>
                                   ByUpload(remote'[upload'[v].target][upload'[v].file])
            BY DEF Copied
        <3>1. /\ upload[v] \in UpStates /\ upload[v].target \in Targets
              /\ upload[v].at \in Handling => upload[v].file \in Files
              /\ upload[v].at \in {"next", "ok"} \cup Handling =>
                     \A f \in Files \ upload[v].todo : ByUpload(remote[upload[v].target][f])
              /\ upload[v].at \in {"fill", "reply"} =>
                     ByUpload(remote[upload[v].target][upload[v].file])
            BY <1>0 DEF TransferShaped, Fitting, Copied, UpStates
        <3>2. /\ upload'[v].target = upload[v].target /\ upload'[v].file = upload[v].file
              /\ upload'[v].todo = upload[v].todo
              /\ upload'[v].at = upload[v].at \/ v = u
            BY <2>5
        <3>3. ASSUME upload'[v].at \in {"next", "ok"} \cup Handling,
                      NEW f \in Files \ upload'[v].todo
               PROVE  ByUpload(remote'[upload'[v].target][f])
            <4>1. upload[v].at \in {"next", "ok"} \cup Handling
                BY <1>1, <3>2, <3>3
            <4>2. ByUpload(remote[upload[v].target][f])
                BY <3>1, <3>2, <3>3, <4>1
            <4>3. QED  BY <2>6, <3>1, <3>2, <4>2
        <3>4. ASSUME upload'[v].at \in {"fill", "reply"}
               PROVE  ByUpload(remote'[upload'[v].target][upload'[v].file])
            <4>1. CASE v = u
                BY <2>6, <3>2, <4>1
            <4>2. CASE v # u
                <5>1. upload[v].at \in {"fill", "reply"}
                    BY <3>2, <3>4, <4>2
                <5>2. QED
                    BY <2>6, <3>1, <3>2, <5>1
            <4>3. QED  BY <4>1, <4>2
        <3>5. QED  BY <3>3, <3>4
    <2>10. TempsKnown'  BY <1>0, <1>1, <1>2, <2>4, <2>5 DEF TransferShaped, Fitting, TempsKnown, UploadRuns, Temp
    <2>11. WholeOrInPlace'
        BY <1>0, <1>1, <1>2, <2>4, <2>5 DEF TransferShaped, Fitting, WholeOrInPlace, Whole
    <2>12. Collecting'
        BY <1>0, <1>1, <1>2, <2>4, <2>5 DEF TransferShaped, Fitting, Collecting, NothingInPlace,
           Whole, Opened
    <2>13. QED  BY <2>7, <2>8, <2>9, <2>10, <2>11, <2>12 DEF TransferInv
<1>5. CASE /\ temps' = temps \ {Temp(u, upload[u].id)}
           /\ Proceeds(u, "reply")
           /\ UNCHANGED remote
    <2>1. UploadAdvances(u, "reply")
        BY <1>0, <1>5, ProceedsMoves
    <2>2. TransferShaped'  BY <1>0, <1>1, <1>2, <1>5, <2>1 DEF TransferShaped
    <2>3. Fitting'  BY <1>0, <1>1, <1>2, <1>5, <2>1 DEF TransferShaped, Fitting
    <2>4. Copied'  BY <1>0, <1>1, <1>2, <1>5, <2>1 DEF TransferShaped, Fitting, Copied, Content
    <2>5. TempsKnown'  BY <1>0, <1>1, <1>2, <1>5, <2>1 DEF TransferShaped, Fitting, TempsKnown, UploadRuns, Temp
    <2>6. WholeOrInPlace'
        BY <1>0, <1>1, <1>2, <1>5, <2>1 DEF TransferShaped, Fitting, WholeOrInPlace, Whole
    <2>7. Collecting'
        BY <1>0, <1>1, <1>2, <1>5, <2>1 DEF TransferShaped, Fitting, Collecting, NothingInPlace,
           Whole, Opened
    <2>8. QED  BY <2>2, <2>3, <2>4, <2>5, <2>6, <2>7 DEF TransferInv
<1>6. QED  BY <1>4, <1>5 DEF Fills

\* The command goes on with the next file, if there is one.
LEMMA RepliedKeeps ==
    ASSUME TransferAssumption, TransferInv, NEW u \in Uploads, Replied(u)
    PROVE  TransferInv'
<1>0. /\ TransferAssumption
      /\ TransferShaped /\ Fitting /\ Copied /\ TempsKnown /\ WholeOrInPlace /\ Collecting
    BY DEF TransferInv
<1> USE DEF UploadAdvances, UploadBecomes, Written, Fetches, Handling, Targets
<1>1. /\ upload[u].at = "reply"
      /\ UNCHANGED <<sameName, directory, remote, temps, unarmed, uploadId, download, restarts>>
    BY DEF Replied
<1>2. /\ upload[u] \in UpStates /\ upload[u].file \in Files /\ upload[u].target \in Targets
      /\ upload[u].parts \in 0 .. MaxParts /\ upload[u].id \in Nat
    BY <1>0, <1>1 DEF TransferShaped, Fitting, UpStates
<1> DEFINE todo == upload[u].todo \ {upload[u].file}
           at == IF todo = {} THEN "ok" ELSE "next"
<1>3. /\ at \in {"ok", "next"} /\ (at = "ok" => todo = {})
      /\ upload \in [Uploads -> UpStates] /\ todo \in SUBSET Files
    BY <1>0, <1>2 DEF TransferShaped, UpStates
<1>4. upload' = [upload EXCEPT ![u] = [Ended(@, at) EXCEPT !.todo = todo]]
    BY DEF Replied
<1>5. todo = upload[u].todo \ {upload[u].file}
    OBVIOUS
<1> HIDE DEF at, todo
<1>6. UploadBecomes(u, at, upload[u].target, NoFile, 0, 0, todo)
    <2> DEFINE gone == Ended(upload[u], at)
    <2>1. /\ gone \in UpStates /\ gone.at = at /\ gone.target = upload[u].target
          /\ gone.file = NoFile /\ gone.id = 0 /\ gone.parts = 0
        BY <1>0, <1>2, <1>3, EndedState
    <2>2. upload' = [upload EXCEPT ![u] = [gone EXCEPT !.todo = todo]]
        BY <1>4
    <2> HIDE DEF gone
    <2>3. QED  BY <1>3, <2>1, <2>2 DEF UpStates
<1>7. TransferShaped'  BY <1>0, <1>1, <1>2, <1>3, <1>5, <1>6 DEF TransferShaped
<1>8. Fitting'  BY <1>0, <1>1, <1>2, <1>3, <1>5, <1>6 DEF TransferShaped, Fitting
<1>9. Copied'  BY <1>0, <1>1, <1>2, <1>3, <1>5, <1>6 DEF TransferShaped, Fitting, Copied, Content
<1>10. TempsKnown'
    BY <1>0, <1>1, <1>2, <1>3, <1>5, <1>6 DEF TransferShaped, Fitting, TempsKnown, UploadRuns, Temp
<1>11. WholeOrInPlace'
    BY <1>0, <1>1, <1>2, <1>3, <1>5, <1>6 DEF TransferShaped, Fitting, WholeOrInPlace, Whole
<1>12. Collecting'
    BY <1>0, <1>1, <1>2, <1>3, <1>5, <1>6 DEF TransferShaped, Fitting, Collecting,
       NothingInPlace, Whole, Opened
<1>13. QED  BY <1>7, <1>8, <1>9, <1>10, <1>11, <1>12 DEF TransferInv

\* A handler that fails removes its temporary file.
LEMMA UploadFailsKeeps ==
    ASSUME TransferAssumption, TransferInv, NEW u \in Uploads, UploadFails(u)
    PROVE  TransferInv'
<1>0. /\ TransferAssumption
      /\ TransferShaped /\ Fitting /\ Copied /\ TempsKnown /\ WholeOrInPlace /\ Collecting
    BY DEF TransferInv
<1> USE DEF UploadAdvances, UploadBecomes, Written, Fetches, Handling, Targets
<1>1. /\ upload[u].at \in {"probe", "mkdir", "next"} \cup Handling
      /\ temps' = IF UploadRuns(u) /\ upload[u].at # "open"
                  THEN temps \ {Temp(u, upload[u].id)} ELSE temps
      /\ UNCHANGED <<sameName, directory, remote, unarmed, uploadId, download, restarts>>
    BY DEF UploadFails, UploadRuns
<1>2. upload \in [Uploads -> UpStates] /\ upload[u] \in UpStates
    BY <1>0 DEF TransferShaped
<1>3. UploadBecomes(u, "failed", upload[u].target, NoFile, 0, 0, upload[u].todo)
    BY <1>0, <1>2, EndedState DEF UploadFails
<1>4. TransferShaped'  BY <1>0, <1>1, <1>2, <1>3 DEF TransferShaped
<1>5. Fitting'  BY <1>0, <1>1, <1>2, <1>3 DEF TransferShaped, Fitting
<1>6. Copied'  BY <1>0, <1>1, <1>2, <1>3 DEF TransferShaped, Fitting, Copied, Content
<1>7. TempsKnown'  BY <1>0, <1>1, <1>2, <1>3 DEF TransferShaped, Fitting, TempsKnown, UploadRuns, Temp
<1>8. WholeOrInPlace'  BY <1>0, <1>1, <1>2, <1>3 DEF TransferShaped, Fitting, WholeOrInPlace, Whole
<1>9. Collecting'
    BY <1>0, <1>1, <1>2, <1>3 DEF TransferShaped, Fitting, Collecting, NothingInPlace, Whole,
       Opened
<1>10. QED  BY <1>4, <1>5, <1>6, <1>7, <1>8, <1>9 DEF TransferInv

\* A killed agent leaves its temporary files; that is on record.
LEMMA AgentDiesKeeps ==
    ASSUME TransferAssumption, TransferInv, AgentDies
    PROVE  TransferInv'
<1>0. /\ TransferAssumption
      /\ TransferShaped /\ Fitting /\ Copied /\ TempsKnown /\ WholeOrInPlace /\ Collecting
    BY DEF TransferInv
<1> USE DEF UploadAdvances, UploadBecomes, Written, Fetches, Handling, Targets
<1>1. /\ restarts < MaxRestarts /\ restarts' = restarts + 1 /\ uploadId' = 0
      /\ UNCHANGED <<sameName, directory, remote, temps, unarmed>>
    BY DEF AgentDies
<1>2. \A u \in Uploads :
          upload'[u] = IF upload[u].at \in Handling THEN Ended(upload[u], "failed")
                                                    ELSE upload[u]
    BY DEF AgentDies
<1>3. \A u \in Uploads :
          /\ upload'[u] \in UpStates
          /\ \/ upload[u].at \notin Handling /\ upload'[u] = upload[u]
             \/ upload[u].at \in Handling /\ upload'[u].at = "failed"
    <2> SUFFICES ASSUME NEW u \in Uploads
                 PROVE  <1>3!(u)
        OBVIOUS
    <2>1. upload[u] \in UpStates
        BY <1>0 DEF TransferShaped
    <2>2. QED  BY <1>0, <1>2, <2>1, EndedState
<1>4. upload' \in [Uploads -> UpStates]
    BY <1>3 DEF AgentDies
<1>5. \A d \in Downloads :
          download'[d] = IF download[d].at = "read" THEN Discarded(download[d])
                                                    ELSE download[d]
    BY DEF AgentDies
<1>6. \A d \in Downloads :
          /\ download'[d] \in DownStates
          /\ \/ download[d].at # "read" /\ download'[d] = download[d]
             \/ /\ download[d].at = "read" /\ download'[d].at = "failed"
                /\ ~download'[d].open /\ download'[d].local = download[d].local
                /\ Len(download'[d].got) = 0
    <2> SUFFICES ASSUME NEW d \in Downloads
                 PROVE  <1>6!(d)
        OBVIOUS
    <2>1. download[d] \in DownStates
        BY <1>0 DEF TransferShaped
    <2>2. QED  BY <1>0, <1>5, <2>1, DiscardedState
<1>7. download' \in [Downloads -> DownStates]
    BY <1>6 DEF AgentDies
<1>8. restarts' \in 0 .. MaxRestarts /\ restarts' # 0
    BY <1>0, <1>1 DEF TransferShaped, TransferAssumption
<1>9. TransferShaped'  BY <1>0, <1>1, <1>3, <1>4, <1>6, <1>7, <1>8 DEF TransferShaped
<1>10. Fitting'  BY <1>0, <1>1, <1>3, <1>4, <1>6, <1>7, <1>8 DEF TransferShaped, Fitting
<1>11. Copied'
    BY <1>0, <1>1, <1>3, <1>4, <1>6, <1>7, <1>8 DEF TransferShaped, Fitting, Copied, Content
<1>12. TempsKnown'
    BY <1>0, <1>1, <1>3, <1>4, <1>6, <1>7, <1>8 DEF TransferShaped, Fitting, TempsKnown, UploadRuns,
       Temp
<1>13. WholeOrInPlace'
    BY <1>0, <1>1, <1>3, <1>4, <1>6, <1>7, <1>8 DEF TransferShaped, Fitting, WholeOrInPlace,
       Whole
<1>14. Collecting'
    BY <1>0, <1>1, <1>3, <1>4, <1>6, <1>7, <1>8 DEF TransferShaped, Fitting, Collecting,
       NothingInPlace, Whole, Opened
<1>15. QED  BY <1>9, <1>10, <1>11, <1>12, <1>13, <1>14 DEF TransferInv

\* A download opens the file that is there.
LEMMA GetsFileKeeps ==
    ASSUME TransferAssumption, TransferInv, NEW d \in Downloads, NEW f \in Files, GetsFile(d, f)
    PROVE  TransferInv'
<1>0. /\ TransferAssumption
      /\ TransferShaped /\ Fitting /\ Copied /\ TempsKnown /\ WholeOrInPlace /\ Collecting
    BY DEF TransferInv
<1> USE DEF UploadAdvances, UploadBecomes, Written, Fetches, Handling, Targets
<1>1. /\ download[d].at = "ask"
      /\ UNCHANGED <<sameName, directory, remote, temps, unarmed, uploadId, upload, restarts>>
    BY DEF GetsFile
<1>2. download \in [Downloads -> DownStates] /\ download[d] \in DownStates
    BY <1>0 DEF TransferShaped
<1>3. Fetches(d, "read", f, TRUE, download[d].content, download[d].got, download[d].local)
    BY <1>0, <1>1, <1>2 DEF GetsFile, DownStates
<1>4. TransferShaped'  BY <1>0, <1>1, <1>2, <1>3 DEF TransferShaped
<1>5. Fitting'  BY <1>0, <1>1, <1>2, <1>3 DEF TransferShaped, Fitting
<1>6. Copied'  BY <1>0, <1>1, <1>2, <1>3 DEF TransferShaped, Fitting, Copied, Content
<1>7. TempsKnown'  BY <1>0, <1>1, <1>2, <1>3 DEF TransferShaped, Fitting, TempsKnown, UploadRuns, Temp
<1>8. WholeOrInPlace'  BY <1>0, <1>1, <1>2, <1>3 DEF TransferShaped, Fitting, WholeOrInPlace, Whole
<1>9. Collecting'
    BY <1>0, <1>1, <1>2, <1>3 DEF TransferShaped, Fitting, Collecting, NothingInPlace, Whole,
       Opened
<1>10. QED  BY <1>4, <1>5, <1>6, <1>7, <1>8, <1>9 DEF TransferInv

\* A part is of the file that was opened.
LEMMA ReadsPartKeeps ==
    ASSUME TransferAssumption, TransferInv, NEW d \in Downloads, ReadsPart(d)
    PROVE  TransferInv'
<1>0. /\ TransferAssumption
      /\ TransferShaped /\ Fitting /\ Copied /\ TempsKnown /\ WholeOrInPlace /\ Collecting
    BY DEF TransferInv
<1> USE DEF UploadAdvances, UploadBecomes, Written, Fetches, Handling, Targets
<1>1. /\ download[d].at = "read" /\ Len(download[d].got) < Opened(d).parts
      /\ UNCHANGED <<sameName, directory, remote, temps, unarmed, uploadId, upload, restarts>>
    BY DEF ReadsPart
<1>2. download \in [Downloads -> DownStates] /\ download[d] \in DownStates
    BY <1>0 DEF TransferShaped
<1>3. /\ Opened(d) \in Content /\ Opened(d).parts \in 0 .. MaxParts
      /\ Len(download[d].got) \in Nat
      /\ Len(Append(download[d].got, Opened(d).by)) = Len(download[d].got) + 1
      /\ \A i \in 1 .. Len(download[d].got) + 1 :
             Append(download[d].got, Opened(d).by)[i] =
                 IF i <= Len(download[d].got) THEN download[d].got[i] ELSE Opened(d).by
      /\ Append(download[d].got, Opened(d).by) \in Seq(Uploads \cup {NoFile})
    <2>1. Opened(d) \in Content
        BY <1>0, <1>1, <1>2 DEF Opened, TransferShaped, Fitting, Remotes, DownStates
    <2>2. Opened(d).parts \in 0 .. MaxParts
        BY <2>1 DEF Content
    <2>3. Opened(d).by \in Uploads \cup {NoFile} /\ download[d].got \in Seq(Uploads \cup {NoFile})
        BY <1>2, <2>1 DEF Content, DownStates
    <2>4. QED  BY <2>1, <2>2, <2>3
<1>4. Fetches(d, "read", download[d].file, download[d].open, download[d].content,
             Append(download[d].got, Opened(d).by), download[d].local)
    BY <1>0, <1>1, <1>2, <1>3 DEF ReadsPart, DownStates
<1>5. TransferShaped'  BY <1>0, <1>1, <1>2, <1>3, <1>4 DEF TransferShaped
<1>6. Fitting'  BY <1>0, <1>1, <1>2, <1>3, <1>4 DEF TransferShaped, Fitting
<1>7. Copied'  BY <1>0, <1>1, <1>2, <1>3, <1>4 DEF TransferShaped, Fitting, Copied, Content
<1>8. TempsKnown'  BY <1>0, <1>1, <1>2, <1>3, <1>4 DEF TransferShaped, Fitting, TempsKnown, UploadRuns, Temp
<1>9. WholeOrInPlace'
    BY <1>0, <1>1, <1>2, <1>3, <1>4 DEF TransferShaped, Fitting, WholeOrInPlace, Whole
<1>10. Collecting'
    <2> SUFFICES ASSUME NothingInPlace'
                 PROVE  /\ \A t \in Targets, f \in Files : Whole(remote[t][f])'
                        /\ \A e \in Downloads :
                            /\ download'[e].at = "read" =>
                                /\ Whole(Opened(e)')
                                /\ \A i \in 1 .. Len(download'[e].got) :
                                       download'[e].got[i] = Opened(e)'.by
                            /\ download'[e].at \in {"write", "ok"} =>
                                /\ Len(download'[e].got) = MaxParts
                                /\ \A i, j \in 1 .. MaxParts :
                                       download'[e].got[i] = download'[e].got[j]
        BY DEF Collecting, Whole
    <2>1. NothingInPlace
        BY <1>1 DEF NothingInPlace
    <2>2. \A t \in Targets, f \in Files : Whole(remote[t][f])'
        BY <1>0, <1>1, <2>1 DEF Collecting, Whole
    <2>3. ASSUME NEW e \in Downloads, e # d
          PROVE  download'[e] = download[e] /\ Opened(e)' = Opened(e)
        BY <1>1, <1>4, <2>3 DEF Opened
    <2>4. Opened(d)' = Opened(d)
        BY <1>1, <1>4 DEF Opened
    <2>5. /\ Whole(Opened(d)')
          /\ \A i \in 1 .. Len(download[d].got) : download[d].got[i] = Opened(d).by
        BY <1>0, <1>1, <2>1, <2>4 DEF Collecting, Whole
    <2>6. /\ download'[d].at = "read"
          /\ \A i \in 1 .. Len(download'[d].got) : download'[d].got[i] = Opened(d)'.by
        <3>1. /\ download'[d].at = "read"
              /\ download'[d].got = Append(download[d].got, Opened(d).by)
            BY <1>4
        <3> HIDE DEF Fetches
        <3>2. ASSUME NEW i \in 1 .. Len(download'[d].got)
              PROVE  download'[d].got[i] = Opened(d).by
            <4>1. i \in 1 .. Len(download[d].got) + 1
                BY <1>3, <3>1
            <4>2. CASE i <= Len(download[d].got)
                BY <1>3, <2>5, <3>1, <4>1, <4>2
            <4>3. CASE ~(i <= Len(download[d].got))
                BY <1>3, <3>1, <4>1, <4>3
            <4>4. QED  BY <4>2, <4>3
        <3>3. QED  BY <2>4, <3>1, <3>2
    <2>7. QED
        BY <1>0, <2>1, <2>2, <2>3, <2>5, <2>6 DEF Collecting
<1>11. QED  BY <1>5, <1>6, <1>7, <1>8, <1>9, <1>10 DEF TransferInv

\* A file is collected when its end is reached.
LEMMA ReadsEndKeeps ==
    ASSUME TransferAssumption, TransferInv, NEW d \in Downloads, ReadsEnd(d)
    PROVE  TransferInv'
<1>0. /\ TransferAssumption
      /\ TransferShaped /\ Fitting /\ Copied /\ TempsKnown /\ WholeOrInPlace /\ Collecting
    BY DEF TransferInv
<1> USE DEF UploadAdvances, UploadBecomes, Written, Fetches, Handling, Targets
<1>1. /\ download[d].at = "read" /\ Len(download[d].got) >= Opened(d).parts
      /\ UNCHANGED <<sameName, directory, remote, temps, unarmed, uploadId, upload, restarts>>
    BY DEF ReadsEnd
<1>2. download \in [Downloads -> DownStates] /\ download[d] \in DownStates
    BY <1>0 DEF TransferShaped
<1>3. Fetches(d, "write", download[d].file, FALSE, download[d].content,
              download[d].got, download[d].local)
    BY <1>0, <1>1, <1>2 DEF ReadsEnd, DownStates
<1>4. TransferShaped'  BY <1>0, <1>1, <1>2, <1>3 DEF TransferShaped
<1>5. Fitting'  BY <1>0, <1>1, <1>2, <1>3 DEF TransferShaped, Fitting
<1>6. Copied'  BY <1>0, <1>1, <1>2, <1>3 DEF TransferShaped, Fitting, Copied, Content
<1>7. TempsKnown'  BY <1>0, <1>1, <1>2, <1>3 DEF TransferShaped, Fitting, TempsKnown, UploadRuns, Temp
<1>8. WholeOrInPlace'  BY <1>0, <1>1, <1>2, <1>3 DEF TransferShaped, Fitting, WholeOrInPlace, Whole
<1>9. Collecting'
    BY <1>0, <1>1, <1>2, <1>3 DEF TransferShaped, Fitting, Collecting, NothingInPlace, Whole,
       Opened
<1>10. QED  BY <1>4, <1>5, <1>6, <1>7, <1>8, <1>9 DEF TransferInv

\* A collected file replaces the local one.
LEMMA ReplacesLocalKeeps ==
    ASSUME TransferAssumption, TransferInv, NEW d \in Downloads, ReplacesLocal(d)
    PROVE  TransferInv'
<1>0. /\ TransferAssumption
      /\ TransferShaped /\ Fitting /\ Copied /\ TempsKnown /\ WholeOrInPlace /\ Collecting
    BY DEF TransferInv
<1> USE DEF UploadAdvances, UploadBecomes, Written, Fetches, Handling, Targets
<1>1. /\ download[d].at = "write"
      /\ UNCHANGED <<sameName, directory, remote, temps, unarmed, uploadId, upload, restarts>>
    BY DEF ReplacesLocal
<1>2. download \in [Downloads -> DownStates] /\ download[d] \in DownStates
    BY <1>0 DEF TransferShaped
<1>3. Fetches(d, "ok", download[d].file, download[d].open, download[d].content,
              download[d].got, "new")
    BY <1>0, <1>1, <1>2 DEF ReplacesLocal, DownStates
<1>4. TransferShaped'  BY <1>0, <1>1, <1>2, <1>3 DEF TransferShaped
<1>5. Fitting'  BY <1>0, <1>1, <1>2, <1>3 DEF TransferShaped, Fitting
<1>6. Copied'  BY <1>0, <1>1, <1>2, <1>3 DEF TransferShaped, Fitting, Copied, Content
<1>7. TempsKnown'  BY <1>0, <1>1, <1>2, <1>3 DEF TransferShaped, Fitting, TempsKnown, UploadRuns, Temp
<1>8. WholeOrInPlace'  BY <1>0, <1>1, <1>2, <1>3 DEF TransferShaped, Fitting, WholeOrInPlace, Whole
<1>9. Collecting'
    BY <1>0, <1>1, <1>2, <1>3 DEF TransferShaped, Fitting, Collecting, NothingInPlace, Whole,
       Opened
<1>10. QED  BY <1>4, <1>5, <1>6, <1>7, <1>8, <1>9 DEF TransferInv

\* A download that fails leaves the local file alone.
LEMMA DownloadFailsKeeps ==
    ASSUME TransferAssumption, TransferInv, NEW d \in Downloads, DownloadFails(d)
    PROVE  TransferInv'
<1>0. /\ TransferAssumption
      /\ TransferShaped /\ Fitting /\ Copied /\ TempsKnown /\ WholeOrInPlace /\ Collecting
    BY DEF TransferInv
<1> USE DEF UploadAdvances, UploadBecomes, Written, Fetches, Handling, Targets
<1>1. /\ download[d].at \in {"read", "write"}
      /\ UNCHANGED <<sameName, directory, remote, temps, unarmed, uploadId, upload, restarts>>
    BY DEF DownloadFails
<1>2. download \in [Downloads -> DownStates] /\ download[d] \in DownStates
    BY <1>0 DEF TransferShaped
<1>3. Original \in Content /\ <<>> \in Seq(Uploads \cup {NoFile})
    BY <1>0 DEF Original, Content, TransferAssumption
<1>4. Fetches(d, "failed", NoFile, FALSE, Original, <<>>, download[d].local)
    BY <1>0, <1>1, <1>2, <1>3 DEF DownloadFails, Discarded, DownStates
<1>5. TransferShaped'  BY <1>0, <1>1, <1>2, <1>3, <1>4 DEF TransferShaped
<1>6. Fitting'  BY <1>0, <1>1, <1>2, <1>3, <1>4 DEF TransferShaped, Fitting
<1>7. Copied'  BY <1>0, <1>1, <1>2, <1>3, <1>4 DEF TransferShaped, Fitting, Copied, Content
<1>8. TempsKnown'  BY <1>0, <1>1, <1>2, <1>3, <1>4 DEF TransferShaped, Fitting, TempsKnown, UploadRuns, Temp
<1>9. WholeOrInPlace'
    BY <1>0, <1>1, <1>2, <1>3, <1>4 DEF TransferShaped, Fitting, WholeOrInPlace, Whole
<1>10. Collecting'
    BY <1>0, <1>1, <1>2, <1>3, <1>4 DEF TransferShaped, Fitting, Collecting, NothingInPlace,
       Whole, Opened
<1>11. QED  BY <1>5, <1>6, <1>7, <1>8, <1>9, <1>10 DEF TransferInv

-----------------------------------------------------------------------------
(***************************************************************************)
(* The theorems                                                            *)
(***************************************************************************)

\* Before the first command nothing is copied and nothing left behind.
LEMMA TransferInitHolds ==
    ASSUME TransferAssumption, TransferInit
    PROVE  TransferInv
<1> USE DEF TransferInit, Handling, Targets
<1>1. Original \in Content /\ Whole(Original) /\ 0 \in 0 .. MaxParts /\ 0 \in 0 .. MaxRestarts
    BY DEF Original, Content, Whole, TransferAssumption
<1>2. <<>> \in Seq(Uploads \cup {NoFile}) /\ Len(<<>>) = 0
    OBVIOUS
<1>3. remote \in Remotes /\ temps \subseteq Temps /\ unarmed \subseteq Temps
    BY <1>1 DEF Remotes
<1>4. upload \in [Uploads -> UpStates]
    BY <1>1 DEF UpStates
<1>5. download \in [Downloads -> DownStates]
    BY <1>1, <1>2 DEF DownStates
<1>6. TransferShaped
    <2>1. \A d \in Downloads : Len(download[d].got) <= MaxParts
        BY <1>1, <1>2 DEF TransferAssumption
    <2>2. /\ sameName \in BOOLEAN /\ directory \in BOOLEAN
          /\ uploadId \in Nat /\ restarts \in 0 .. MaxRestarts
        BY <1>1
    <2>3. QED  BY <1>3, <1>4, <1>5, <2>1, <2>2 DEF TransferShaped
<1>7. Fitting  BY <1>2 DEF Fitting
<1>8. Copied  BY DEF Copied
<1>9. TempsKnown  BY DEF TempsKnown, UploadRuns
<1>10. WholeOrInPlace  BY <1>1 DEF WholeOrInPlace
<1>11. Collecting  BY <1>1 DEF Collecting
<1>12. QED  BY <1>6, <1>7, <1>8, <1>9, <1>10, <1>11 DEF TransferInv

\* A step of the rest of the system touches no copy.
LEMMA TransferStutters ==
    ASSUME TransferInv, UNCHANGED transferVars
    PROVE  TransferInv'
<1>1. UNCHANGED <<sameName, directory, remote, temps, unarmed, uploadId, upload, download, restarts>>
    BY DEF transferVars
<1>2. TransferShaped'  BY <1>1 DEF TransferInv, TransferShaped
<1>3. Fitting'  BY <1>1 DEF TransferInv, Fitting
<1>4. Copied'  BY <1>1 DEF TransferInv, Copied
<1>5. TempsKnown'  BY <1>1 DEF TransferInv, TempsKnown, UploadRuns, Temp
<1>6. WholeOrInPlace'  BY <1>1 DEF TransferInv, WholeOrInPlace
<1>7. Collecting'  BY <1>1 DEF TransferInv, Collecting, NothingInPlace, Opened
<1>8. QED  BY <1>2, <1>3, <1>4, <1>5, <1>6, <1>7 DEF TransferInv

\* Every step keeps the invariant.
LEMMA TransferNextKeeps ==
    ASSUME TransferAssumption, TransferInv, [TransferNext]_transferVars
    PROVE  TransferInv'
<1>1. ASSUME NEW u \in Uploads,
             \/ FindsTarget(u) \/ MakesDirectory(u)
             \/ \E f \in Files : PutsFile(u, f)
             \/ ArmsCleanup(u) \/ ReceivesPart(u) \/ EndMarker(u)
             \/ Renames(u) \/ Truncates(u) \/ Fills(u) \/ Replied(u) \/ UploadFails(u)
      PROVE  TransferInv'
    BY <1>1, FindsTargetKeeps, MakesDirectoryKeeps, PutsFileKeeps, ArmsCleanupKeeps,
       ReceivesPartKeeps, EndMarkerKeeps, UploadRenamesKeeps, TruncatesKeeps, FillsKeeps, RepliedKeeps,
       UploadFailsKeeps
<1>2. ASSUME NEW d \in Downloads,
             \/ \E f \in Files : GetsFile(d, f)
             \/ ReadsPart(d) \/ ReadsEnd(d) \/ ReplacesLocal(d) \/ DownloadFails(d)
      PROVE  TransferInv'
    BY <1>2, GetsFileKeeps, ReadsPartKeeps, ReadsEndKeeps, ReplacesLocalKeeps,
       DownloadFailsKeeps
<1>3. CASE AgentDies
    BY <1>3, AgentDiesKeeps
<1>4. CASE UNCHANGED transferVars
    BY <1>4, TransferStutters
<1>5. QED  BY <1>1, <1>2, <1>3, <1>4 DEF TransferNext

\* The invariant holds in every state of every behaviour of the copies.
THEOREM TransferInvariant == ASSUME TransferAssumption PROVE TransferSpec => []TransferInv
<1>1. TransferInit => TransferInv
    BY TransferInitHolds
<1>2. TransferInv /\ [TransferNext]_transferVars => TransferInv'
    BY TransferNextKeeps
<1>3. QED  BY <1>1, <1>2, PTL DEF TransferSpec

\* No reader and no crash sees half of an atomic upload (put_file renames the whole
\* temporary file over the destination), for any number of uploads to one path and
\* any interleaving with downloads, failures and restarts of the agent.
THEOREM TransfersNeverTorn == ASSUME TransferAssumption PROVE TransferSpec => []NothingTorn
<1>1. TransferInv => NothingTorn
    <2> SUFFICES ASSUME TransferInv PROVE NothingTorn
        OBVIOUS
    <2>1. \A t \in Targets, f \in Files :
              Whole(remote[t][f]) \/ remote[t][f].by \in InPlace
        BY DEF TransferInv, WholeOrInPlace
    <2>2. ASSUME NEW d \in Downloads, download[d].local = "new", NothingInPlace
          PROVE  /\ Len(download[d].got) = MaxParts
                 /\ \A i, j \in 1 .. MaxParts : download[d].got[i] = download[d].got[j]
        BY <2>2 DEF TransferInv, Fitting, Collecting
    <2>3. QED  BY <2>1, <2>2 DEF NothingTorn
<1>2. QED  BY <1>1, TransferInvariant, PTL

\* Every way out of put_file that the agent survives removes the temporary file once
\* its cleanup is armed, and two handlers never share one; only a call dropped at the
\* await of the open leaves its file.
THEOREM NoTempLeftBehind == ASSUME TransferAssumption PROVE TransferSpec => []TempsOwned
<1>1. TransferInv => TempsOwned
    <2> SUFFICES ASSUME TransferInv PROVE TempsOwned
        OBVIOUS
    <2> DEFINE running == {u \in Uploads : upload[u].at \in Handling \ {"reply"}}
               owned == {Temp(u, upload[u].id) : u \in running}
               own == [u \in running |-> Temp(u, upload[u].id)]
    <2>1. \A u : u \in running <=> u \in Uploads /\ UploadRuns(u)
        BY DEF UploadRuns
    <2>2. \A temp : temp \in owned <=> \E u \in running : temp = Temp(u, upload[u].id)
        OBVIOUS
    <2>3. \A u \in running : own[u] = Temp(u, upload[u].id)
        OBVIOUS
    <2>4. IsFiniteSet(running)
        BY FS_Subset DEF TransferAssumption
    <2>5. own \in Bijection(running, owned)
        <3>1. own \in [running -> owned]
            OBVIOUS
        <3>2. \A u, v \in running : own[u] = own[v] => u = v
            <4> HIDE DEF running, own, owned
            <4>1. QED  BY <2>1, <2>3 DEF TransferInv, TempsKnown
        <3>3. \A temp \in owned : \E u \in running : own[u] = temp
            <4> HIDE DEF running, own, owned
            <4>1. QED  BY <2>2, <2>3
        <3> HIDE DEF running, own, owned
        <3>4. QED  BY <3>1, <3>2, <3>3 DEF Bijection, Injection, Surjection, IsInjective
    <2> HIDE DEF running, own, owned
    <2>6. ExistsBijection(running, owned)
        BY <2>5 DEF ExistsBijection
    <2>7. Cardinality(owned) = Cardinality(running)
        BY <2>4, <2>6, FS_Bijection
    <2>8. owned \subseteq temps
        BY <2>1, <2>2 DEF TransferInv, TempsKnown
    <2>9. restarts = 0 => temps \ owned \subseteq unarmed
        BY <2>1, <2>2, <2>8 DEF TransferInv, TempsKnown
    <2>10. QED  BY <2>7, <2>8, <2>9 DEF TempsOwned, running, owned
<1>2. QED  BY <1>1, TransferInvariant, PTL

\* A directory copy that reports success has put every file into the one target that
\* remote_directory_target chose, whatever other copies do to the same path.
THEOREM CopiesComplete == ASSUME TransferAssumption PROVE TransferSpec => []CopyComplete
<1>1. TransferInv => CopyComplete
    <2> SUFFICES ASSUME TransferInv, NEW u \in Uploads, upload[u].at = "ok"
                 PROVE  /\ directory
                        /\ \A f \in Files : remote[upload[u].target][f].by # NoFile
        BY DEF CopyComplete
    <2>1. upload[u].todo = {} /\ directory
        BY DEF TransferInv, Fitting
    <2>2. \A f \in Files \ upload[u].todo : ByUpload(remote[upload[u].target][f])
        BY DEF TransferInv, Copied
    <2>3. QED  BY <2>1, <2>2 DEF ByUpload
<1>2. QED  BY <1>1, TransferInvariant, PTL

\* The copies' state keeps its shape.
THEOREM TransferTyped == ASSUME TransferAssumption PROVE TransferSpec => []TransferTypeOK
<1>1. TransferInv => TransferTypeOK
    BY DEF TransferInv, TransferShaped, TransferTypeOK, Remotes, Temps, UpStates, DownStates
<1>2. QED  BY <1>1, TransferInvariant, PTL

-----------------------------------------------------------------------------
(***************************************************************************)
(* How often something is in a queue.                                      *)
(***************************************************************************)
Spots(q, x) == {i \in 1 .. Len(q) : q[i] = x}
InQueue(q, x) == Cardinality(Spots(q, x))

LEMMA SpotsFinite ==
    ASSUME NEW S, NEW q \in Seq(S), NEW x
    PROVE  IsFiniteSet(Spots(q, x)) /\ InQueue(q, x) \in Nat
<1>1. Len(q) \in Nat
    OBVIOUS
<1>2. IsFiniteSet(1 .. Len(q))
    BY <1>1, FS_Interval
<1>3. Spots(q, x) \in SUBSET (1 .. Len(q))
    BY DEF Spots
<1>4. QED  BY <1>2, <1>3, FS_Subset, FS_CardinalityType DEF InQueue

LEMMA NoCopy == ASSUME NEW x PROVE InQueue(<<>>, x) = 0
<1>1. Spots(<<>>, x) = {}
    BY DEF Spots
<1>2. QED  BY <1>1, FS_EmptySet DEF InQueue

\* A queue takes what it is given at its end.
LEMMA CopiesAppended ==
    ASSUME NEW S, NEW q \in Seq(S), NEW x, NEW y \in S
    PROVE  InQueue(Append(q, y), x) = InQueue(q, x) + (IF y = x THEN 1 ELSE 0)
<1> DEFINE n == Len(q) + 1
<1>1. n \in Nat /\ n \notin Spots(q, x)
    BY DEF Spots
<1>2. Len(Append(q, y)) = n /\ Append(q, y)[n] = y
    OBVIOUS
<1>3. \A i \in 1 .. Len(q) : Append(q, y)[i] = q[i]
    OBVIOUS
<1>4. IsFiniteSet(Spots(q, x)) /\ InQueue(q, x) \in Nat
    BY SpotsFinite
<1>5. CASE y = x
    <2>1. Spots(Append(q, y), x) = Spots(q, x) \cup {n}
        BY <1>1, <1>2, <1>3, <1>5 DEF Spots
    <2>2. QED  BY <2>1, <1>1, <1>4, <1>5, FS_AddElement DEF InQueue
<1>6. CASE y # x
    <2>1. Spots(Append(q, y), x) = Spots(q, x)
        BY <1>1, <1>2, <1>3, <1>6 DEF Spots
    <2>2. QED  BY <2>1, <1>4, <1>6 DEF InQueue
<1>7. QED  BY <1>5, <1>6

\* And gives it back at its head.
LEMMA CopiesTaken ==
    ASSUME NEW S, NEW q \in Seq(S), NEW x, q # <<>>
    PROVE  InQueue(Tail(q), x) = InQueue(q, x) - (IF Head(q) = x THEN 1 ELSE 0)
<1> DEFINE rest == {i \in Spots(q, x) : i # 1}
           back == [i \in Spots(Tail(q), x) |-> i + 1]
<1>1. Len(q) \in Nat /\ Len(q) > 0 /\ Len(Tail(q)) = Len(q) - 1 /\ Head(q) = q[1]
    OBVIOUS
<1>2. \A i \in 1 .. Len(q) - 1 : Tail(q)[i] = q[i + 1]
    OBVIOUS
<1>3. IsFiniteSet(Spots(q, x)) /\ InQueue(q, x) \in Nat
    BY SpotsFinite
<1>4. Tail(q) \in Seq(S)
    BY <1>1
<1>5. IsFiniteSet(Spots(Tail(q), x))
    BY <1>4, SpotsFinite
<1>6. back \in Bijection(Spots(Tail(q), x), rest)
    <2>1. back \in [Spots(Tail(q), x) -> rest]
        BY <1>1, <1>2 DEF Spots
    <2>2. \A i, j \in Spots(Tail(q), x) : back[i] = back[j] => i = j
        BY <1>1 DEF Spots
    <2>3. \A j \in rest : \E i \in Spots(Tail(q), x) : back[i] = j
        <3> TAKE j \in rest
        <3>1. j \in 2 .. Len(q) /\ q[j] = x
            BY <1>1 DEF Spots
        <3>2. j - 1 \in 1 .. Len(q) - 1 /\ Tail(q)[j - 1] = q[(j - 1) + 1] /\ (j - 1) + 1 = j
            BY <3>1, <1>1, <1>2
        <3>3. j - 1 \in Spots(Tail(q), x)
            BY <3>1, <3>2, <1>1 DEF Spots
        <3>4. QED  BY <3>2, <3>3
    <2>4. QED  BY <2>1, <2>2, <2>3 DEF Bijection, Injection, Surjection, IsInjective
<1>7. Cardinality(rest) = InQueue(Tail(q), x)
    BY <1>5, <1>6, FS_Bijection DEF ExistsBijection, InQueue
<1>8. rest = Spots(q, x) \ {1} /\ (1 \in Spots(q, x) <=> Head(q) = x)
    BY <1>1 DEF Spots
<1>9. Cardinality(rest) = IF Head(q) = x THEN InQueue(q, x) - 1 ELSE InQueue(q, x)
    BY <1>3, <1>8, FS_RemoveElement DEF InQueue
<1>10. QED  BY <1>3, <1>7, <1>9

LEMMA SomeCopy ==
    ASSUME NEW S, NEW q \in Seq(S), NEW x, NEW i \in 1 .. Len(q), q[i] = x
    PROVE  InQueue(q, x) > 0
<1>1. IsFiniteSet(Spots(q, x)) /\ InQueue(q, x) \in Nat
    BY SpotsFinite
<1>2. Spots(q, x) # {}
    BY DEF Spots
<1>3. QED  BY <1>1, <1>2, FS_EmptySet DEF InQueue

-----------------------------------------------------------------------------
(***************************************************************************)
(* One-off commands.                                                       *)
(***************************************************************************)
Chunks == [wrote : 0 .. MaxOutput, piped : 0 .. PipeCap, got : 0 .. MaxOutput]
Events == Streams \cup {"exit", "status"}

ExecStages ==
    /\ proc \in {"running", "exited", "reaped"}
    /\ kin \in {"none", "group", "escaped"}
    /\ input \in {"run", "done", "failed", "aborted"}
    /\ alarm \in BOOLEAN
    /\ waiter \in {"wait", "stdin", "stdout", "stderr", "report", "over"}
    /\ verdict \in {"none", "stdin error", "deadline"}
    /\ collector \in {"collecting", "exited", "ok", "error", "gone"}

ExecFlow ==
    /\ output \in [Streams -> Chunks]
    /\ task \in [Streams -> {"read", "send", "done", "cut"}]
    /\ events \in Seq(Events)
    /\ Len(events) \in 0 .. EventCap

ExecShape == ExecStages /\ ExecFlow

\* Chunks of a stream between the command and its collector, the one that its
\* task sends included.
Underway(s) ==
    output[s].piped + (IF task[s] = "send" THEN 1 ELSE 0) + InQueue(events, s)

\* What arrives was written; and nothing goes missing while no task of the
\* stream was cut or failed to send, and the client collects.
ChunksCounted ==
    \A s \in Streams :
        /\ output[s].got + Underway(s) <= output[s].wrote
        /\ (task[s] # "cut" /\ ~alarm /\ collector \in {"collecting", "exited", "ok"}) =>
               output[s].got + Underway(s) = output[s].wrote

\* A task that ends by itself has read to the end of its stream.
DrainedToEnd ==
    \A s \in Streams : (task[s] = "done" /\ ~alarm) => (output[s].piped = 0 /\ ~WriteEndOpen)

\* The waiter's order: the child, then its outputs one by one, then the report.
WaitedInOrder ==
    /\ waiter = "wait" => verdict = "none"
    /\ waiter # "wait" => (proc = "reaped" /\ kin # "group")
    /\ waiter \in {"stderr", "report", "over"} => task["stdout"] \in {"done", "cut"}
    /\ waiter \in {"report", "over"} => task["stderr"] \in {"done", "cut"}

\* A status is reported for a command that was given none of the two errors, and
\* after everything else.
ExitReported ==
    /\ (InQueue(events, "exit") > 0 \/ collector \in {"exited", "ok"}) =>
           (waiter = "over" /\ verdict = "none")
    /\ collector = "ok" => events = <<>>

ExecInv == ExecShape /\ ChunksCounted /\ DrainedToEnd /\ WaitedInOrder /\ ExitReported

LEMMA ExecShaped ==
    ASSUME ExecShape
    PROVE  /\ output \in [Streams -> Chunks]
           /\ task \in [Streams -> {"read", "send", "done", "cut"}]
           /\ events \in Seq(Events) /\ Len(events) \in 0 .. EventCap
           /\ \A x : InQueue(events, x) \in Nat
BY SpotsFinite DEF ExecShape, ExecStages, ExecFlow

\* What a new event adds to what is counted, and what one that is taken removes.
LEMMA EventAdded ==
    ASSUME ExecShape, NEW e \in Events, Room, ExecAssumption
    PROVE  /\ Append(events, e) \in Seq(Events) /\ Len(Append(events, e)) \in 0 .. EventCap
           /\ \A x : InQueue(Append(events, e), x) = InQueue(events, x) + (IF e = x THEN 1 ELSE 0)
<1>1. events \in Seq(Events) /\ Len(events) \in 0 .. EventCap
    BY ExecShaped
<1>2. Append(events, e) \in Seq(Events) /\ Len(Append(events, e)) = Len(events) + 1
    BY <1>1
<1>3. Len(Append(events, e)) \in 0 .. EventCap
    BY <1>1, <1>2 DEF ExecAssumption, Room
<1>4. \A x : InQueue(Append(events, e), x) = InQueue(events, x) + (IF e = x THEN 1 ELSE 0)
    BY <1>1, CopiesAppended
<1>5. QED  BY <1>2, <1>3, <1>4

LEMMA EventTaken ==
    ASSUME ExecShape, events # <<>>, ExecAssumption
    PROVE  /\ Head(events) \in Events /\ InQueue(events, Head(events)) > 0
           /\ Tail(events) \in Seq(Events) /\ Len(Tail(events)) \in 0 .. EventCap
           /\ \A x : InQueue(Tail(events), x)
                       = InQueue(events, x) - (IF Head(events) = x THEN 1 ELSE 0)
<1>1. events \in Seq(Events) /\ Len(events) \in 0 .. EventCap
    BY ExecShaped
<1>2. /\ Head(events) \in Events /\ Head(events) = events[1] /\ 1 \in 1 .. Len(events)
      /\ Tail(events) \in Seq(Events) /\ Len(Tail(events)) = Len(events) - 1
    BY <1>1
<1>3. Len(Tail(events)) \in 0 .. EventCap
    BY <1>1, <1>2 DEF ExecAssumption
<1>4. InQueue(events, Head(events)) > 0
    BY <1>1, <1>2, SomeCopy
<1>5. \A x : InQueue(Tail(events), x) = InQueue(events, x) - (IF Head(events) = x THEN 1 ELSE 0)
    BY <1>1, CopiesTaken
<1>6. QED  BY <1>2, <1>3, <1>4, <1>5

LEMMA ExecInitHolds ==
    ASSUME ExecAssumption, ExecInit
    PROVE  ExecInv
<1>1. \A x : InQueue(<<>>, x) = 0
    BY NoCopy
<1>2. ExecShape
    <2>1. [wrote |-> 0, piped |-> 0, got |-> 0] \in Chunks
        BY DEF Chunks, ExecAssumption
    <2>2. output \in [Streams -> Chunks]
        BY <2>1 DEF ExecInit
    <2>3. Len(events) \in 0 .. EventCap /\ events \in Seq(Events)
        BY DEF ExecInit, ExecAssumption
    <2>4. QED  BY <2>2, <2>3 DEF ExecInit, ExecShape, ExecStages, ExecFlow
<1>3. ChunksCounted
    BY <1>1 DEF ExecInit, ChunksCounted, Underway
<1>4. QED  BY <1>1, <1>2, <1>3 DEF ExecInit, ExecInv, DrainedToEnd, WaitedInOrder, ExitReported, Streams

\* A step that leaves the streams and the channel alone leaves the counts alone.
LEMMA CountsUndisturbed ==
    ASSUME ChunksCounted, UNCHANGED <<output, events>>,
           \A s \in Streams : task'[s] = "send" <=> task[s] = "send",
           \A s \in Streams : task'[s] # "cut" => task[s] # "cut",
           ~alarm' => ~alarm,
           collector' \in {"collecting", "exited", "ok"} => collector \in {"collecting", "exited", "ok"}
    PROVE  ChunksCounted'
BY DEF ChunksCounted, Underway

\* The command and what it leaves behind.
LEMMA CommandWritesKeeps ==
    ASSUME ExecAssumption, ExecInv, NEW s \in Streams, CommandWrites(s)
    PROVE  ExecInv'
<1> USE DEF ExecInv
<1>0. /\ output[s] \in Chunks /\ output \in [Streams -> Chunks]
      /\ task \in [Streams -> {"read", "send", "done", "cut"}]
    BY ExecShaped
<1> DEFINE p == [output[s] EXCEPT !.wrote = @ + 1, !.piped = @ + 1]
           o == [output EXCEPT ![s].wrote = @ + 1, ![s].piped = @ + 1]
<1>1. /\ p.wrote = output[s].wrote + 1 /\ p.piped = output[s].piped + 1 /\ p.got = output[s].got
      /\ p \in Chunks
    BY <1>0 DEF Chunks, CommandWrites, ExecAssumption
<1>2. /\ o[s] = p /\ \A t \in Streams : t # s => o[t] = output[t]
      /\ o \in [Streams -> Chunks]
    BY <1>0, <1>1
<1>3. output' = o
    BY DEF CommandWrites
<1> HIDE DEF o, p
<1>4. ExecShape'
    <2>1. ExecStages'
        BY <1>2, <1>3, ZenonT(30) DEF ExecShape, ExecStages, CommandWrites
    <2>2. ExecFlow'
        BY <1>2, <1>3 DEF ExecShape, ExecFlow, CommandWrites
    <2>3. QED  BY <2>1, <2>2 DEF ExecShape
<1>5. ChunksCounted'
    <2> SUFFICES ASSUME NEW t \in Streams
        PROVE  (/\ output[t].got + Underway(t) <= output[t].wrote
                /\ (task[t] # "cut" /\ ~alarm /\ collector \in {"collecting", "exited", "ok"}) =>
                      output[t].got + Underway(t) = output[t].wrote)'
        BY DEF ChunksCounted
    <2>1. output[t] \in Chunks /\ InQueue(events, t) \in Nat
        BY ExecShaped
    <2>2. output[t].wrote \in Nat /\ output[t].piped \in Nat /\ output[t].got \in Nat
        BY <2>1 DEF Chunks, ExecAssumption
    <2>3. CASE t = s
        <3>1. /\ output'[t].got = output[t].got /\ output'[t].wrote = output[t].wrote + 1
              /\ output'[t].piped = output[t].piped + 1
            BY <1>1, <1>2, <1>3, <2>3
        <3>2. QED  BY <2>1, <2>2, <3>1 DEF ChunksCounted, Underway, CommandWrites
    <2>4. CASE t # s
        <3>1. output'[t] = output[t]
            BY <1>2, <1>3, <2>4
        <3>2. QED  BY <3>1 DEF ChunksCounted, Underway, CommandWrites
    <2>5. QED  BY <2>3, <2>4
<1>6. DrainedToEnd'
    BY <1>2, <1>3 DEF DrainedToEnd, WriteEndOpen, CommandWrites
<1>7. QED  BY <1>4, <1>5, <1>6 DEF CommandWrites, WaitedInOrder, ExitReported

LEMMA CommandEndsKeeps ==
    ASSUME ExecAssumption, ExecInv, CommandExits \/ KinExit \/ InputEnds
    PROVE  ExecInv'
<1> USE DEF ExecInv, CommandExits, KinExit, InputEnds
<1>1. ExecShape'
    <2>1. CASE CommandExits
        <3>1. ExecStages'
            BY <2>1, ZenonT(30) DEF ExecShape, ExecStages
        <3>2. ExecFlow'
            BY <2>1 DEF ExecShape, ExecFlow
        <3>3. QED  BY <3>1, <3>2 DEF ExecShape
    <2>2. CASE KinExit
        <3>1. ExecStages'
            BY <2>2, ZenonT(30) DEF ExecShape, ExecStages
        <3>2. ExecFlow'
            BY <2>2 DEF ExecShape, ExecFlow
        <3>3. QED  BY <3>1, <3>2 DEF ExecShape
    <2>3. CASE InputEnds
        <3>1. ExecStages'
            BY <2>3, ZenonT(30) DEF ExecShape, ExecStages
        <3>2. ExecFlow'
            BY <2>3 DEF ExecShape, ExecFlow
        <3>3. QED  BY <3>1, <3>2 DEF ExecShape
    <2>4. QED  BY <2>1, <2>2, <2>3
<1>2. ChunksCounted'
    BY CountsUndisturbed
<1>3. DrainedToEnd'
    BY DEF DrainedToEnd, WriteEndOpen
<1>4. QED  BY <1>1, <1>2, <1>3 DEF WaitedInOrder, ExitReported

\* The tasks of the outputs.
LEMMA OutputReadKeeps ==
    ASSUME ExecAssumption, ExecInv, NEW s \in Streams, OutputRead(s)
    PROVE  ExecInv'
<1> USE DEF ExecInv
<1>0. /\ output[s] \in Chunks /\ output \in [Streams -> Chunks]
      /\ task \in [Streams -> {"read", "send", "done", "cut"}]
    BY ExecShaped
<1>1. CASE output[s].piped > 0 /\ task' = [task EXCEPT ![s] = "send"]
               /\ output' = [output EXCEPT ![s].piped = @ - 1]
    <2> DEFINE p == [output[s] EXCEPT !.piped = @ - 1]
               o == [output EXCEPT ![s].piped = @ - 1]
    <2>1. /\ p.wrote = output[s].wrote /\ p.piped = output[s].piped - 1 /\ p.got = output[s].got
          /\ p \in Chunks
        BY <1>0, <1>1 DEF Chunks, ExecAssumption
    <2>2. /\ o[s] = p /\ \A t \in Streams : t # s => o[t] = output[t]
          /\ o \in [Streams -> Chunks]
        BY <1>0, <2>1
    <2>3. output' = o
        BY <1>1
    <2> HIDE DEF o, p
    <2>4. /\ task' \in [Streams -> {"read", "send", "done", "cut"}] /\ task'[s] = "send"
          /\ \A t \in Streams : t # s => task'[t] = task[t]
        BY <1>0, <1>1
    <2>5. ExecShape'
        <3>1. ExecStages'
            BY <2>2, <2>3, <2>4, ZenonT(30) DEF ExecShape, ExecStages, OutputRead
        <3>2. ExecFlow'
            BY <2>2, <2>3, <2>4 DEF ExecShape, ExecFlow, OutputRead
        <3>3. QED  BY <3>1, <3>2 DEF ExecShape
    <2>6. ChunksCounted'
        <3> SUFFICES ASSUME NEW t \in Streams
            PROVE  (/\ output[t].got + Underway(t) <= output[t].wrote
                    /\ (task[t] # "cut" /\ ~alarm /\ collector \in {"collecting", "exited", "ok"}) =>
                          output[t].got + Underway(t) = output[t].wrote)'
            BY DEF ChunksCounted
        <3>1. output[t] \in Chunks /\ InQueue(events, t) \in Nat
            BY ExecShaped
        <3>2. output[t].wrote \in Nat /\ output[t].piped \in Nat /\ output[t].got \in Nat
            BY <3>1 DEF Chunks, ExecAssumption
        <3>3. CASE t = s
            <4>1. /\ output'[t].got = output[t].got /\ output'[t].wrote = output[t].wrote
                  /\ output'[t].piped = output[t].piped - 1
                BY <2>1, <2>2, <2>3, <3>3
            <4>2. QED  BY <3>1, <3>2, <3>3, <4>1, <2>4 DEF ChunksCounted, Underway, OutputRead
        <3>4. CASE t # s
            <4>1. output'[t] = output[t]
                BY <2>2, <2>3, <3>4
            <4>2. QED  BY <4>1, <2>4, <3>4 DEF ChunksCounted, Underway, OutputRead
        <3>5. QED  BY <3>3, <3>4
    <2>7. DrainedToEnd'
        BY <2>2, <2>3, <2>4 DEF DrainedToEnd, WriteEndOpen, OutputRead
    <2>8. WaitedInOrder'
        BY <2>4 DEF WaitedInOrder, OutputRead, Streams
    <2>9. QED  BY <2>5, <2>6, <2>7, <2>8 DEF OutputRead, ExitReported
<1>2. CASE output[s].piped = 0 /\ ~WriteEndOpen /\ task' = [task EXCEPT ![s] = "done"]
               /\ UNCHANGED output
    <2>1. /\ task' \in [Streams -> {"read", "send", "done", "cut"}] /\ task'[s] = "done"
          /\ \A t \in Streams : t # s => task'[t] = task[t]
        BY <1>0, <1>2
    <2>2. ExecShape'
        <3>1. ExecStages'
            BY <1>2, <2>1, ZenonT(30) DEF ExecShape, ExecStages, OutputRead
        <3>2. ExecFlow'
            BY <1>2, <2>1 DEF ExecShape, ExecFlow, OutputRead
        <3>3. QED  BY <3>1, <3>2 DEF ExecShape
    <2>3. ChunksCounted'
        BY <1>2, <2>1, CountsUndisturbed DEF OutputRead
    <2>4. DrainedToEnd'
        BY <1>2, <2>1 DEF DrainedToEnd, WriteEndOpen, OutputRead
    <2>5. WaitedInOrder'
        BY <2>1 DEF WaitedInOrder, OutputRead, Streams
    <2>6. QED  BY <2>2, <2>3, <2>4, <2>5 DEF OutputRead, ExitReported
<1>3. QED  BY <1>1, <1>2 DEF OutputRead

LEMMA OutputSentKeeps ==
    ASSUME ExecAssumption, ExecInv, NEW s \in Streams, OutputSent(s)
    PROVE  ExecInv'
<1> USE DEF ExecInv
<1>1. /\ events' \in Seq(Events) /\ Len(events') \in 0 .. EventCap
      /\ \A x : InQueue(events', x) = InQueue(events, x) + (IF s = x THEN 1 ELSE 0)
    BY EventAdded DEF OutputSent, Events
<1>2. /\ task' \in [Streams -> {"read", "send", "done", "cut"}] /\ task'[s] = "read"
      /\ \A t \in Streams : t # s => task'[t] = task[t]
    BY DEF OutputSent, ExecShape, ExecStages, ExecFlow
<1>3. ExecShape'
    <2>1. ExecStages'
        BY <1>1, <1>2, ZenonT(30) DEF ExecShape, ExecStages, OutputSent
    <2>2. ExecFlow'
        BY <1>1, <1>2 DEF ExecShape, ExecFlow, OutputSent
    <2>3. QED  BY <2>1, <2>2 DEF ExecShape
<1>4. ChunksCounted'
    <2> SUFFICES ASSUME NEW t \in Streams PROVE output[t].got + Underway(t)' = output[t].got + Underway(t)
        BY <1>2 DEF ChunksCounted, OutputSent
    <2>1. output[t].piped \in Nat /\ output[t].got \in Nat /\ InQueue(events, t) \in Nat
        BY ExecShaped DEF Chunks, ExecAssumption
    <2>2. task[s] = "send" /\ output' = output
        BY DEF OutputSent
    <2>3. InQueue(events', t) = InQueue(events, t) + (IF s = t THEN 1 ELSE 0)
        BY <1>1
    <2>4. (IF task'[t] = "send" THEN 1 ELSE 0) + (IF s = t THEN 1 ELSE 0) = (IF task[t] = "send" THEN 1 ELSE 0)
        BY <2>2, <1>2
    <2>5. QED  BY <2>1, <2>2, <2>3, <2>4 DEF Underway
<1>5. DrainedToEnd' /\ WaitedInOrder'
    BY <1>2 DEF DrainedToEnd, WaitedInOrder, WriteEndOpen, OutputSent, Streams
<1>6. ExitReported'
    <2>1. collector # "ok" /\ "exit" # s
        BY DEF OutputSent, Listening, Streams
    <2>2. InQueue(events', "exit") = InQueue(events, "exit")
        BY <2>1, <1>1, ExecShaped
    <2>3. QED  BY <2>1, <2>2 DEF OutputSent, ExitReported
<1>7. QED  BY <1>3, <1>4, <1>5, <1>6

LEMMA OutputUnsentKeeps ==
    ASSUME ExecAssumption, ExecInv, NEW s \in Streams, OutputUnsent(s)
    PROVE  ExecInv'
<1> USE DEF ExecInv
<1>1. /\ task' \in [Streams -> {"read", "send", "done", "cut"}] /\ task'[s] = "done"
      /\ \A t \in Streams : t # s => task'[t] = task[t]
    BY DEF OutputUnsent, ExecShape, ExecStages, ExecFlow
<1>2. ExecShape'
    <2>1. ExecStages'
        BY <1>1, ZenonT(30) DEF ExecShape, ExecStages, OutputUnsent
    <2>2. ExecFlow'
        BY <1>1 DEF ExecShape, ExecFlow, OutputUnsent
    <2>3. QED  BY <2>1, <2>2 DEF ExecShape
<1>3. ChunksCounted'
    <2> SUFFICES ASSUME NEW t \in Streams PROVE output[t].got + Underway(t)' <= output[t].wrote
        BY DEF ChunksCounted, OutputUnsent
    <2>1. output[t] \in Chunks /\ InQueue(events, t) \in Nat
        BY ExecShaped
    <2>2. output[t].piped \in Nat /\ output[t].got \in Nat /\ output[t].wrote \in Nat
        BY <2>1 DEF Chunks, ExecAssumption
    <2>3. QED  BY <2>1, <2>2, <1>1 DEF Underway, OutputUnsent, ChunksCounted
<1>4. DrainedToEnd' /\ WaitedInOrder'
    BY <1>1 DEF DrainedToEnd, WaitedInOrder, WriteEndOpen, OutputUnsent, Streams
<1>5. QED  BY <1>2, <1>3, <1>4 DEF OutputUnsent, ExitReported

\* The waiter.
LEMMA WaitsKeeps ==
    ASSUME ExecAssumption, ExecInv, NEW why \in {"none", "stdin error", "deadline"}, Terminates(why)
    PROVE  ExecInv'
<1> USE DEF ExecInv, Terminates
<1>1. ExecShape'
    <2>1. ExecStages'
        BY ZenonT(30) DEF ExecShape, ExecStages
    <2>2. ExecFlow'
        BY DEF ExecShape, ExecFlow
    <2>3. QED  BY <2>1, <2>2 DEF ExecShape
<1>2. ChunksCounted'
    BY CountsUndisturbed
<1>3. DrainedToEnd'
    BY DEF DrainedToEnd, WriteEndOpen
<1>4. InQueue(events, "exit") \in Nat
    BY ExecShaped
<1>5. WaitedInOrder' /\ ExitReported'
    BY <1>4 DEF WaitedInOrder, ExitReported
<1>6. QED  BY <1>1, <1>2, <1>3, <1>5

LEMMA FinishesKeeps ==
    ASSUME ExecAssumption, ExecInv, Finishes
    PROVE  ExecInv'
<1> USE DEF ExecInv
<1>1. CASE StdinJoined
    <2> USE DEF StdinJoined
    <2>1. ExecShape'
        <3>1. ExecStages'
            BY <1>1, ZenonT(30) DEF ExecShape, ExecStages
        <3>2. ExecFlow'
            BY <1>1 DEF ExecShape, ExecFlow
        <3>3. QED  BY <3>1, <3>2 DEF ExecShape
    <2>2. ChunksCounted'
        BY <1>1, CountsUndisturbed
    <2>3. QED  BY <1>1, <2>1, <2>2 DEF DrainedToEnd, WriteEndOpen, WaitedInOrder, ExitReported
<1>2. ASSUME NEW s \in Streams, OutputJoined(s) PROVE ExecInv'
    <2>1. /\ task' \in [Streams -> {"read", "send", "done", "cut"}] /\ task'[s] \in {"done", "cut"}
          /\ \A t \in Streams : task'[t] = task[t] \/ (t = s /\ task'[t] = "cut")
        BY <1>2 DEF OutputJoined, ExecShape, ExecStages, ExecFlow
    <2>2. ExecShape'
        <3>1. ExecStages'
            BY <1>2, <2>1, ZenonT(30) DEF ExecShape, ExecStages, OutputJoined, AfterJoin
        <3>2. ExecFlow'
            BY <1>2, <2>1 DEF ExecShape, ExecFlow, OutputJoined, AfterJoin
        <3>3. QED  BY <3>1, <3>2 DEF ExecShape
    <2>3. ChunksCounted'
        <3> SUFFICES ASSUME NEW t \in Streams
            PROVE  /\ output[t].got + Underway(t)' <= output[t].wrote
                   /\ task'[t] # "cut" => (task[t] # "cut" /\ Underway(t)' = Underway(t))
            BY <1>2 DEF ChunksCounted, OutputJoined
        <3>1. output[t] \in Chunks /\ InQueue(events, t) \in Nat
            BY ExecShaped
        <3>2. output[t].piped \in Nat /\ output[t].got \in Nat /\ output[t].wrote \in Nat
            BY <3>1 DEF Chunks, ExecAssumption
        <3>3. QED  BY <3>1, <3>2, <2>1, <1>2 DEF Underway, OutputJoined, ChunksCounted
    <2>4. DrainedToEnd'
        BY <1>2, <2>1 DEF DrainedToEnd, WriteEndOpen, OutputJoined
    <2>5. WaitedInOrder'
        BY <1>2, <2>1 DEF WaitedInOrder, OutputJoined, AfterJoin, Streams
    <2>6. ExitReported'
        BY <1>2 DEF ExitReported, OutputJoined, AfterJoin, Streams
    <2>7. QED  BY <2>2, <2>3, <2>4, <2>5, <2>6
<1>3. CASE Reports
    <2> USE DEF Reports
    <2>1. CASE Room /\ Listening
               /\ events' = Append(events, IF verdict = "none" THEN "exit" ELSE "status")
        <3> DEFINE e == IF verdict = "none" THEN "exit" ELSE "status"
        <3>1. e \in Events /\ e \notin Streams
            BY DEF Events, Streams
        <3>2. /\ events' \in Seq(Events) /\ Len(events') \in 0 .. EventCap
              /\ \A x : InQueue(events', x) = InQueue(events, x) + (IF e = x THEN 1 ELSE 0)
            BY <2>1, <3>1, EventAdded
        <3>3. \A x : e # x => InQueue(events', x) = InQueue(events, x)
            BY <3>2, ExecShaped
        <3>4. ExecShape'
            <4>1. ExecStages'
                BY <1>3, <3>2, ZenonT(30) DEF ExecShape, ExecStages
            <4>2. ExecFlow'
                BY <1>3, <3>2 DEF ExecShape, ExecFlow
            <4>3. QED  BY <4>1, <4>2 DEF ExecShape
        <3>5. ChunksCounted'
            BY <1>3, <3>1, <3>3 DEF ChunksCounted, Underway
        <3>6. ExitReported'
            <4>1. verdict # "none" => InQueue(events', "exit") = InQueue(events, "exit")
                BY <3>3
            <4>2. QED  BY <1>3, <2>1, <4>1 DEF ExitReported, Listening
        <3>7. QED  BY <1>3, <3>4, <3>5, <3>6 DEF DrainedToEnd, WriteEndOpen, WaitedInOrder
    <2>2. CASE UNCHANGED events
        <3>1. ExecShape'
            <4>1. ExecStages'
                BY <1>3, <2>2, ZenonT(30) DEF ExecShape, ExecStages
            <4>2. ExecFlow'
                BY <1>3, <2>2 DEF ExecShape, ExecFlow
            <4>3. QED  BY <4>1, <4>2 DEF ExecShape
        <3>2. ChunksCounted'
            BY <1>3, <2>2, CountsUndisturbed
        <3>3. QED  BY <1>3, <2>2, <3>1, <3>2 DEF DrainedToEnd, WriteEndOpen, WaitedInOrder, ExitReported
    <2>3. QED  BY <1>3, <2>1, <2>2
<1>4. QED  BY <1>1, <1>2, <1>3 DEF Finishes

\* The client.
LEMMA CollectsKeeps ==
    ASSUME ExecAssumption, ExecInv, Collects
    PROVE  ExecInv'
<1> USE DEF ExecInv
<1> DEFINE event == Head(events)
<1>1. /\ event \in Events /\ InQueue(events, event) > 0
      /\ events' \in Seq(Events) /\ Len(events') \in 0 .. EventCap
      /\ \A x : InQueue(events', x) = InQueue(events, x) - (IF event = x THEN 1 ELSE 0)
    BY EventTaken DEF Collects
<1>2. /\ Listening /\ UNCHANGED <<proc, kin, task, input, alarm, waiter, verdict>>
      /\ IF event \in Streams /\ collector = "collecting"
         THEN output' = [output EXCEPT ![event].got = @ + 1]
         ELSE UNCHANGED output
      /\ collector' = IF collector = "exited" \/ event = "status" THEN "error"
                      ELSE IF event = "exit" THEN "exited" ELSE "collecting"
    BY DEF Collects
<1> HIDE DEF event
<1>3. \A x : InQueue(events, x) \in Nat /\ InQueue(events', x) <= InQueue(events, x)
    BY <1>1, ExecShaped
<1>4. CASE event \in Streams /\ collector = "collecting"
    <2> DEFINE p == [output[event] EXCEPT !.got = @ + 1]
               o == [output EXCEPT ![event].got = @ + 1]
    <2>0. output[event] \in Chunks /\ output \in [Streams -> Chunks]
        BY <1>4, ExecShaped
    <2>1. output[event].got + 1 \in 0 .. MaxOutput
        <3>1. /\ output[event].piped \in Nat /\ output[event].got \in Nat
              /\ output[event].wrote \in 0 .. MaxOutput
            BY <2>0 DEF Chunks, ExecAssumption
        <3>2. output[event].got + Underway(event) <= output[event].wrote
            BY <1>4 DEF ChunksCounted
        <3>3. InQueue(events, event) \in Nat /\ InQueue(events, event) > 0
            BY <1>1, <1>3
        <3>4. QED  BY <3>1, <3>2, <3>3 DEF Underway, ExecAssumption
    <2>2. /\ p.wrote = output[event].wrote /\ p.piped = output[event].piped
          /\ p.got = output[event].got + 1 /\ p \in Chunks
        BY <2>0, <2>1 DEF Chunks
    <2>3. /\ o[event] = p /\ \A t \in Streams : t # event => o[t] = output[t]
          /\ o \in [Streams -> Chunks]
        BY <2>0, <2>2, <1>4
    <2>4. output' = o
        BY <1>2, <1>4
    <2>5. collector' = "collecting"
        BY <1>2, <1>4 DEF Streams
    <2> HIDE DEF o, p
    <2>6. ExecShape'
        <3>1. ExecStages'
            BY <1>1, <1>2, <2>3, <2>4, <2>5, ZenonT(30) DEF ExecShape, ExecStages
        <3>2. ExecFlow'
            BY <1>1, <1>2, <2>3, <2>4, <2>5 DEF ExecShape, ExecFlow
        <3>3. QED  BY <3>1, <3>2 DEF ExecShape
    <2>7. ChunksCounted'
        <3> SUFFICES ASSUME NEW t \in Streams
            PROVE  output'[t].got + Underway(t)' = output[t].got + Underway(t) /\ output'[t].wrote = output[t].wrote
            BY <1>2, <1>4, <2>5 DEF ChunksCounted
        <3>1. output[t].piped \in Nat /\ output[t].got \in Nat
            BY ExecShaped DEF Chunks, ExecAssumption
        <3>2. CASE t = event
            <4>1. output'[t].got = output[t].got + 1 /\ output'[t].piped = output[t].piped /\ output'[t].wrote = output[t].wrote
                BY <2>2, <2>3, <2>4, <3>2
            <4>2. QED  BY <3>1, <3>2, <4>1, <1>1, <1>2, <1>3, SMTT(30) DEF Underway
        <3>3. CASE t # event
            <4>1. output'[t] = output[t]
                BY <2>3, <2>4, <3>3
            <4>2. QED  BY <3>1, <3>3, <4>1, <1>1, <1>2, <1>3 DEF Underway
        <3>4. QED  BY <3>2, <3>3
    <2>8. DrainedToEnd'
        BY <1>2, <2>2, <2>3, <2>4 DEF DrainedToEnd, WriteEndOpen
    <2>9. ExitReported'
        <3>1. InQueue(events', "exit") > 0 => InQueue(events, "exit") > 0
            BY <1>1, <1>3
        <3>2. QED  BY <3>1, <1>2, <2>5 DEF ExitReported
    <2>10. QED  BY <1>2, <2>6, <2>7, <2>8, <2>9 DEF WaitedInOrder
<1>5. CASE ~(event \in Streams /\ collector = "collecting")
    <2>1. UNCHANGED output
        BY <1>2, <1>5
    <2>2. collector' \in {"error", "exited", "collecting"}
        BY <1>2
    <2>3. ExecShape'
        <3>1. ExecStages'
            BY <1>1, <1>2, <2>1, <2>2, ZenonT(30) DEF ExecShape, ExecStages
        <3>2. ExecFlow'
            BY <1>1, <1>2, <2>1, <2>2 DEF ExecShape, ExecFlow
        <3>3. QED  BY <3>1, <3>2 DEF ExecShape
    <2>4. ChunksCounted'
        <3> SUFFICES ASSUME NEW t \in Streams
            PROVE  /\ Underway(t)' <= Underway(t)
                   /\ collector' \in {"collecting", "exited", "ok"} => Underway(t)' = Underway(t)
            <4>1. ASSUME NEW u \in Streams
                  PROVE  /\ Underway(u) \in Int /\ Underway(u)' \in Int
                         /\ output[u].got \in Int /\ output[u].wrote \in Int
                <5>1. output[u] \in Chunks
                    BY ExecShaped
                <5>2. output[u].piped \in Nat /\ output[u].got \in Nat /\ output[u].wrote \in Nat
                    BY <5>1 DEF Chunks, ExecAssumption
                <5>3. InQueue(events, u) \in Int /\ InQueue(events', u) \in Int
                    BY <1>1, <1>3
                <5>4. QED  BY <5>2, <5>3, <1>2, <2>1 DEF Underway
            <4>2. collector \in {"collecting", "exited"}
                BY <1>2 DEF Listening
            <4>3. QED  BY <1>2, <2>1, <4>1, <4>2 DEF ChunksCounted
        <3>1. output[t].piped \in Nat
            BY ExecShaped DEF Chunks, ExecAssumption
        <3>2. InQueue(events, t) \in Nat /\ InQueue(events', t) = InQueue(events, t) - (IF event = t THEN 1 ELSE 0)
            BY <1>1, <1>3
        <3>3. collector' \in {"collecting", "exited", "ok"} => event \notin Streams
            BY <1>1, <1>2, <1>5 DEF Events, Listening
        <3>4. QED  BY <3>1, <3>2, <3>3, <1>2, <2>1 DEF Underway
    <2>5. DrainedToEnd'
        BY <1>2, <2>1 DEF DrainedToEnd, WriteEndOpen
    <2>6. ExitReported'
        <3>1. InQueue(events', "exit") > 0 => InQueue(events, "exit") > 0
            BY <1>1, <1>3
        <3>2. collector' = "exited" => event = "exit"
            BY <1>2
        <3>3. collector' = "exited" => InQueue(events, "exit") > 0
            BY <3>2, <1>1
        <3>4. QED  BY <3>1, <3>3, <1>2, <2>2 DEF ExitReported
    <2>7. QED  BY <1>2, <2>3, <2>4, <2>5, <2>6 DEF WaitedInOrder
<1>6. QED  BY <1>4, <1>5

LEMMA CollectorStops ==
    ASSUME ExecAssumption, ExecInv, StreamEnds \/ CollectorLeaves
    PROVE  ExecInv'
<1> USE DEF ExecInv, StreamEnds, CollectorLeaves, Listening
<1>1. ExecShape'
    <2>1. ExecStages'
        BY ZenonT(30) DEF ExecShape, ExecStages
    <2>2. ExecFlow'
        BY DEF ExecShape, ExecFlow
    <2>3. QED  BY <2>1, <2>2 DEF ExecShape
<1>2. ChunksCounted'
    BY CountsUndisturbed
<1>3. ExitReported'
    BY DEF ExitReported
<1>4. QED  BY <1>1, <1>2, <1>3 DEF DrainedToEnd, WriteEndOpen, WaitedInOrder

LEMMA ExecNextKeeps ==
    ASSUME ExecAssumption, ExecInv, [ExecNext]_execVars
    PROVE  ExecInv'
<1>1. CASE UNCHANGED execVars
    <2>1. ExecShape'
        <3>1. ExecStages'
            BY <1>1, ZenonT(30) DEF ExecShape, ExecStages, execVars, ExecInv
        <3>2. ExecFlow'
            BY <1>1 DEF ExecShape, ExecFlow, execVars, ExecInv
        <3>3. QED  BY <3>1, <3>2 DEF ExecShape
    <2>2. ChunksCounted'
        BY <1>1, CountsUndisturbed DEF execVars, ExecInv
    <2>3. QED
        BY <1>1, <2>1, <2>2 DEF execVars, ExecInv, DrainedToEnd, WriteEndOpen, WaitedInOrder, ExitReported
<1>2. CASE Waits
    BY <1>2, WaitsKeeps DEF Waits, ChildWaited, ReceiverClosed, OutputAlarm, InputFailed, Deadline
<1>3. QED
    BY <1>1, <1>2, CommandEndsKeeps, CommandWritesKeeps, OutputReadKeeps, OutputSentKeeps,
       OutputUnsentKeeps, FinishesKeeps, CollectsKeeps, CollectorStops DEF ExecNext

\* A result that a client of "pbox exec" collects is the whole result.
LEMMA ExecTold == ASSUME ExecAssumption, ExecInv PROVE ExecComplete /\ ExecTypeOK
<1>1. ASSUME collector = "ok", NEW s \in Streams, task[s] # "cut", ~alarm
      PROVE  output[s].got = output[s].wrote
    <2>1. events = <<>> /\ task[s] = "done" /\ InQueue(events, s) = 0
        <3>1. events = <<>> /\ waiter = "over"
            BY <1>1 DEF ExecInv, ExitReported
        <3>2. QED  BY <1>1, <3>1, NoCopy DEF ExecInv, WaitedInOrder, Streams
    <2>2. output[s].piped = 0
        BY <1>1, <2>1 DEF ExecInv, DrainedToEnd
    <2>3. output[s].got \in Nat
        BY ExecShaped DEF Chunks, ExecAssumption, ExecInv
    <2>4. QED  BY <1>1, <2>1, <2>2, <2>3 DEF ExecInv, ChunksCounted, Underway
<1>2. collector = "ok" => (waiter = "over" /\ verdict = "none")
    BY DEF ExecInv, ExitReported
<1>3. ExecComplete
    BY <1>1, <1>2 DEF ExecInv, WaitedInOrder, ExecComplete
<1>4. Len(events) <= EventCap
    <2>1. Len(events) \in 0 .. EventCap
        BY DEF ExecInv, ExecShape, ExecStages, ExecFlow
    <2>2. QED  BY <2>1 DEF ExecAssumption
<1>5. QED  BY <1>3, <1>4 DEF ExecInv, ExecShape, ExecStages, ExecFlow, ExecTypeOK, Chunks, Events

\* However much a command writes and whatever capacity the pipes and the channel have:
\* every chunk of its output is in the pipe, with the task that reads it, in the channel
\* or collected, unless its task was cut or the client has gone, and its status comes
\* after both outputs (run_piped_command, collect_exec_stream).
THEOREM ExecInvariant == ASSUME ExecAssumption PROVE ExecSpec => []ExecInv
<1>1. ExecInit => ExecInv
    BY ExecInitHolds
<1>2. ExecInv /\ [ExecNext]_execVars => ExecInv'
    BY ExecNextKeeps
<1>3. QED  BY <1>1, <1>2, PTL DEF ExecSpec

-----------------------------------------------------------------------------
(***************************************************************************)
(* Forwarded connections.                                                  *)
(***************************************************************************)
AppStates == [wrote : 0 .. MaxChunks, read : 0 .. MaxChunks, shut : BOOLEAN,
              gone : BOOLEAN, given : 0 .. MaxChunks, got : 0 .. MaxChunks,
              end : BOOLEAN]
LoopStates == [at : {"select", "send", "write", "closing", "ok", "failed"},
               item : {"none", "data", Half, Full, Failed},
               readClosed : BOOLEAN, writeClosed : BOOLEAN]
Items == {"data", Half, Full, Failed}

ForwardShape ==
    /\ app \in [Ends -> AppStates] /\ loop \in [Ends -> LoopStates]
    /\ pipe \in [Ends -> Seq(Items)]
    /\ \A e \in Ends : Len(pipe[e]) <= ChannelCap

Turning(l) == l.at \in {"select", "send", "write"}
LoopOver(l) == l.at \in {"ok", "failed"}

\* What the state of an application says fits that of the loop next to it.
Suits(a, l) ==
    /\ a.read <= a.wrote
    /\ l.readClosed => (a.shut /\ a.read = a.wrote)
    /\ a.end <=> (l.writeClosed \/ LoopOver(l))
    /\ l.at = "send" => (~l.readClosed /\ l.item \in {"data", Half})
    /\ (l.at = "send" /\ l.item = Half) => (a.shut /\ a.read = a.wrote)
    /\ l.at \in {"select", "write"} => l.item = "none"
    /\ l.at = "write" => ~l.writeClosed
    /\ l.at = "closing" => l.item \in {Full, Failed}
    /\ ((l.at = "closing" /\ l.item = Full) \/ l.at = "ok") => (l.readClosed /\ l.writeClosed)

\* Chunks that loop l has taken and loop m has not yet given away.
Carried(l, q, m) ==
    (IF l.at = "send" /\ l.item = "data" THEN 1 ELSE 0) + InQueue(q, "data")
    + (IF m.at = "write" THEN 1 ELSE 0)

\* The end of the input has been passed on: it is among the first n events, or
\* the receiver has taken it, or takes nothing any more.
EndPassed(q, n, m) == m.writeClosed \/ ~Turning(m) \/ \E i \in 1 .. Len(q) : i < n /\ q[i] = Half

HalfLast(l, q) ==
    \A i \in 1 .. Len(q) : q[i] = Half =>
        (l.readClosed /\ \A j \in 1 .. Len(q) : j > i => q[j] # "data")

\* From application a and loop l, by queue q, to loop m and application b: no
\* chunk is invented, none is lost before the end of the input, which comes last.
Passed(a, l, q, m, b) ==
    /\ b.given + Carried(l, q, m) <= a.read
    /\ (Turning(m) /\ (l.readClosed \/ ~LoopOver(l))) => b.given + Carried(l, q, m) = a.read
    /\ m.writeClosed => (a.shut /\ b.given = a.wrote)
    /\ HalfLast(l, q)
    /\ \A j \in 1 .. Len(q) : q[j] = Full => EndPassed(q, j, m)
    /\ l.readClosed => EndPassed(q, Len(q) + 1, m)

ForwardInv ==
    /\ ForwardShape
    /\ \A e \in Ends : Suits(app[e], loop[e])
    /\ \A e \in Ends : Passed(app[e], loop[e], pipe[e], loop[Other(e)], app[Other(e)])

LEMMA EndsOther ==
    ASSUME NEW e \in Ends
    PROVE  Other(e) \in Ends /\ Other(e) # e /\ Other(Other(e)) = e /\ Ends = {e, Other(e)}
BY DEF Ends, Other

LEMMA AppFields ==
    ASSUME NEW a \in AppStates, ForwardAssumption
    PROVE  /\ a.wrote \in Nat /\ a.read \in Nat /\ a.given \in Nat
           /\ a.wrote <= MaxChunks /\ a.read <= MaxChunks /\ a.given <= MaxChunks
           /\ a.shut \in BOOLEAN /\ a.end \in BOOLEAN
BY DEF AppStates, ForwardAssumption

\* A step of end e: its own part, what it sends, and what it is sent.
LEMMA StepOfEnd ==
    ASSUME ForwardInv, NEW e \in Ends,
           app' \in [Ends -> AppStates], loop' \in [Ends -> LoopStates],
           app'[Other(e)] = app[Other(e)], loop'[Other(e)] = loop[Other(e)],
           pipe' \in [Ends -> Seq(Items)],
           \A d \in Ends : Len(pipe'[d]) <= ChannelCap,
           Suits(app'[e], loop'[e]),
           Passed(app'[e], loop'[e], pipe'[e], loop[Other(e)], app[Other(e)]),
           Passed(app[Other(e)], loop[Other(e)], pipe'[Other(e)], loop'[e], app'[e])
    PROVE  ForwardInv'
<1> DEFINE o == Other(e)
<1>1. o \in Ends /\ o # e /\ Other(o) = e /\ Ends = {e, o}
    BY EndsOther
<1> HIDE DEF o
<1>2. \A d \in Ends : Suits(app'[d], loop'[d])
    BY <1>1 DEF ForwardInv, o
<1>3. Passed(app'[e], loop'[e], pipe'[e], loop'[o], app'[o])
    BY DEF o
<1>4. Passed(app'[o], loop'[o], pipe'[o], loop'[Other(o)], app'[Other(o)])
    BY <1>1 DEF o
<1>5. \A d \in Ends : Passed(app'[d], loop'[d], pipe'[d], loop'[Other(d)], app'[Other(d)])
    BY <1>1, <1>3, <1>4 DEF o
<1>6. QED  BY <1>2, <1>5 DEF ForwardInv, ForwardShape

LEMMA TailPlaces ==
    ASSUME NEW S, NEW q \in Seq(S), q # <<>>
    PROVE  /\ Tail(q) \in Seq(S) /\ Len(q) \in Nat /\ Len(q) > 0 /\ Len(Tail(q)) = Len(q) - 1
           /\ Head(q) = q[1] /\ Head(q) \in S
           /\ \A i \in 1 .. Len(q) - 1 : Tail(q)[i] = q[i + 1]
OBVIOUS

LEMMA AppendedPlaces ==
    ASSUME NEW S, NEW q \in Seq(S), NEW x \in S
    PROVE  /\ Append(q, x) \in Seq(S) /\ Len(q) \in Nat /\ Len(Append(q, x)) = Len(q) + 1
           /\ Append(q, x)[Len(q) + 1] = x
           /\ \A i \in 1 .. Len(q) : Append(q, x)[i] = q[i]
OBVIOUS

LEMMA TailOrdered ==
    ASSUME NEW l, NEW q \in Seq(Items), q # <<>>, HalfLast(l, q)
    PROVE  /\ HalfLast(l, Tail(q)) /\ Tail(q) \in Seq(Items)
           /\ Head(q) = Half => \A j \in 1 .. Len(Tail(q)) : Tail(q)[j] # "data"
<1>1. /\ Tail(q) \in Seq(Items) /\ Len(q) \in Nat /\ Len(q) > 0 /\ Len(Tail(q)) = Len(q) - 1
      /\ Head(q) = q[1]
    BY TailPlaces
<1>2. \A i \in 1 .. Len(Tail(q)) : Tail(q)[i] = q[i + 1] /\ i + 1 \in 1 .. Len(q) /\ i + 1 > 1
    BY <1>1, TailPlaces
<1>3. HalfLast(l, Tail(q))
    <2> SUFFICES ASSUME NEW i \in 1 .. Len(Tail(q)), Tail(q)[i] = Half
        PROVE  l.readClosed /\ \A j \in 1 .. Len(Tail(q)) : j > i => Tail(q)[j] # "data"
        BY DEF HalfLast
    <2>1. q[i + 1] = Half /\ i + 1 \in 1 .. Len(q)
        BY <1>2
    <2>2. l.readClosed /\ \A j \in 1 .. Len(q) : j > i + 1 => q[j] # "data"
        BY <2>1 DEF HalfLast
    <2>3. ASSUME NEW j \in 1 .. Len(Tail(q)), j > i PROVE Tail(q)[j] # "data"
        BY <1>1, <1>2, <2>2, <2>3
    <2>4. QED  BY <2>2, <2>3
<1>4. ASSUME Head(q) = Half, NEW j \in 1 .. Len(Tail(q)) PROVE Tail(q)[j] # "data"
    <2>1. 1 \in 1 .. Len(q) /\ q[1] = Half
        BY <1>1, <1>4
    <2>2. \A k \in 1 .. Len(q) : k > 1 => q[k] # "data"
        BY <2>1 DEF HalfLast
    <2>3. QED  BY <1>2, <2>2
<1>5. QED  BY <1>1, <1>3, <1>4

\* A loop that does not turn any more takes and gives no more.
LEMMA LeavesKeeps ==
    ASSUME NEW a \in AppStates, NEW b \in AppStates, NEW l \in LoopStates, NEW m \in LoopStates,
           NEW q \in Seq(Items), NEW r \in Seq(Items), ForwardAssumption,
           Suits(a, l), Passed(a, l, q, m, b), Passed(b, m, r, l, a),
           NEW s, s = r \/ (r # <<>> /\ s = Tail(r)),
           NEW c \in AppStates, NEW k \in LoopStates,
           c.wrote = a.wrote, c.read = a.read, c.shut = a.shut, c.given = a.given,
           c.end <=> (a.end \/ LoopOver(k)),
           k.readClosed = l.readClosed, k.writeClosed = l.writeClosed,
           k.at \in {"closing", "ok", "failed"},
           k.at = "closing" => l.at \in {"select", "write"},
           k.at = "closing" => k.item \in {Full, Failed},
           ((k.at = "closing" /\ k.item = Full) \/ k.at = "ok") => (l.readClosed /\ l.writeClosed)
    PROVE  Suits(c, k) /\ Passed(c, k, q, m, b) /\ Passed(b, m, s, k, c)
<1>1. Suits(c, k)
    BY DEF Suits, LoopStates, LoopOver
<1>2. InQueue(q, "data") \in Nat /\ InQueue(r, "data") \in Nat
    BY SpotsFinite
<1>3. a.read \in Nat /\ b.given \in Nat /\ a.given \in Nat /\ b.read \in Nat
    BY AppFields
<1>4. k.at # "send" /\ k.at # "write"
    OBVIOUS
<1>5. /\ Carried(k, q, m) \in Nat /\ Carried(l, q, m) \in Nat /\ Carried(k, q, m) <= Carried(l, q, m)
      /\ l.at # "send" => Carried(k, q, m) = Carried(l, q, m)
    BY <1>2, <1>4 DEF Carried
<1>6. (k.readClosed \/ ~LoopOver(k)) => (l.readClosed \/ ~LoopOver(l)) /\ l.at # "send"
    BY DEF Suits, LoopOver
<1>7. /\ b.given + Carried(k, q, m) <= c.read
      /\ (Turning(m) /\ (k.readClosed \/ ~LoopOver(k))) => b.given + Carried(k, q, m) = c.read
    BY <1>3, <1>5, <1>6 DEF Passed
<1>8. Passed(c, k, q, m, b)
    BY <1>7 DEF Passed, HalfLast
<1>9. InQueue(s, "data") \in Nat /\ InQueue(s, "data") <= InQueue(r, "data") /\ HalfLast(m, s)
    <2>1. HalfLast(m, r)
        BY DEF Passed
    <2>2. CASE s = r
        BY <1>2, <2>1, <2>2
    <2>3. CASE r # <<>> /\ s = Tail(r)
        <3>1. HalfLast(m, s) /\ s \in Seq(Items)
            BY <2>1, <2>3, TailOrdered
        <3>2. InQueue(s, "data") \in Nat
            BY <3>1, SpotsFinite
        <3>3. InQueue(s, "data") <= InQueue(r, "data")
            BY <1>2, <2>3, CopiesTaken
        <3>4. QED  BY <3>1, <3>2, <3>3
    <2>4. QED  BY <2>2, <2>3
<1>10. Carried(m, s, k) \in Nat /\ Carried(m, r, l) \in Nat /\ Carried(m, s, k) <= Carried(m, r, l)
    BY <1>2, <1>4, <1>9 DEF Carried
<1>11. c.given + Carried(m, s, k) <= b.read
    BY <1>3, <1>10 DEF Passed
<1>12. ~Turning(k) /\ \A n : EndPassed(s, n, k)
    BY DEF Turning, EndPassed
<1>13. Passed(b, m, s, k, c)
    BY <1>9, <1>11, <1>12 DEF Passed
<1>14. QED  BY <1>1, <1>8, <1>13

LEMMA EndFacts ==
    ASSUME ForwardInv, ForwardAssumption, NEW e \in Ends
    PROVE  /\ Other(e) \in Ends /\ Other(e) # e
           /\ app \in [Ends -> AppStates] /\ loop \in [Ends -> LoopStates] /\ pipe \in [Ends -> Seq(Items)]
           /\ app[e] \in AppStates /\ app[Other(e)] \in AppStates
           /\ loop[e] \in LoopStates /\ loop[Other(e)] \in LoopStates
           /\ pipe[e] \in Seq(Items) /\ pipe[Other(e)] \in Seq(Items)
           /\ \A d \in Ends : Len(pipe[d]) <= ChannelCap
           /\ Suits(app[e], loop[e])
           /\ Passed(app[e], loop[e], pipe[e], loop[Other(e)], app[Other(e)])
           /\ Passed(app[Other(e)], loop[Other(e)], pipe[Other(e)], loop[e], app[e])
<1>1. Other(e) \in Ends /\ Other(e) # e /\ Other(Other(e)) = e
    BY EndsOther
<1>2. Passed(app[Other(e)], loop[Other(e)], pipe[Other(e)], loop[Other(Other(e))], app[Other(Other(e))])
    BY <1>1 DEF ForwardInv
<1>3. QED  BY <1>1, <1>2 DEF ForwardInv, ForwardShape

\* The application writes, shuts its side down, reads, or resets.
LEMMA ApplicationKeeps ==
    ASSUME ForwardInv, ForwardAssumption, NEW e \in Ends,
           Writes(e) \/ ShutsDown(e) \/ Reads(e) \/ Resets(e)
    PROVE  ForwardInv'
<1> DEFINE o == Other(e)
<1>1. PICK c \in AppStates :
          /\ app' = [app EXCEPT ![e] = c]
          /\ c.read = app[e].read /\ c.given = app[e].given /\ c.end = app[e].end
          /\ \/ c.wrote = app[e].wrote /\ (app[e].shut => c.shut)
             \/ ~app[e].shut /\ ~c.shut /\ c.wrote = app[e].wrote + 1
    <2> app[e] \in AppStates /\ app \in [Ends -> AppStates]
        BY EndFacts
    <2>1. CASE Writes(e)
        <3> DEFINE c == [app[e] EXCEPT !.wrote = @ + 1]
        <3>1. c \in AppStates /\ c.wrote = app[e].wrote + 1 /\ c.shut = app[e].shut
              /\ c.read = app[e].read /\ c.given = app[e].given /\ c.end = app[e].end
            BY <2>1 DEF Writes, AppStates, ForwardAssumption
        <3>2. app' = [app EXCEPT ![e] = c]
            BY <2>1 DEF Writes
        <3>3. QED  BY <3>1, <3>2, <2>1 DEF Writes
    <2>2. CASE ShutsDown(e)
        <3> DEFINE c == [app[e] EXCEPT !.shut = TRUE]
        <3>1. c \in AppStates /\ c.wrote = app[e].wrote /\ c.shut
              /\ c.read = app[e].read /\ c.given = app[e].given /\ c.end = app[e].end
            BY DEF AppStates
        <3>2. app' = [app EXCEPT ![e] = c]
            BY <2>2 DEF ShutsDown
        <3>3. QED  BY <3>1, <3>2
    <2>3. CASE Reads(e)
        <3> DEFINE c == [app[e] EXCEPT !.got = @ + 1]
        <3>1. c \in AppStates /\ c.wrote = app[e].wrote /\ c.shut = app[e].shut
              /\ c.read = app[e].read /\ c.given = app[e].given /\ c.end = app[e].end
            BY <2>3 DEF Reads, AppStates, ForwardAssumption
        <3>2. app' = [app EXCEPT ![e] = c]
            BY <2>3 DEF Reads
        <3>3. QED  BY <3>1, <3>2
    <2>4. CASE Resets(e)
        <3> DEFINE c == [app[e] EXCEPT !.gone = TRUE]
        <3>1. c \in AppStates /\ c.wrote = app[e].wrote /\ c.shut = app[e].shut
              /\ c.read = app[e].read /\ c.given = app[e].given /\ c.end = app[e].end
            BY DEF AppStates
        <3>2. app' = [app EXCEPT ![e] = c]
            BY <2>4 DEF Resets
        <3>3. QED  BY <3>1, <3>2
    <2>5. QED  BY <2>1, <2>2, <2>3, <2>4
<1>2. app'[e] = c /\ app'[o] = app[o] /\ app' \in [Ends -> AppStates] /\ loop' = loop /\ pipe' = pipe
    BY <1>1, EndFacts DEF Writes, ShutsDown, Reads, Resets
<1>3. Suits(c, loop[e])
    <2>1. app[e].read \in Nat /\ app[e].wrote \in Nat
        BY AppFields, EndFacts
    <2>2. Suits(app[e], loop[e])
        BY EndFacts
    <2>3. QED  BY <1>1, <2>1, <2>2 DEF Suits, LoopOver
<1>4. Passed(c, loop[e], pipe[e], loop[o], app[o])
    BY <1>1, EndFacts DEF Passed
<1>5. Passed(app[o], loop[o], pipe[o], loop[e], c)
    BY <1>1, EndFacts DEF Passed
<1>6. QED  BY <1>2, <1>3, <1>4, <1>5, StepOfEnd, EndFacts

\* What an end that leaves may do to the channels: nothing, send a last event,
\* or take the one that makes it leave.
PipesFit(e) ==
    /\ pipe' \in [Ends -> Seq(Items)] /\ \A d \in Ends : Len(pipe'[d]) <= ChannelCap
    /\ Passed(app[e], loop[e], pipe'[e], loop[Other(e)], app[Other(e)])
    /\ \/ pipe'[Other(e)] = pipe[Other(e)]
       \/ pipe[Other(e)] # <<>> /\ pipe'[Other(e)] = Tail(pipe[Other(e)])

LEMMA PipesLeft ==
    ASSUME ForwardInv, ForwardAssumption, NEW e \in Ends, UNCHANGED pipe
    PROVE  PipesFit(e)
BY EndFacts DEF PipesFit

\* The loop returns, or leaves for its last Close.
LEMMA ForwardStopsKeeps ==
    ASSUME ForwardInv, ForwardAssumption, NEW e \in Ends, NEW how \in {"ok", "failed"}, Stops(e, how),
           PipesFit(e),
           how = "ok" => (loop[e].readClosed /\ loop[e].writeClosed)
    PROVE  ForwardInv'
<1> DEFINE o == Other(e)
           k == [loop[e] EXCEPT !.at = how, !.item = "none"]
           c == [app[e] EXCEPT !.end = TRUE]
<1>1. /\ k \in LoopStates /\ k.at = how
      /\ k.readClosed = loop[e].readClosed /\ k.writeClosed = loop[e].writeClosed
    BY EndFacts DEF LoopStates
<1>2. /\ c \in AppStates /\ c.wrote = app[e].wrote /\ c.read = app[e].read /\ c.shut = app[e].shut
      /\ c.given = app[e].given /\ c.end
    <2>1. app[e] \in AppStates
        BY EndFacts
    <2>2. QED  BY <2>1 DEF AppStates
<1>3. loop' = [loop EXCEPT ![e] = k] /\ app' = [app EXCEPT ![e] = c]
    BY DEF Stops
<1> HIDE DEF k, c
<1>4. /\ app'[e] = c /\ app'[o] = app[o] /\ app' \in [Ends -> AppStates]
      /\ loop'[e] = k /\ loop'[o] = loop[o] /\ loop' \in [Ends -> LoopStates]
    BY <1>1, <1>2, <1>3, EndFacts
<1>5. /\ pipe'[e] \in Seq(Items) /\ Passed(app[e], loop[e], pipe'[e], loop[o], app[o])
      /\ pipe'[o] = pipe[o] \/ (pipe[o] # <<>> /\ pipe'[o] = Tail(pipe[o]))
    BY EndFacts DEF PipesFit
<1>6. Suits(c, k) /\ Passed(c, k, pipe'[e], loop[o], app[o]) /\ Passed(app[o], loop[o], pipe'[o], k, c)
    <2>1. /\ k.at \in {"closing", "ok", "failed"} /\ (c.end <=> (app[e].end \/ LoopOver(k)))
          /\ k.at = "closing" => loop[e].at \in {"select", "write"}
          /\ k.at = "closing" => k.item \in {Full, Failed}
          /\ ((k.at = "closing" /\ k.item = Full) \/ k.at = "ok") =>
                 (loop[e].readClosed /\ loop[e].writeClosed)
        BY <1>1, <1>2 DEF LoopOver
    <2>2. /\ app[e] \in AppStates /\ app[o] \in AppStates /\ loop[e] \in LoopStates /\ loop[o] \in LoopStates
          /\ pipe[o] \in Seq(Items) /\ Suits(app[e], loop[e])
          /\ Passed(app[o], loop[o], pipe[o], loop[e], app[e])
        BY EndFacts
    <2>3. QED  BY <1>1, <1>2, <1>5, <2>1, <2>2, LeavesKeeps
<1>7. QED  BY <1>4, <1>6, StepOfEnd DEF PipesFit

LEMMA BreaksKeeps ==
    ASSUME ForwardInv, ForwardAssumption, NEW e \in Ends, Breaks(e, Failed), PipesFit(e),
           loop[e].at \in {"select", "write"}
    PROVE  ForwardInv'
<1>1. CASE e = "target"
    <2> DEFINE o == Other(e)
               k == [loop[e] EXCEPT !.at = "closing", !.item = Failed]
    <2>1. /\ k \in LoopStates /\ k.at = "closing" /\ k.item = Failed /\ Failed # Full
          /\ k.readClosed = loop[e].readClosed /\ k.writeClosed = loop[e].writeClosed
        BY EndFacts DEF LoopStates, Failed, Full
    <2>2. loop' = [loop EXCEPT ![e] = k] /\ app' = app
        BY <1>1 DEF Breaks
    <2> HIDE DEF k
    <2>3. loop'[e] = k /\ loop'[o] = loop[o] /\ loop' \in [Ends -> LoopStates]
        BY <2>1, <2>2, EndFacts
    <2>4. /\ pipe'[e] \in Seq(Items) /\ Passed(app[e], loop[e], pipe'[e], loop[o], app[o])
          /\ pipe'[o] = pipe[o] \/ (pipe[o] # <<>> /\ pipe'[o] = Tail(pipe[o]))
        BY EndFacts DEF PipesFit
    <2>5. /\ Suits(app[e], k) /\ Passed(app[e], k, pipe'[e], loop[o], app[o])
          /\ Passed(app[o], loop[o], pipe'[o], k, app[e])
        BY <2>1, <2>4, EndFacts, AppFields, LeavesKeeps DEF LoopOver
    <2>6. app' \in [Ends -> AppStates] /\ app'[e] = app[e] /\ app'[o] = app[o]
        BY <2>2, EndFacts
    <2>7. /\ Suits(app'[e], loop'[e]) /\ Passed(app'[e], loop'[e], pipe'[e], loop[o], app[o])
          /\ Passed(app[o], loop[o], pipe'[o], loop'[e], app'[e])
        BY <2>3, <2>5, <2>6
    <2>8. QED  BY <2>3, <2>6, <2>7, StepOfEnd DEF PipesFit
<1>2. CASE e # "target"
    BY <1>2, ForwardStopsKeeps DEF Breaks
<1>3. QED  BY <1>1, <1>2

\* The ways out that take no event and send none.
LEMMA GivesUpKeeps ==
    ASSUME ForwardInv, ForwardAssumption, NEW e \in Ends,
           InputFails(e) \/ SendFails(e) \/ PeerEnded(e) \/ WriteFails(e)
    PROVE  ForwardInv'
<1>1. UNCHANGED pipe
    BY DEF InputFails, SendFails, PeerEnded, WriteFails
<1>2. PipesFit(e)
    BY <1>1, PipesLeft
<1>3. CASE SendFails(e)
    BY <1>2, <1>3, ForwardStopsKeeps DEF SendFails
<1>4. CASE InputFails(e) \/ PeerEnded(e) \/ WriteFails(e)
    <2>1. Breaks(e, Failed) /\ loop[e].at \in {"select", "write"}
        BY <1>4 DEF InputFails, PeerEnded, WriteFails, At
    <2>2. QED  BY <1>2, <2>1, BreaksKeeps
<1>5. QED  BY <1>3, <1>4

LEMMA TimedOutKeeps ==
    ASSUME ForwardInv, ForwardAssumption, AgentIdles \/ ClientKilled
    PROVE  ForwardInv'
<1>1. UNCHANGED pipe /\ "target" \in Ends /\ "local" \in Ends
    BY DEF AgentIdles, ClientKilled, Ends
<1>2. PipesFit("target") /\ PipesFit("local")
    BY <1>1, PipesLeft
<1>3. CASE AgentIdles
    BY <1>1, <1>2, <1>3, BreaksKeeps DEF AgentIdles, At
<1>4. CASE ClientKilled
    BY <1>1, <1>2, <1>4, ForwardStopsKeeps DEF ClientKilled
<1>5. QED  BY <1>3, <1>4

\* The loop takes input from its application.
LEMMA TakesInputKeeps ==
    ASSUME ForwardInv, ForwardAssumption, NEW e \in Ends, TakesInput(e)
    PROVE  ForwardInv'
<1> DEFINE o == Other(e)
           a == app[e]
           l == loop[e]
<1>0. /\ a.read \in Nat /\ a.wrote \in Nat /\ a.wrote <= MaxChunks /\ app[o].given \in Nat
      /\ InQueue(pipe[e], "data") \in Nat /\ a \in AppStates /\ l \in LoopStates
    BY EndFacts, AppFields, SpotsFinite
<1>1. l.at = "select" /\ ~l.readClosed /\ l.item = "none"
    BY EndFacts DEF TakesInput, At, Suits, LoopOver
<1>2. ASSUME NEW c \in AppStates, NEW k \in LoopStates,
             app' = [app EXCEPT ![e] = c], loop' = [loop EXCEPT ![e] = k],
             k.at = "send", k.readClosed = l.readClosed, k.writeClosed = l.writeClosed,
             c.shut = a.shut, c.wrote = a.wrote, c.given = a.given, c.end = a.end,
             \/ k.item = "data" /\ c.read = a.read + 1 /\ a.read < a.wrote
             \/ k.item = Half /\ c.read = a.read /\ a.shut /\ a.read = a.wrote
      PROVE  ForwardInv'
    <2>1. /\ app'[e] = c /\ app'[o] = app[o] /\ app' \in [Ends -> AppStates]
          /\ loop'[e] = k /\ loop'[o] = loop[o] /\ loop' \in [Ends -> LoopStates]
        BY <1>2, EndFacts
    <2>2. Suits(c, k)
        BY <1>0, <1>1, <1>2, EndFacts, SMTT(30) DEF Suits, Half, Full, LoopOver
    <2>3. Passed(c, k, pipe[e], loop[o], app[o])
        <3>1. Passed(a, l, pipe[e], loop[o], app[o])
            BY EndFacts
        <3>2. Carried(k, pipe[e], loop[o]) = Carried(l, pipe[e], loop[o]) + (c.read - a.read)
            BY <1>0, <1>1, <1>2 DEF Carried, Half
        <3>3. Carried(l, pipe[e], loop[o]) \in Nat
            BY <1>0 DEF Carried
        <3>4. ~LoopOver(l) /\ ~LoopOver(k)
            BY <1>1, <1>2 DEF LoopOver
        <3>5. /\ app[o].given + Carried(k, pipe[e], loop[o]) <= c.read
              /\ Turning(loop[o]) => app[o].given + Carried(k, pipe[e], loop[o]) = c.read
            BY <1>0, <1>2, <3>1, <3>2, <3>3, <3>4, SMTT(30) DEF Passed
        <3>6. QED  BY <1>2, <3>1, <3>5 DEF Passed, HalfLast
    <2>4. Passed(app[o], loop[o], pipe[o], k, c)
        <3>1. Passed(app[o], loop[o], pipe[o], l, a)
            BY EndFacts
        <3>2. Carried(loop[o], pipe[o], k) = Carried(loop[o], pipe[o], l) /\ Turning(l) /\ Turning(k)
            BY <1>1, <1>2 DEF Carried, Turning
        <3>3. \A n : EndPassed(pipe[o], n, l) <=> EndPassed(pipe[o], n, k)
            BY <1>2, <3>2 DEF EndPassed
        <3>4. QED  BY <1>2, <3>1, <3>2, <3>3 DEF Passed
    <2>5. QED  BY <2>1, <2>2, <2>3, <2>4, StepOfEnd, EndFacts DEF TakesInput
<1>3. CASE app[e].read < app[e].wrote /\ app' = [app EXCEPT ![e].read = @ + 1]
               /\ loop' = [loop EXCEPT ![e].at = "send", ![e].item = "data"]
    <2> DEFINE c == [app[e] EXCEPT !.read = @ + 1]
               k == [loop[e] EXCEPT !.at = "send", !.item = "data"]
    <2>1. /\ c \in AppStates /\ c.read = a.read + 1
          /\ c.shut = a.shut /\ c.wrote = a.wrote /\ c.given = a.given /\ c.end = a.end
        <3>1. a.read + 1 \in 0 .. MaxChunks
            BY <1>0, <1>3 DEF ForwardAssumption
        <3>2. QED  BY <1>0, <3>1 DEF AppStates
    <2>2. /\ k \in LoopStates /\ k.at = "send" /\ k.item = "data"
          /\ k.readClosed = l.readClosed /\ k.writeClosed = l.writeClosed
        BY <1>0 DEF LoopStates
    <2>3. app' = [app EXCEPT ![e] = c] /\ loop' = [loop EXCEPT ![e] = k]
        BY <1>3
    <2> HIDE DEF c, k
    <2>4. QED  BY <1>2, <1>3, <2>1, <2>2, <2>3
<1>4. CASE app[e].shut /\ app[e].read = app[e].wrote /\ UNCHANGED app
               /\ loop' = [loop EXCEPT ![e].at = "send", ![e].item = Half]
    <2> DEFINE k == [loop[e] EXCEPT !.at = "send", !.item = Half]
    <2>1. /\ k \in LoopStates /\ k.at = "send" /\ k.item = Half
          /\ k.readClosed = l.readClosed /\ k.writeClosed = l.writeClosed
        BY <1>0 DEF LoopStates
    <2>2. app' = [app EXCEPT ![e] = app[e]] /\ loop' = [loop EXCEPT ![e] = k] /\ app[e] \in AppStates
        BY <1>4, EndFacts
    <2> HIDE DEF k
    <2>3. QED  BY <1>2, <1>4, <2>1, <2>2
<1>5. QED  BY <1>3, <1>4 DEF TakesInput

\* The loop's events.
LEMMA EndPassedOn ==
    ASSUME NEW q \in Seq(Items), NEW x \in Items, NEW n \in Nat, NEW m, EndPassed(q, n, m)
    PROVE  EndPassed(Append(q, x), n, m)
<1>1. /\ Len(q) \in Nat /\ Len(Append(q, x)) = Len(q) + 1
      /\ \A i \in 1 .. Len(q) : Append(q, x)[i] = q[i]
    BY AppendedPlaces
<1>2. QED  BY <1>1 DEF EndPassed

LEMMA ForwardSendsKeeps ==
    ASSUME ForwardInv, ForwardAssumption, NEW e \in Ends, Sends(e)
    PROVE  ForwardInv'
<1> DEFINE o == Other(e)
           l == loop[e]
           q == pipe[e]
           x == loop[e].item
           r == Append(q, x)
           k == [loop[e] EXCEPT !.at = "select", !.item = "none", !.readClosed = @ \/ loop[e].item = Half]
<1>1. /\ l.at = "send" /\ ~l.readClosed /\ x \in {"data", Half} /\ l \in LoopStates
      /\ q \in Seq(Items) /\ Len(q) < ChannelCap /\ app[e] \in AppStates
    BY EndFacts DEF Sends, At, Suits, HasRoom, LoopOver
<1>2. /\ k \in LoopStates /\ k.at = "select" /\ k.item = "none" /\ (k.readClosed <=> x = Half)
      /\ k.writeClosed = l.writeClosed
    BY <1>1 DEF LoopStates
<1>3. /\ r \in Seq(Items) /\ Len(q) \in Nat /\ Len(r) = Len(q) + 1 /\ r[Len(q) + 1] = x
      /\ \A i \in 1 .. Len(q) : r[i] = q[i]
    <2>1. x \in Items
        BY <1>1 DEF Items
    <2>2. QED  BY <1>1, <2>1, AppendedPlaces
<1>4. Len(r) <= ChannelCap
    BY <1>1, <1>3 DEF ForwardAssumption
<1>5. InQueue(q, "data") \in Nat /\ InQueue(r, "data") = InQueue(q, "data") + (IF x = "data" THEN 1 ELSE 0)
    <2>1. x \in Items
        BY <1>1 DEF Items
    <2>2. QED  BY <1>1, <2>1, CopiesAppended, SpotsFinite
<1>6. loop' = [loop EXCEPT ![e] = k] /\ pipe' = [pipe EXCEPT ![e] = r] /\ app' = app
    BY DEF Sends
<1> HIDE DEF k, r
<1>7. /\ loop'[e] = k /\ loop'[o] = loop[o] /\ loop' \in [Ends -> LoopStates]
      /\ pipe'[e] = r /\ pipe'[o] = pipe[o] /\ pipe' \in [Ends -> Seq(Items)]
      /\ \A d \in Ends : Len(pipe'[d]) <= ChannelCap
    BY <1>2, <1>3, <1>4, <1>6, EndFacts
<1>8. Suits(app[e], k)
    BY <1>1, <1>2, EndFacts DEF Suits, LoopOver
<1>9. Passed(app[e], k, r, loop[o], app[o])
    <2>0. Passed(app[e], l, q, loop[o], app[o])
        BY EndFacts
    <2>1. Carried(k, r, loop[o]) = Carried(l, q, loop[o])
        BY <1>1, <1>2, <1>5 DEF Carried, Half
    <2>2. ~LoopOver(l)
        BY <1>1 DEF LoopOver
    <2>3. /\ app[o].given + Carried(k, r, loop[o]) <= app[e].read
          /\ Turning(loop[o]) => app[o].given + Carried(k, r, loop[o]) = app[e].read
        BY <2>0, <2>1, <2>2 DEF Passed
    <2>4. \A i \in 1 .. Len(q) : q[i] # Half
        BY <2>0, <1>1 DEF Passed, HalfLast
    <2>5. HalfLast(k, r)
        BY <2>4, <1>2, <1>3 DEF HalfLast
    <2>6. \A j \in 1 .. Len(r) : r[j] = Full => EndPassed(r, j, loop[o])
        <3> SUFFICES ASSUME NEW j \in 1 .. Len(r), r[j] = Full PROVE EndPassed(r, j, loop[o])
            OBVIOUS
        <3>1. j \in 1 .. Len(q) /\ q[j] = Full /\ j \in Nat
            BY <1>1, <1>3 DEF Half, Full
        <3>2. EndPassed(q, j, loop[o])
            BY <2>0, <3>1 DEF Passed
        <3>3. x \in Items
            BY <1>1 DEF Items
        <3>4. QED  BY <1>1, <3>1, <3>2, <3>3, EndPassedOn DEF r
    <2>7. k.readClosed => EndPassed(r, Len(r) + 1, loop[o])
        BY <1>2, <1>3 DEF EndPassed
    <2>8. QED  BY <2>0, <2>3, <2>5, <2>6, <2>7 DEF Passed
<1>10. Passed(app[o], loop[o], pipe[o], k, app[e])
    <2>1. Passed(app[o], loop[o], pipe[o], l, app[e])
        BY EndFacts
    <2>2. Carried(loop[o], pipe[o], k) = Carried(loop[o], pipe[o], l) /\ Turning(l) /\ Turning(k)
        BY <1>1, <1>2 DEF Carried, Turning
    <2>3. \A n : EndPassed(pipe[o], n, l) <=> EndPassed(pipe[o], n, k)
        BY <1>2, <2>2 DEF EndPassed
    <2>4. QED  BY <1>2, <2>1, <2>2, <2>3 DEF Passed
<1>11. QED  BY <1>6, <1>7, <1>8, <1>9, <1>10, StepOfEnd, EndFacts

LEMMA BothEndedKeeps ==
    ASSUME ForwardInv, ForwardAssumption, NEW e \in Ends, BothEnded(e)
    PROVE  ForwardInv'
<1> DEFINE o == Other(e)
           k == [loop[e] EXCEPT !.at = "closing", !.item = Full]
<1>1. /\ k \in LoopStates /\ k.at = "closing" /\ k.item = Full
      /\ k.readClosed = loop[e].readClosed /\ k.writeClosed = loop[e].writeClosed
    <2>1. loop[e] \in LoopStates
        BY EndFacts
    <2>2. QED  BY <2>1 DEF LoopStates
<1>2. /\ loop' = [loop EXCEPT ![e] = k] /\ app' = app /\ pipe' = pipe
      /\ loop[e].at = "select" /\ loop[e].readClosed /\ loop[e].writeClosed
    BY DEF BothEnded, At
<1> HIDE DEF k
<1>3. loop'[e] = k /\ loop'[o] = loop[o] /\ loop' \in [Ends -> LoopStates]
    BY <1>1, <1>2, EndFacts
<1>4. /\ Suits(app[e], k) /\ Passed(app[e], k, pipe[e], loop[o], app[o])
      /\ Passed(app[o], loop[o], pipe[o], k, app[e])
    BY <1>1, <1>2, EndFacts, AppFields, LeavesKeeps DEF LoopOver
<1>5. QED  BY <1>2, <1>3, <1>4, StepOfEnd, EndFacts

LEMMA SendsCloseKeeps ==
    ASSUME ForwardInv, ForwardAssumption, NEW e \in Ends, SendsClose(e)
    PROVE  ForwardInv'
<1> DEFINE o == Other(e)
           l == loop[e]
           x == loop[e].item
           q == pipe[e]
           r == Append(q, x)
<1>1. /\ l.at = "closing" /\ x \in {Full, Failed} /\ x \in Items /\ q \in Seq(Items)
      /\ x = Full => (l.readClosed /\ l.writeClosed)
    BY EndFacts DEF SendsClose, At, Suits, Items, LoopOver
<1>2. PipesFit(e)
    <2>1. CASE UNCHANGED pipe
        BY <2>1, PipesLeft
    <2>2. CASE HasRoom(e) /\ pipe' = [pipe EXCEPT ![e] = r]
        <3>1. /\ r \in Seq(Items) /\ Len(q) \in Nat /\ Len(r) = Len(q) + 1 /\ r[Len(q) + 1] = x
              /\ \A i \in 1 .. Len(q) : r[i] = q[i]
            BY <1>1, AppendedPlaces
        <3>2. Len(r) <= ChannelCap
            BY <2>2, <3>1 DEF ForwardAssumption, HasRoom
        <3>3. x # "data" /\ x # Half
            BY <1>1 DEF Full, Failed, Half
        <3>4. InQueue(r, "data") = InQueue(q, "data")
            <4>1. InQueue(q, "data") \in Nat
                BY <1>1, SpotsFinite
            <4>2. QED  BY <1>1, <3>3, <4>1, CopiesAppended
        <3> HIDE DEF r
        <3>5. /\ pipe'[e] = r /\ pipe'[o] = pipe[o] /\ pipe' \in [Ends -> Seq(Items)]
              /\ \A d \in Ends : Len(pipe'[d]) <= ChannelCap
            BY <2>2, <3>1, <3>2, EndFacts
        <3>6. Passed(app[e], l, q, loop[o], app[o])
            BY EndFacts
        <3>7. Carried(l, r, loop[o]) = Carried(l, q, loop[o])
            BY <3>4 DEF Carried
        <3>8. HalfLast(l, r)
            BY <3>1, <3>3, <3>6 DEF HalfLast, Passed
        <3>9. \A n \in Nat : EndPassed(q, n, loop[o]) => EndPassed(r, n, loop[o])
            BY <1>1, EndPassedOn DEF r
        <3>10. l.readClosed => (EndPassed(r, Len(q) + 1, loop[o]) /\ EndPassed(r, Len(r) + 1, loop[o]))
            <4>1. l.readClosed => EndPassed(r, Len(q) + 1, loop[o])
                BY <3>1, <3>6, <3>9 DEF Passed
            <4>2. QED  BY <4>1, <3>1 DEF EndPassed
        <3>11. \A j \in 1 .. Len(r) : r[j] = Full => EndPassed(r, j, loop[o])
            BY <1>1, <3>1, <3>6, <3>9, <3>10 DEF Passed
        <3>12. Passed(app[e], l, r, loop[o], app[o])
            BY <3>6, <3>7, <3>8, <3>10, <3>11 DEF Passed
        <3>13. QED  BY <3>5, <3>12 DEF PipesFit
    <2>3. QED  BY <2>1, <2>2 DEF SendsClose
<1>3. Stops(e, IF x = Failed THEN "failed" ELSE "ok") /\ (x # Failed => x = Full)
    BY <1>1 DEF SendsClose
<1>4. QED  BY <1>1, <1>2, <1>3, ForwardStopsKeeps

LEMMA ReceivesKeeps ==
    ASSUME ForwardInv, ForwardAssumption, NEW e \in Ends, Receives(e)
    PROVE  ForwardInv'
<1> DEFINE o == Other(e)
           l == loop[e]
           m == loop[o]
           b == app[o]
           r == pipe[o]
           s == Tail(pipe[o])
           item == Head(pipe[o])
<1>1. /\ o \in Ends /\ o # e /\ r # <<>> /\ r \in Seq(Items) /\ l \in LoopStates /\ app[e] \in AppStates
      /\ l.at = "select" /\ ~l.writeClosed /\ l.item = "none" /\ Suits(app[e], l)
      /\ Passed(b, m, r, l, app[e]) /\ Passed(app[e], l, pipe[e], m, b) /\ b \in AppStates
    BY EndFacts DEF Receives, At, Suits, LoopOver
<1>2. /\ s \in Seq(Items) /\ Len(r) \in Nat /\ Len(r) > 0 /\ Len(s) = Len(r) - 1
      /\ item = r[1] /\ item \in Items
      /\ \A i \in 1 .. Len(s) : s[i] = r[i + 1]
    BY <1>1, TailPlaces
<1>3. /\ InQueue(r, "data") \in Nat
      /\ InQueue(s, "data") \in Nat
      /\ InQueue(s, "data") = InQueue(r, "data") - (IF item = "data" THEN 1 ELSE 0)
    BY <1>1, <1>2, CopiesTaken, SpotsFinite
<1>4. pipe' = [pipe EXCEPT ![o] = s]
    BY DEF Receives
<1>5. HalfLast(m, s) /\ (item = Half => \A j \in 1 .. Len(s) : s[j] # "data")
    BY <1>1, TailOrdered DEF Passed
<1>6. Turning(l) /\ Turning(l) = TRUE
    BY <1>1 DEF Turning
<1>7. item # Full
    <2>1. 1 \in 1 .. Len(r) /\ ~\E i \in 1 .. Len(r) : i < 1 /\ r[i] = Half
        BY <1>2
    <2>2. ~EndPassed(r, 1, l)
        BY <1>1, <1>6, <2>1 DEF EndPassed
    <2>3. r[1] # Full
        BY <1>1, <2>1, <2>2 DEF Passed
    <2>4. QED  BY <1>2, <2>3
<1>8. \A n \in 1 .. Len(s) + 1 : (EndPassed(r, n + 1, l) /\ item # Half) => EndPassed(s, n, l)
    <2> SUFFICES ASSUME NEW n \in 1 .. Len(s) + 1, EndPassed(r, n + 1, l), item # Half
        PROVE  EndPassed(s, n, l)
        OBVIOUS
    <2>1. PICK i \in 1 .. Len(r) : i < n + 1 /\ r[i] = Half
        BY <1>1, <1>6 DEF EndPassed
    <2>2. i # 1
        BY <1>2, <2>1
    <2>3. i - 1 \in 1 .. Len(s) /\ i - 1 < n /\ s[i - 1] = Half
        BY <1>2, <2>1, <2>2
    <2>4. QED  BY <2>3 DEF EndPassed
<1> HIDE DEF s, item
<1>9. /\ pipe'[o] = s /\ pipe'[e] = pipe[e] /\ pipe' \in [Ends -> Seq(Items)]
      /\ \A d \in Ends : Len(pipe'[d]) <= ChannelCap
    <2>1. Len(s) <= ChannelCap
        <3>1. Len(r) <= ChannelCap /\ ChannelCap \in Nat
            BY <1>1, EndFacts DEF ForwardAssumption
        <3>2. QED  BY <3>1, <1>2
    <2>2. QED  BY <1>1, <1>2, <1>4, <2>1, EndFacts
<1>10. CASE item = "data" /\ loop' = [loop EXCEPT ![e].at = "write"] /\ UNCHANGED app
    <2> DEFINE k == [loop[e] EXCEPT !.at = "write"]
    <2>1. /\ k \in LoopStates /\ k.at = "write" /\ k.item = "none"
          /\ k.readClosed = l.readClosed /\ k.writeClosed = l.writeClosed
        BY <1>1 DEF LoopStates
    <2>2. loop' = [loop EXCEPT ![e] = k]
        BY <1>10
    <2> HIDE DEF k
    <2>3. loop'[e] = k /\ loop'[o] = loop[o] /\ loop' \in [Ends -> LoopStates]
        BY <1>1, <2>1, <2>2, EndFacts
    <2>4. Suits(app[e], k) /\ Turning(k)
        BY <1>1, <2>1 DEF Suits, Turning, LoopOver
    <2>5. Passed(app[e], k, pipe[e], m, b)
        <3>1. Carried(k, pipe[e], m) = Carried(l, pipe[e], m) /\ ~LoopOver(l) /\ ~LoopOver(k)
            BY <1>1, <2>1 DEF Carried, LoopOver
        <3>2. QED  BY <1>1, <2>1, <3>1 DEF Passed, HalfLast
    <2>6. Passed(b, m, s, k, app[e])
        <3>1. Carried(m, s, k) = Carried(m, r, l)
            BY <1>1, <1>3, <1>10, <2>1 DEF Carried
        <3>2. \A n : EndPassed(s, n, l) <=> EndPassed(s, n, k)
            BY <1>6, <2>1, <2>4 DEF EndPassed
        <3>3. \A j \in 1 .. Len(s) : s[j] = Full => EndPassed(s, j, k)
            <4> SUFFICES ASSUME NEW j \in 1 .. Len(s), s[j] = Full PROVE EndPassed(s, j, l)
                BY <3>2
            <4>1. j + 1 \in 1 .. Len(r) /\ r[j + 1] = Full /\ j \in 1 .. Len(s) + 1
                BY <1>2
            <4>2. EndPassed(r, j + 1, l)
                BY <4>1, <1>1 DEF Passed
            <4>3. QED  BY <4>1, <4>2, <1>8, <1>10 DEF Half
        <3>4. m.readClosed => EndPassed(s, Len(s) + 1, k)
            <4>1. Len(s) + 1 \in 1 .. Len(s) + 1 /\ (Len(s) + 1) + 1 = Len(r) + 1
                BY <1>2
            <4>2. m.readClosed => EndPassed(r, (Len(s) + 1) + 1, l)
                BY <4>1, <1>1 DEF Passed
            <4>3. QED  BY <4>1, <4>2, <3>2, <1>8, <1>10 DEF Half
        <3>5. QED  BY <1>1, <1>5, <1>6, <2>1, <2>4, <3>1, <3>3, <3>4 DEF Passed
    <2>7. QED  BY <1>9, <1>10, <2>3, <2>4, <2>5, <2>6, StepOfEnd, EndFacts
<1>11. CASE item = Half /\ ~app[e].gone /\ app' = [app EXCEPT ![e].end = TRUE]
               /\ loop' = [loop EXCEPT ![e].writeClosed = TRUE]
    <2> DEFINE k == [loop[e] EXCEPT !.writeClosed = TRUE]
               c == [app[e] EXCEPT !.end = TRUE]
    <2>1. /\ k \in LoopStates /\ k.at = "select" /\ k.item = "none"
          /\ k.readClosed = l.readClosed /\ k.writeClosed
        BY <1>1 DEF LoopStates
    <2>2. /\ c \in AppStates /\ c.wrote = app[e].wrote /\ c.read = app[e].read /\ c.shut = app[e].shut
          /\ c.given = app[e].given /\ c.end
        BY <1>1 DEF AppStates
    <2>3. loop' = [loop EXCEPT ![e] = k] /\ app' = [app EXCEPT ![e] = c]
        BY <1>11
    <2> HIDE DEF k, c
    <2>4. /\ loop'[e] = k /\ loop'[o] = loop[o] /\ loop' \in [Ends -> LoopStates]
          /\ app'[e] = c /\ app'[o] = app[o] /\ app' \in [Ends -> AppStates]
        BY <1>1, <2>1, <2>2, <2>3, EndFacts
    <2>5. Suits(c, k) /\ Turning(k)
        BY <1>1, <2>1, <2>2 DEF Suits, Turning, LoopOver
    <2>6. Passed(c, k, pipe[e], m, b)
        <3>1. Carried(k, pipe[e], m) = Carried(l, pipe[e], m) /\ ~LoopOver(l) /\ ~LoopOver(k)
            BY <1>1, <2>1 DEF Carried, LoopOver
        <3>2. QED  BY <1>1, <2>1, <2>2, <3>1 DEF Passed, HalfLast
    <2>7. Passed(b, m, s, k, c)
        <3>1. \A n : EndPassed(s, n, k)
            BY <2>1 DEF EndPassed
        <3>2. Carried(m, s, k) = Carried(m, r, l)
            BY <1>1, <1>3, <1>11, <2>1 DEF Carried, Half
        <3>3. m.readClosed /\ InQueue(r, "data") = 0
            <4>1. 1 \in 1 .. Len(r) /\ r[1] = Half
                BY <1>2, <1>11
            <4>2. m.readClosed
                BY <1>1, <4>1 DEF Passed, HalfLast
            <4>3. Spots(s, "data") = {}
                BY <1>5, <1>11 DEF Spots
            <4>4. InQueue(s, "data") = 0
                BY <4>3, FS_EmptySet DEF InQueue
            <4>5. QED  BY <4>2, <4>4, <1>3, <1>11 DEF Half
        <3>4. Suits(b, m)
            BY <1>1 DEF ForwardInv
        <3>5. Carried(m, r, l) = 0 /\ b.shut /\ b.read = b.wrote
            BY <1>1, <3>3, <3>4 DEF Carried, Suits, LoopOver
        <3>6. app[e].given = b.wrote
            <4>1. app[e].given \in Nat
                BY <1>1, AppFields
            <4>2. QED  BY <1>1, <1>6, <3>3, <3>5, <4>1 DEF Passed
        <3>7. QED  BY <1>1, <1>5, <1>6, <2>2, <3>1, <3>2, <3>3, <3>5, <3>6 DEF Passed
    <2>8. QED  BY <1>9, <2>4, <2>5, <2>6, <2>7, StepOfEnd
<1>12. CASE Breaks(e, Failed)
    <2>1. PipesFit(e)
        BY <1>1, <1>9 DEF PipesFit, s
    <2>2. QED  BY <1>1, <1>12, <2>1, BreaksKeeps
<1>13. QED  BY <1>7, <1>10, <1>11, <1>12 DEF Receives, item

LEMMA WritesOutKeeps ==
    ASSUME ForwardInv, ForwardAssumption, NEW e \in Ends, WritesOut(e)
    PROVE  ForwardInv'
<1> DEFINE o == Other(e)
           l == loop[e]
           m == loop[o]
           b == app[o]
           k == [loop[e] EXCEPT !.at = "select"]
           c == [app[e] EXCEPT !.given = @ + 1]
<1>1. /\ o \in Ends /\ o # e /\ l \in LoopStates /\ app[e] \in AppStates /\ b \in AppStates
      /\ l.at = "write" /\ ~l.writeClosed /\ ~app[e].end /\ l.item = "none" /\ Suits(app[e], l)
      /\ Passed(b, m, pipe[o], l, app[e]) /\ Passed(app[e], l, pipe[e], m, b) /\ pipe[o] \in Seq(Items)
    BY EndFacts DEF WritesOut, At, Suits, LoopOver
<1>2. /\ app[e].given \in Nat /\ b.read \in Nat /\ b.read <= MaxChunks /\ InQueue(pipe[o], "data") \in Nat
    BY <1>1, AppFields, SpotsFinite
<1>3. app[e].given + 1 \in 0 .. MaxChunks
    <2>1. Carried(m, pipe[o], l) \in Nat /\ Carried(m, pipe[o], l) >= 1
        BY <1>1, <1>2 DEF Carried
    <2>2. QED  BY <1>1, <1>2, <2>1 DEF Passed, ForwardAssumption
<1>4. /\ k \in LoopStates /\ k.at = "select" /\ k.item = "none"
      /\ k.readClosed = l.readClosed /\ k.writeClosed = l.writeClosed
    BY <1>1 DEF LoopStates
<1>5. /\ c \in AppStates /\ c.wrote = app[e].wrote /\ c.read = app[e].read /\ c.shut = app[e].shut
      /\ c.given = app[e].given + 1 /\ c.end = app[e].end
    BY <1>1, <1>3 DEF AppStates
<1>6. loop' = [loop EXCEPT ![e] = k] /\ app' = [app EXCEPT ![e] = c] /\ pipe' = pipe
    BY DEF WritesOut
<1> HIDE DEF k, c
<1>7. /\ loop'[e] = k /\ loop'[o] = loop[o] /\ loop' \in [Ends -> LoopStates]
      /\ app'[e] = c /\ app'[o] = app[o] /\ app' \in [Ends -> AppStates]
    BY <1>1, <1>4, <1>5, <1>6, EndFacts
<1>8. Suits(c, k) /\ Turning(k) /\ Turning(l)
    BY <1>1, <1>4, <1>5 DEF Suits, Turning, LoopOver
<1>9. Passed(c, k, pipe[e], m, b)
    <2>1. Carried(k, pipe[e], m) = Carried(l, pipe[e], m) /\ ~LoopOver(l) /\ ~LoopOver(k)
        BY <1>1, <1>4 DEF Carried, LoopOver
    <2>2. QED  BY <1>1, <1>4, <1>5, <2>1 DEF Passed, HalfLast
<1>10. Passed(b, m, pipe[o], k, c)
    <2>1. Carried(m, pipe[o], k) \in Int /\ Carried(m, pipe[o], k) = Carried(m, pipe[o], l) - 1
        BY <1>1, <1>2, <1>4 DEF Carried
    <2>2. \A n : EndPassed(pipe[o], n, l) <=> EndPassed(pipe[o], n, k)
        BY <1>4, <1>8 DEF EndPassed
    <2>3. c.given + Carried(m, pipe[o], k) = app[e].given + Carried(m, pipe[o], l)
        <3>1. Carried(m, pipe[o], l) \in Int
            BY <1>1, <1>2 DEF Carried
        <3>2. QED  BY <1>2, <1>5, <2>1, <3>1
    <2>4. QED  BY <1>1, <1>4, <1>5, <1>8, <2>2, <2>3 DEF Passed
<1>11. QED  BY <1>6, <1>7, <1>8, <1>9, <1>10, StepOfEnd, EndFacts

LEMMA ForwardInitHolds ==
    ASSUME ForwardAssumption, ForwardInit
    PROVE  ForwardInv
<1> DEFINE a == [wrote |-> 0, read |-> 0, shut |-> FALSE, gone |-> FALSE,
                 given |-> 0, got |-> 0, end |-> FALSE]
           l == [at |-> "select", item |-> "none", readClosed |-> FALSE, writeClosed |-> FALSE]
<1>1. a \in AppStates /\ l \in LoopStates
    BY DEF AppStates, LoopStates, ForwardAssumption
<1>2. /\ app \in [Ends -> AppStates] /\ loop \in [Ends -> LoopStates] /\ pipe \in [Ends -> Seq(Items)]
      /\ \A e \in Ends : app[e] = a /\ loop[e] = l /\ pipe[e] = <<>>
    BY <1>1 DEF ForwardInit
<1>3. Suits(a, l)
    BY DEF Suits, LoopOver
<1>4. Passed(a, l, <<>>, l, a)
    BY NoCopy DEF Passed, Carried, HalfLast
<1> HIDE DEF a, l
<1>5. \A e \in Ends : Passed(app[e], loop[e], pipe[e], loop[Other(e)], app[Other(e)])
    BY <1>2, <1>4, EndsOther
<1>6. \A e \in Ends : Len(pipe[e]) <= ChannelCap
    BY <1>2 DEF ForwardAssumption
<1>7. QED  BY <1>2, <1>3, <1>5, <1>6 DEF ForwardInv, ForwardShape

LEMMA ForwardNextKeeps ==
    ASSUME ForwardAssumption, ForwardInv, [ForwardNext]_forwardVars
    PROVE  ForwardInv'
<1>1. CASE UNCHANGED forwardVars
    BY <1>1 DEF forwardVars, ForwardInv, ForwardShape
<1>2. ASSUME NEW e \in Ends, Passes(e) PROVE ForwardInv'
    BY <1>2, TakesInputKeeps, ForwardSendsKeeps, ReceivesKeeps, WritesOutKeeps, BothEndedKeeps,
       SendsCloseKeeps, GivesUpKeeps DEF Passes
<1>3. QED  BY <1>1, <1>2, ApplicationKeeps, TimedOutKeeps DEF ForwardNext

\* Each application gets what the other wrote before it closed, and a loop that
\* returns success has carried both directions to their ends.
LEMMA ForwardTold == ASSUME ForwardAssumption, ForwardInv PROVE ForwardComplete /\ ForwardTypeOK
<1>1. ASSUME NEW e \in Ends
      PROVE  /\ (app[e].end /\ ~At(e, "failed")) =>
                    (app[Other(e)].shut /\ app[e].given = app[Other(e)].wrote)
             /\ At(e, "ok") => (app[e].end /\ app[e].shut /\ app[e].read = app[e].wrote)
    <2>1. /\ Passed(app[Other(e)], loop[Other(e)], pipe[Other(e)], loop[e], app[e])
          /\ Suits(app[e], loop[e])
        BY EndFacts
    <2>2. QED  BY <2>1 DEF Passed, Suits, LoopOver, At
<1>2. ForwardComplete
    BY <1>1 DEF ForwardComplete
<1>3. ForwardTypeOK
    BY DEF ForwardInv, ForwardShape, ForwardTypeOK, AppStates, LoopStates, Items
<1>4. QED  BY <1>2, <1>3

\* However much both applications write and in whichever order they shut their sides: in
\* each direction every chunk taken is given, in hand or in the channel, and the end of
\* the input comes after the last of them (forward_tcp, AgentService::forward).
THEOREM ForwardInvariant == ASSUME ForwardAssumption PROVE ForwardSpec => []ForwardInv
<1>1. ForwardInit => ForwardInv
    BY ForwardInitHolds
<1>2. ForwardInv /\ [ForwardNext]_forwardVars => ForwardInv'
    BY ForwardNextKeeps
<1>3. QED  BY <1>1, <1>2, PTL DEF ForwardSpec

-----------------------------------------------------------------------------
(***************************************************************************)
(* Reverse forwarding.                                                     *)
(***************************************************************************)
Whats == {"connected", "data", "half", "close"}
ConnEvents == [conn : Conns, what : Whats]
BridgeStates == [at : {"none", "born", "connect", "select", "send", "write", "last", "done"},
                 item : {"none", "data", "half"}, readClosed : BOOLEAN, writeClosed : BOOLEAN]
SocketStates == [wrote : Nat, given : Nat]

ReverseShape ==
    /\ session \in [Sides -> {"up", "over"}]
    /\ channel \in [Sides -> Seq(ConnEvents)] /\ \A s \in Sides : Len(channel[s]) <= ChanCap
    /\ hand \in [Sides -> ConnEvents \cup {NoEvent}]
    /\ queue \in [Sides -> [Conns -> Seq(Whats)]]
    /\ \A s \in Sides, c \in Conns : Len(queue[s][c]) <= QueueCap
    /\ known \in [Sides -> SUBSET Conns]
    /\ bridge \in [Sides -> [Conns -> BridgeStates]]
    /\ socket \in [Sides -> [Conns -> SocketStates]]
    /\ permits \in Nat

\* Events of connection c on their way to side s: in its queue, in the hand of the
\* loop, or in the channel to it.
Queued(s, c, what) == InQueue(queue[s][c], what)
InHand(s, c, what) == IF hand[s] = Ev(c, what) THEN 1 ELSE 0
Sent(s, c, what) == InQueue(channel[Opposite(s)], Ev(c, what))

\* No y comes after an x.
NoneAfter(q, x, y) == \A i, j \in 1 .. Len(q) : (q[i] = x /\ i < j) => q[j] # y

Alive(s, c) == bridge[s][c].at \notin {"last", "done"}

\* Chunks that the bridge of c at the other side has taken and that at s has not
\* given away.
OnTheirWay(s, c) ==
    (IF bridge[s][c].at = "write" THEN 1 ELSE 0)
    + Queued(s, c, "data") + InHand(s, c, "data") + Sent(s, c, "data")
    + (IF On(Opposite(s), c, "send") /\ bridge[Opposite(s)][c].item = "data" THEN 1 ELSE 0)

\* None is invented, and none is lost to a bridge that lives before the end of the
\* input.
NoneLost(s, c) ==
    LET from == Opposite(s)
    IN  /\ socket[s][c].given + OnTheirWay(s, c) <= socket[from][c].wrote
        /\ (Alive(s, c) /\ (bridge[from][c].readClosed \/ Alive(from, c))) =>
               socket[s][c].given + OnTheirWay(s, c) = socket[from][c].wrote
        /\ Sent(s, c, "data") > 0 => ~On(from, c, "none")

\* No data of c follows this event of c on its way to s.
LastOf(s, c, what) ==
    /\ Queued(s, c, what) > 0 => InHand(s, c, "data") = 0
    /\ (Queued(s, c, what) > 0 \/ InHand(s, c, what) > 0) => Sent(s, c, "data") = 0
    /\ NoneAfter(queue[s][c], what, "data")
    /\ NoneAfter(channel[Opposite(s)], Ev(c, what), Ev(c, "data"))

\* The end of the input, and the close, come last.
EndsLast(s, c) ==
    /\ (Queued(s, c, "half") > 0 \/ InHand(s, c, "half") > 0 \/ Sent(s, c, "half") > 0) =>
           bridge[Opposite(s)][c].readClosed
    /\ (Queued(s, c, "close") > 0 \/ InHand(s, c, "close") > 0 \/ Sent(s, c, "close") > 0) =>
           On(Opposite(s), c, "done")
    /\ LastOf(s, c, "half") /\ LastOf(s, c, "close")

\* A bridge and its socket.
BridgeFits(s, c) ==
    /\ On(s, c, "send") => (bridge[s][c].item = "data" \/ bridge[s][c].item = "half")
    /\ (On(s, c, "send") /\ bridge[s][c].item = "data") => ~bridge[s][c].readClosed
    /\ (On(s, c, "send") /\ bridge[s][c].item = "half") => bridge[s][c].readClosed
    /\ On(s, c, "write") => ~bridge[s][c].writeClosed
    /\ bridge[s][c].writeClosed => /\ bridge[Opposite(s)][c].readClosed
                                   /\ socket[s][c].given = socket[Opposite(s)][c].wrote
    /\ socket[s][c].wrote <= MaxWrites(s)

\* The table of a loop: it has the bridges that live; the client has forgotten those
\* it has handed the close of.
TableFits(s, c) ==
    /\ c \in known[s] => ~On(s, c, "none")
    /\ (InHand(s, c, "data") + InHand(s, c, "half") + InHand(s, c, "close") > 0) => ~On(s, c, "none")
    /\ (Up(s) /\ Alive(s, c) /\ ~On(s, c, "none")) =>
           (c \in known[s] \/ (s = "client" /\ Queued(s, c, "close") > 0))

\* A connection is announced once, before anything else of it.
AnnouncedOnce(c) ==
    /\ (On("guest", c, "none") \/ On("guest", c, "born")) =>
           (Sent("client", c, "connected") = 0 /\ On("client", c, "none"))
    /\ Sent("client", c, "connected") <= 1
    /\ Sent("client", c, "connected") > 0 => On("client", c, "none")
    /\ InHand("guest", c, "connected") > 0 => On("guest", c, "born")
    /\ (On("guest", c, "select") \/ On("guest", c, "send") \/ On("guest", c, "write") \/ On("guest", c, "last")) =>
           (Sent("client", c, "connected") > 0 \/ ~On("client", c, "none"))
    /\ (Sent("client", c, "connected") = 0 /\ On("client", c, "none")) => Sent("client", c, "data") = 0
    /\ NoneAfter(channel["guest"], Ev(c, "data"), Ev(c, "connected"))
    /\ Sent("guest", c, "connected") = 0 /\ InHand("client", c, "connected") = 0
    /\ ~On("guest", c, "connect")

RunningConns == {c \in Conns : Runs("guest", c)}
PermitsOut == IsFiniteSet(RunningConns) /\ permits + Cardinality(RunningConns) = ForwardSlots

Connection(s, c) == NoneLost(s, c) /\ EndsLast(s, c) /\ BridgeFits(s, c) /\ TableFits(s, c)

ReverseInv ==
    /\ ReverseShape
    /\ \A s \in Sides, c \in Conns : Connection(s, c)
    /\ \A c \in Conns : AnnouncedOnce(c)
    /\ PermitsOut

LEMMA SidesOpposite ==
    ASSUME NEW s \in Sides
    PROVE  Opposite(s) \in Sides /\ Opposite(s) # s /\ Opposite(Opposite(s)) = s /\ Sides = {s, Opposite(s)}
BY DEF Sides, Opposite

LEMMA NestedSet ==
    ASSUME NEW A, NEW B, NEW R, NEW f \in [A -> [B -> R]], NEW a \in A, NEW b \in B, NEW w \in R
    PROVE  LET g == [f EXCEPT ![a][b] = w]
           IN  /\ g \in [A -> [B -> R]] /\ g[a][b] = w
               /\ \A x \in A, y \in B : (x # a \/ y # b) => g[x][y] = f[x][y]
<1> DEFINE h == [f[a] EXCEPT ![b] = w]
<1>1. f[a] \in [B -> R]
    OBVIOUS
<1>2. h \in [B -> R] /\ h[b] = w /\ \A y \in B : y # b => h[y] = f[a][y]
    BY <1>1
<1>3. [f EXCEPT ![a][b] = w] = [f EXCEPT ![a] = h]
    OBVIOUS
<1> HIDE DEF h
<1>4. QED  BY <1>2, <1>3

LEMMA NoneAfterAppended ==
    ASSUME NEW S, NEW q \in Seq(S), NEW z \in S, NEW x, NEW y, NoneAfter(q, x, y),
           z # y \/ InQueue(q, x) = 0
    PROVE  NoneAfter(Append(q, z), x, y)
<1> DEFINE r == Append(q, z)
<1>1. /\ Len(q) \in Nat /\ Len(r) = Len(q) + 1 /\ r[Len(q) + 1] = z
      /\ \A i \in 1 .. Len(q) : r[i] = q[i]
    BY AppendedPlaces
<1> HIDE DEF r
<1>2. InQueue(q, x) = 0 => \A i \in 1 .. Len(q) : q[i] # x
    BY SomeCopy
<1>3. SUFFICES ASSUME NEW i \in 1 .. Len(r), NEW j \in 1 .. Len(r), r[i] = x, i < j PROVE r[j] # y
    BY DEF NoneAfter, r
<1>4. i \in 1 .. Len(q) /\ q[i] = x
    BY <1>1, <1>3
<1>5. CASE j \in 1 .. Len(q)
    BY <1>1, <1>3, <1>4, <1>5 DEF NoneAfter
<1>6. CASE j = Len(q) + 1
    BY <1>1, <1>2, <1>4, <1>6
<1>7. QED  BY <1>1, <1>5, <1>6

LEMMA NoneAfterTaken ==
    ASSUME NEW S, NEW q \in Seq(S), q # <<>>, NEW x, NEW y, NoneAfter(q, x, y)
    PROVE  NoneAfter(Tail(q), x, y) /\ (Head(q) = x => InQueue(Tail(q), y) = 0)
<1> DEFINE r == Tail(q)
<1>1. /\ Len(q) \in Nat /\ Len(q) > 0 /\ Len(r) = Len(q) - 1 /\ Head(q) = q[1] /\ r \in Seq(S)
      /\ \A i \in 1 .. Len(q) - 1 : r[i] = q[i + 1]
    BY TailPlaces
<1> HIDE DEF r
<1>2. NoneAfter(r, x, y)
    <2> SUFFICES ASSUME NEW i \in 1 .. Len(r), NEW j \in 1 .. Len(r), r[i] = x, i < j PROVE r[j] # y
        BY DEF NoneAfter
    <2>1. i + 1 \in 1 .. Len(q) /\ j + 1 \in 1 .. Len(q) /\ i + 1 < j + 1 /\ q[i + 1] = x /\ r[j] = q[j + 1]
        BY <1>1
    <2>2. QED  BY <2>1 DEF NoneAfter
<1>3. ASSUME Head(q) = x PROVE InQueue(r, y) = 0
    <2>1. ASSUME NEW j \in 1 .. Len(r) PROVE r[j] # y
        <3>1. j + 1 \in 1 .. Len(q) /\ 1 \in 1 .. Len(q) /\ 1 < j + 1 /\ q[1] = x /\ r[j] = q[j + 1]
            BY <1>1, <1>3
        <3>2. QED  BY <3>1 DEF NoneAfter
    <2>2. Spots(r, y) = {}
        BY <2>1 DEF Spots
    <2>3. QED  BY <2>2, FS_EmptySet DEF InQueue
<1>4. QED  BY <1>2, <1>3 DEF r

LEMMA NoneAfterEmpty == ASSUME NEW x, NEW y PROVE NoneAfter(<<>>, x, y)
BY DEF NoneAfter

\* What a channel r carries for connection d, q carries too, in its order.
SameFor(q, r, d) ==
    /\ \A w \in Whats : InQueue(r, Ev(d, w)) = InQueue(q, Ev(d, w))
    /\ \A x, y \in Whats : NoneAfter(q, Ev(d, x), Ev(d, y)) => NoneAfter(r, Ev(d, x), Ev(d, y))

LEMMA SameForItself == ASSUME NEW q, NEW d PROVE SameFor(q, q, d)
BY DEF SameFor

LEMMA OtherAppended ==
    ASSUME NEW q \in Seq(ConnEvents), NEW e \in ConnEvents, NEW d, e.conn # d
    PROVE  SameFor(q, Append(q, e), d)
<1>1. \A w \in Whats : e # Ev(d, w)
    BY DEF Ev
<1>2. \A w \in Whats : InQueue(q, Ev(d, w)) \in Nat
    BY SpotsFinite
<1>3. \A w \in Whats : InQueue(Append(q, e), Ev(d, w)) = InQueue(q, Ev(d, w))
    BY <1>1, <1>2, CopiesAppended
<1>4. \A x, y \in Whats : NoneAfter(q, Ev(d, x), Ev(d, y)) => NoneAfter(Append(q, e), Ev(d, x), Ev(d, y))
    BY <1>1, NoneAfterAppended
<1>5. QED  BY <1>3, <1>4 DEF SameFor

LEMMA OtherTaken ==
    ASSUME NEW q \in Seq(ConnEvents), q # <<>>, NEW d, Head(q).conn # d
    PROVE  SameFor(q, Tail(q), d)
<1>1. \A w \in Whats : Head(q) # Ev(d, w)
    BY DEF Ev
<1>2. \A w \in Whats : InQueue(q, Ev(d, w)) \in Nat
    BY SpotsFinite
<1>3. \A w \in Whats : InQueue(Tail(q), Ev(d, w)) = InQueue(q, Ev(d, w))
    BY <1>1, <1>2, CopiesTaken
<1>4. \A x, y \in Whats : NoneAfter(q, Ev(d, x), Ev(d, y)) => NoneAfter(Tail(q), Ev(d, x), Ev(d, y))
    BY NoneAfterTaken
<1>5. QED  BY <1>3, <1>4 DEF SameFor

LEMMA ReverseCounts ==
    ASSUME ReverseShape, NEW s \in Sides, NEW c \in Conns
    PROVE  /\ \A w : Queued(s, c, w) \in Nat /\ Sent(s, c, w) \in Nat /\ InHand(s, c, w) \in {0, 1}
           /\ bridge[s][c] \in BridgeStates /\ socket[s][c] \in SocketStates
           /\ socket[s][c].wrote \in Nat /\ socket[s][c].given \in Nat
           /\ queue[s][c] \in Seq(Whats) /\ channel[s] \in Seq(ConnEvents) /\ Len(channel[s]) <= ChanCap
           /\ Len(queue[s][c]) <= QueueCap
           /\ hand[s] \in ConnEvents \cup {NoEvent}
<1>1. /\ queue[s][c] \in Seq(Whats) /\ channel[s] \in Seq(ConnEvents) /\ channel[Opposite(s)] \in Seq(ConnEvents)
      /\ Len(channel[s]) <= ChanCap /\ Len(queue[s][c]) <= QueueCap /\ hand[s] \in ConnEvents \cup {NoEvent}
    BY SidesOpposite DEF ReverseShape
<1>2. bridge[s][c] \in BridgeStates /\ socket[s][c] \in SocketStates
    BY DEF ReverseShape
<1>3. socket[s][c].wrote \in Nat /\ socket[s][c].given \in Nat
    BY <1>2 DEF SocketStates
<1>4. \A w : Queued(s, c, w) \in Nat /\ Sent(s, c, w) \in Nat
    BY <1>1, SpotsFinite DEF Queued, Sent
<1>5. QED  BY <1>1, <1>2, <1>3, <1>4 DEF InHand

\* A step that leaves connection d alone.
Apart(d) ==
    \A t \in Sides :
        /\ bridge'[t][d] = bridge[t][d] /\ socket'[t][d] = socket[t][d] /\ queue'[t][d] = queue[t][d]
        /\ d \in known'[t] <=> d \in known[t]
        /\ session'[t] = "up" => session[t] = "up"
        /\ \A w \in Whats : hand'[t] = Ev(d, w) <=> hand[t] = Ev(d, w)
        /\ SameFor(channel[t], channel'[t], d)

LEMMA ApartCounts ==
    ASSUME NEW d, Apart(d), NEW t \in Sides, NEW w \in Whats
    PROVE  /\ Queued(t, d, w)' = Queued(t, d, w) /\ InHand(t, d, w)' = InHand(t, d, w)
           /\ Sent(t, d, w)' = Sent(t, d, w)
<1>1. Opposite(t) \in Sides
    BY SidesOpposite
<1>2. QED  BY <1>1 DEF Apart, Queued, InHand, Sent, SameFor

LEMMA ApartKept ==
    ASSUME NEW d, Apart(d), NEW t \in Sides, Connection(t, d)
    PROVE  Connection(t, d)'
<1> DEFINE o == Opposite(t)
<1>1. o \in Sides /\ "data" \in Whats /\ "half" \in Whats /\ "close" \in Whats
    BY SidesOpposite DEF Whats
<1>2. /\ \A s \in Sides : bridge'[s][d] = bridge[s][d] /\ socket'[s][d] = socket[s][d]
      /\ queue'[t][d] = queue[t][d]
      /\ d \in known'[t] <=> d \in known[t]
      /\ session'[t] = "up" => session[t] = "up"
    BY DEF Apart
<1>3. \A s \in Sides : (Alive(s, d)' <=> Alive(s, d)) /\ \A p : (On(s, d, p)' <=> On(s, d, p))
    BY <1>2 DEF Alive, On
<1>4. \A w \in Whats : /\ Queued(t, d, w)' = Queued(t, d, w) /\ InHand(t, d, w)' = InHand(t, d, w)
                       /\ Sent(t, d, w)' = Sent(t, d, w)
    BY ApartCounts
<1>5. NoneLost(t, d)'
    <2>1. OnTheirWay(t, d)' = OnTheirWay(t, d)
        BY <1>1, <1>2, <1>3, <1>4 DEF OnTheirWay
    <2>2. QED  BY <1>1, <1>2, <1>3, <1>4, <2>1 DEF NoneLost, Connection
<1>6. EndsLast(t, d)'
    <2>1. \A x, y \in Whats : NoneAfter(channel[o], Ev(d, x), Ev(d, y)) => NoneAfter(channel'[o], Ev(d, x), Ev(d, y))
        BY <1>1 DEF Apart, SameFor
    <2>2. \A w \in {"half", "close"} : LastOf(t, d, w) => LastOf(t, d, w)'
        BY <1>1, <1>2, <1>4, <2>1 DEF LastOf
    <2>3. QED  BY <1>1, <1>2, <1>3, <1>4, <2>2 DEF EndsLast, Connection
<1>7. BridgeFits(t, d)'
    BY <1>1, <1>2, <1>3 DEF BridgeFits, Connection
<1>8. TableFits(t, d)'
    BY <1>1, <1>2, <1>3, <1>4 DEF TableFits, Connection, Up
<1>9. QED  BY <1>5, <1>6, <1>7, <1>8 DEF Connection

LEMMA ApartAnnounced ==
    ASSUME NEW d, Apart(d), AnnouncedOnce(d)
    PROVE  AnnouncedOnce(d)'
<1>1. "guest" \in Sides /\ "client" \in Sides /\ "data" \in Whats /\ "connected" \in Whats
    BY DEF Sides, Whats
<1>2. \A t \in Sides, w \in Whats : Sent(t, d, w)' = Sent(t, d, w) /\ InHand(t, d, w)' = InHand(t, d, w)
    BY ApartCounts
<1>3. \A t \in Sides : \A p : On(t, d, p)' <=> On(t, d, p)
    BY DEF Apart, On
<1>4. NoneAfter(channel["guest"], Ev(d, "data"), Ev(d, "connected")) =>
          NoneAfter(channel'["guest"], Ev(d, "data"), Ev(d, "connected"))
    BY <1>1 DEF Apart, SameFor
<1>5. QED  BY <1>1, <1>2, <1>3, <1>4 DEF AnnouncedOnce

\* A step of connection c.
LEMMA StepOfConnection ==
    ASSUME ReverseInv, NEW c \in Conns, ReverseShape', PermitsOut', NEW s \in Sides,
           \A d \in Conns : d # c => Apart(d),
           Connection(s, c)', Connection(Opposite(s), c)', AnnouncedOnce(c)'
    PROVE  ReverseInv'
<1>1. ASSUME NEW t \in Sides, NEW d \in Conns PROVE Connection(t, d)'
    <2>1. CASE d = c
        <3>1. t = s \/ t = Opposite(s)
            BY SidesOpposite
        <3>2. CASE t = s
            BY <2>1, <3>2
        <3>3. CASE t = Opposite(s)
            BY <2>1, <3>3
        <3>4. QED  BY <3>1, <3>2, <3>3
    <2>2. CASE d # c
        BY <2>2, ApartKept DEF ReverseInv
    <2>3. QED  BY <2>1, <2>2
<1>2. ASSUME NEW d \in Conns PROVE AnnouncedOnce(d)'
    <2>1. CASE d = c
        BY <2>1
    <2>2. CASE d # c
        BY <2>2, ApartAnnounced DEF ReverseInv
    <2>3. QED  BY <2>1, <2>2
<1>3. QED  BY <1>1, <1>2 DEF ReverseInv

\* g is f but for connection c at side s, which has w there.
SetTo(f, g, R, s, c, w) ==
    /\ g \in [Sides -> [Conns -> R]] /\ g[s][c] = w
    /\ \A t \in Sides, d \in Conns : (t # s \/ d # c) => g[t][d] = f[t][d]

LEMMA SetInPlace ==
    ASSUME NEW R, NEW f \in [Sides -> [Conns -> R]], NEW s \in Sides, NEW c \in Conns, NEW w \in R
    PROVE  SetTo(f, [f EXCEPT ![s][c] = w], R, s, c, w)
BY NestedSet DEF SetTo

LEMMA BridgeSet ==
    ASSUME ReverseShape, NEW s \in Sides, NEW c \in Conns, NEW k \in BridgeStates,
           bridge' = [bridge EXCEPT ![s][c] = k]
    PROVE  SetTo(bridge, bridge', BridgeStates, s, c, k)
BY SetInPlace DEF ReverseShape

LEMMA SocketSet ==
    ASSUME ReverseShape, NEW s \in Sides, NEW c \in Conns, NEW a \in SocketStates,
           socket' = [socket EXCEPT ![s][c] = a]
    PROVE  SetTo(socket, socket', SocketStates, s, c, a)
BY SetInPlace DEF ReverseShape

LEMMA QueueSet ==
    ASSUME ReverseShape, NEW s \in Sides, NEW c \in Conns, NEW q \in Seq(Whats), Len(q) <= QueueCap,
           queue' = [queue EXCEPT ![s][c] = q]
    PROVE  /\ SetTo(queue, queue', Seq(Whats), s, c, q)
           /\ \A t \in Sides, d \in Conns : Len(queue'[t][d]) <= QueueCap
<1>1. SetTo(queue, queue', Seq(Whats), s, c, q)
    BY SetInPlace DEF ReverseShape
<1>2. QED  BY <1>1 DEF ReverseShape, SetTo

\* A permit stays with a connection whose bridge at the guest runs on.
LEMMA PermitsStay ==
    ASSUME PermitsOut, permits' = permits, \A d \in Conns : Runs("guest", d)' <=> Runs("guest", d)
    PROVE  PermitsOut'
<1>1. RunningConns' = RunningConns
    BY DEF RunningConns
<1>2. QED  BY <1>1 DEF PermitsOut

\* A bridge goes on between its socket and its events, none of which it takes or
\* sends on.
GoesOn(s, c, k, a) ==
    /\ bridge[s][c].at \in {"connect", "select", "send", "write"}
    /\ k.at \in {"select", "send", "last"}
    /\ k.writeClosed = bridge[s][c].writeClosed
    /\ bridge[s][c].readClosed => k.readClosed
    /\ k.at = "send" => \/ k.item = "data" /\ ~k.readClosed
                        \/ k.item = "half" /\ k.readClosed
    /\ a.given = socket[s][c].given + (IF On(s, c, "write") /\ k.at # "last" THEN 1 ELSE 0)
    /\ \/ /\ On(s, c, "select") /\ k.at = "send" /\ k.item = "data"
          /\ a.wrote = socket[s][c].wrote + 1 /\ socket[s][c].wrote < MaxWrites(s)
          /\ ~bridge[s][c].readClosed
       \/ /\ ~(k.at = "send" /\ k.item = "data")
          /\ a.wrote = socket[s][c].wrote
          /\ On(s, c, "send") => k.at = "last"
          /\ k.at = "last" => k.readClosed = bridge[s][c].readClosed

LEMMA BridgeMovesKeeps ==
    ASSUME ReverseInv, NEW s \in Sides, NEW c \in Conns,
           NEW k \in BridgeStates, NEW a \in SocketStates,
           SetTo(bridge, bridge', BridgeStates, s, c, k), SetTo(socket, socket', SocketStates, s, c, a),
           UNCHANGED <<session, permits, channel, hand, queue, known>>,
           GoesOn(s, c, k, a), MaxWrites(s) \in Nat
    PROVE  ReverseInv'
<1> DEFINE o == Opposite(s)
           l == bridge[s][c]
<1> USE DEF GoesOn
<1>0. o \in Sides /\ o # s /\ Opposite(o) = s /\ Sides = {s, o}
    BY SidesOpposite
<1>1. /\ bridge' \in [Sides -> [Conns -> BridgeStates]] /\ bridge'[s][c] = k
      /\ \A t \in Sides, d \in Conns : (t # s \/ d # c) => bridge'[t][d] = bridge[t][d]
    BY DEF SetTo
<1>2. /\ socket' \in [Sides -> [Conns -> SocketStates]] /\ socket'[s][c] = a
      /\ \A t \in Sides, d \in Conns : (t # s \/ d # c) => socket'[t][d] = socket[t][d]
    BY DEF SetTo
<1>3. bridge'[o][c] = bridge[o][c] /\ socket'[o][c] = socket[o][c]
    BY <1>0, <1>1, <1>2
<1>4. \A d \in Conns : d # c => Apart(d)
    BY <1>1, <1>2, SameForItself DEF Apart
<1>5. ReverseShape'
    BY <1>1, <1>2 DEF ReverseInv, ReverseShape
<1>6. PermitsOut'
    <2>1. \A d \in Conns : Runs("guest", d)' <=> Runs("guest", d)
        <3> TAKE d \in Conns
        <3>1. CASE d = c /\ s = "guest"
            BY <1>1, <3>1 DEF Runs
        <3>2. CASE ~(d = c /\ s = "guest")
            BY <1>1, <3>2 DEF Runs, Sides
        <3>3. QED  BY <3>1, <3>2
    <2>2. QED  BY <2>1, PermitsStay DEF ReverseInv
<1>7. /\ Connection(s, c) /\ Connection(o, c) /\ AnnouncedOnce(c)
    BY <1>0 DEF ReverseInv
<1>8. \A w : /\ Queued(s, c, w)' = Queued(s, c, w) /\ InHand(s, c, w)' = InHand(s, c, w) /\ Sent(s, c, w)' = Sent(s, c, w)
             /\ Queued(o, c, w)' = Queued(o, c, w) /\ InHand(o, c, w)' = InHand(o, c, w) /\ Sent(o, c, w)' = Sent(o, c, w)
    BY DEF Queued, InHand, Sent
<1>9. /\ \A w : /\ Queued(s, c, w) \in Nat /\ InHand(s, c, w) \in {0, 1} /\ Sent(s, c, w) \in Nat
                /\ Queued(o, c, w) \in Nat /\ InHand(o, c, w) \in {0, 1} /\ Sent(o, c, w) \in Nat
      /\ socket[s][c].wrote \in Nat /\ socket[s][c].given \in Nat
      /\ socket[o][c].wrote \in Nat /\ socket[o][c].given \in Nat
    BY <1>0, ReverseCounts DEF ReverseInv
<1>10. /\ l.at # "none" /\ l.at # "born" /\ l.at # "done" /\ l.at # "last"
       /\ k.at # "none" /\ k.at # "born" /\ k.at # "done" /\ k.at # "write" /\ k.at # "connect"
    OBVIOUS
<1>11. Connection(s, c)'
    <2>1. NoneLost(s, c)'
        <3>1. /\ OnTheirWay(s, c) \in Nat /\ OnTheirWay(s, c)' \in Nat
              /\ OnTheirWay(s, c)' = OnTheirWay(s, c) - (IF On(s, c, "write") THEN 1 ELSE 0)
            BY <1>0, <1>1, <1>3, <1>8, <1>9, <1>10 DEF OnTheirWay, On
        <3>2. CASE k.at = "last"
            BY <1>0, <1>1, <1>2, <1>3, <1>7, <1>8, <1>9, <3>1, <3>2 DEF NoneLost, Connection, Alive, On
        <3>3. CASE k.at # "last"
            <4>1. a.given + OnTheirWay(s, c)' = socket[s][c].given + OnTheirWay(s, c)
                BY <1>9, <3>1, <3>3
            <4>2. QED  BY <1>0, <1>1, <1>2, <1>3, <1>7, <1>8, <1>10, <4>1, <3>3 DEF NoneLost, Connection, Alive, On
        <3>4. QED  BY <3>2, <3>3
    <2>2. EndsLast(s, c)'
        BY <1>0, <1>3, <1>7, <1>8 DEF EndsLast, LastOf, Connection, On
    <2>3. BridgeFits(s, c)'
        <3>1. a.wrote <= MaxWrites(s)
            BY <1>7, <1>9 DEF Connection, BridgeFits
        <3>2. On(s, c, "write") => ~bridge[s][c].writeClosed
            BY <1>7 DEF Connection, BridgeFits
        <3>3. k.writeClosed => bridge[o][c].readClosed /\ a.given = socket[o][c].wrote
            BY <1>7, <1>9, <3>2 DEF Connection, BridgeFits
        <3>4. QED  BY <1>1, <1>2, <1>3, <1>7, <1>10, <3>1, <3>3 DEF Connection, BridgeFits, On
    <2>4. TableFits(s, c)'
        BY <1>0, <1>1, <1>7, <1>8, <1>10 DEF TableFits, Connection, Up, Alive, On
    <2>5. QED  BY <2>1, <2>2, <2>3, <2>4 DEF Connection
<1>12. Connection(o, c)'
    <2>1. NoneLost(o, c)'
        <3> DEFINE y == IF l.at = "send" /\ l.item = "data" THEN 1 ELSE 0
                   z == IF k.at = "send" /\ k.item = "data" THEN 1 ELSE 0
        <3>1. /\ OnTheirWay(o, c) \in Nat /\ OnTheirWay(o, c)' \in Nat
              /\ OnTheirWay(o, c)' = (OnTheirWay(o, c) - y) + z
            BY <1>0, <1>1, <1>3, <1>8, <1>9 DEF OnTheirWay, On
        <3>2. z - y <= a.wrote - socket[s][c].wrote
            BY <1>9 DEF On
        <3>3. (k.readClosed \/ k.at # "last") => z - y = a.wrote - socket[s][c].wrote
            BY <1>7, <1>9 DEF On, Connection, BridgeFits
        <3>4. y \in {0, 1} /\ z \in {0, 1} /\ a.wrote \in Nat
            BY <1>9
        <3> HIDE DEF y, z
        <3>5. socket[o][c].given + OnTheirWay(o, c)' <= a.wrote
            BY <1>0, <1>7, <1>9, <3>1, <3>2, <3>4 DEF NoneLost, Connection
        <3>6. (Alive(o, c) /\ (k.readClosed \/ k.at # "last")) => socket[o][c].given + OnTheirWay(o, c)' = a.wrote
            <4>1. Alive(s, c)
                BY <1>10 DEF Alive
            <4>2. QED  BY <1>0, <1>7, <1>9, <3>1, <3>3, <3>4, <4>1 DEF NoneLost, Connection
        <3>7. QED  BY <1>0, <1>1, <1>2, <1>3, <1>8, <1>10, <3>5, <3>6 DEF NoneLost, Alive, On
    <2>2. EndsLast(o, c)'
        BY <1>0, <1>1, <1>7, <1>8, <1>9, <1>10 DEF EndsLast, LastOf, Connection, On
    <2>3. BridgeFits(o, c)'
        BY <1>0, <1>1, <1>2, <1>3, <1>7 DEF Connection, BridgeFits, On
    <2>4. TableFits(o, c)'
        BY <1>0, <1>3, <1>7, <1>8 DEF TableFits, Connection, Up, Alive, On
    <2>5. QED  BY <2>1, <2>2, <2>3, <2>4 DEF Connection
<1>13. AnnouncedOnce(c)'
    <2>1. \A t \in Sides : (On(t, c, "none")' <=> On(t, c, "none")) /\ (On(t, c, "born")' <=> On(t, c, "born"))
        BY <1>0, <1>1, <1>3, <1>10 DEF On
    <2>2. \A t \in Sides, w \in Whats : Sent(t, c, w)' = Sent(t, c, w) /\ InHand(t, c, w)' = InHand(t, c, w)
        BY DEF Sent, InHand
    <2>3. "guest" \in Sides /\ "client" \in Sides /\ "connected" \in Whats /\ "data" \in Whats
        BY DEF Sides, Whats
    <2>4. ~On("guest", c, "connect") /\ ~On("guest", c, "connect")'
        BY <1>0, <1>1, <1>3, <1>7, <1>10, <2>3 DEF On, AnnouncedOnce
    <2>5. Sent("client", c, "connected") > 0 \/ ~On("client", c, "none") \/ On("guest", c, "none")
             \/ On("guest", c, "born") \/ (On("guest", c, "done") /\ On("guest", c, "done")')
        <3>1. bridge["guest"][c].at \in {"none", "born", "connect", "select", "send", "write", "last", "done"}
            BY <2>3, ReverseCounts DEF ReverseInv, BridgeStates
        <3>2. On("guest", c, "done") => On("guest", c, "done")'
            BY <1>0, <1>3, <1>10, <2>3 DEF On
        <3>3. QED  BY <1>7, <2>4, <3>1, <3>2 DEF AnnouncedOnce, On
    <2>6. QED  BY <1>7, <2>1, <2>2, <2>3, <2>4, <2>5 DEF AnnouncedOnce, On
<1>14. QED  BY <1>4, <1>5, <1>6, <1>11, <1>12, <1>13, StepOfConnection

\* The moves of a bridge that leave the queues and channels alone.
LEMMA ConnectKeeps ==
    ASSUME ReverseInv, ReverseAssumption, NEW c \in Conns, Connects(c) \/ CannotConnect(c)
    PROVE  ReverseInv'
<1> DEFINE l == bridge["client"][c]
           a == socket["client"][c]
<1>1. /\ l \in BridgeStates /\ a \in SocketStates /\ a.given \in Nat /\ "client" \in Sides
      /\ l.at = "connect" /\ MaxWrites("client") \in Nat
    BY ReverseCounts DEF ReverseInv, Sides, Connects, CannotConnect, On, MaxWrites, ReverseAssumption
<1>2. PICK p \in {"select", "last"} : bridge' = [bridge EXCEPT !["client"][c] = [l EXCEPT !.at = p]]
    BY DEF Connects, CannotConnect
<1> DEFINE k == [l EXCEPT !.at = p]
<1>3. /\ k \in BridgeStates /\ k.at = p /\ k.readClosed = l.readClosed /\ k.writeClosed = l.writeClosed
    BY <1>1 DEF BridgeStates
<1>4. socket' = [socket EXCEPT !["client"][c] = a]
    BY DEF Connects, CannotConnect, ReverseInv, ReverseShape
<1>5. UNCHANGED <<session, permits, channel, hand, queue, known>>
    BY DEF Connects, CannotConnect
<1> HIDE DEF k
<1>6. GoesOn("client", c, k, a)
    BY <1>1, <1>2, <1>3, <1>4, <1>5 DEF On, GoesOn, k
<1>7. SetTo(bridge, bridge', BridgeStates, "client", c, k) /\ SetTo(socket, socket', SocketStates, "client", c, a)
    <2>1. ReverseShape /\ bridge' = [bridge EXCEPT !["client"][c] = k]
        BY <1>2 DEF ReverseInv, k
    <2>2. QED  BY <1>1, <1>3, <1>4, <2>1, BridgeSet, SocketSet
<1>8. QED  BY <1>1, <1>2, <1>3, <1>4, <1>5, <1>6, <1>7, BridgeMovesKeeps

LEMMA BridgeReadsKeeps ==
    ASSUME ReverseInv, ReverseAssumption, NEW s \in Sides, NEW c \in Conns, BridgeReads(s, c)
    PROVE  ReverseInv'
<1> DEFINE l == bridge[s][c]
           b == socket[s][c]
<1>1. /\ l \in BridgeStates /\ b \in SocketStates /\ b.given \in Nat /\ b.wrote \in Nat
      /\ l.at = "select" /\ ~l.readClosed /\ MaxWrites(s) \in Nat
      /\ UNCHANGED <<session, permits, channel, hand, queue, known>>
    BY ReverseCounts DEF ReverseInv, BridgeReads, On, MaxWrites, ReverseAssumption
<1>2. socket = [socket EXCEPT ![s][c] = b]
    BY DEF ReverseInv, ReverseShape
<1>3. CASE /\ b.wrote < MaxWrites(s) /\ socket' = [socket EXCEPT ![s][c].wrote = @ + 1]
           /\ bridge' = [bridge EXCEPT ![s][c].at = "send", ![s][c].item = "data"]
    <2> DEFINE k == [l EXCEPT !.at = "send", !.item = "data"]
               a == [b EXCEPT !.wrote = @ + 1]
    <2>1. /\ k \in BridgeStates /\ k.at = "send" /\ k.item = "data"
          /\ k.readClosed = l.readClosed /\ k.writeClosed = l.writeClosed
        BY <1>1 DEF BridgeStates
    <2>2. a \in SocketStates /\ a.wrote = b.wrote + 1 /\ a.given = b.given
        BY <1>1 DEF SocketStates
    <2>3. bridge' = [bridge EXCEPT ![s][c] = k] /\ socket' = [socket EXCEPT ![s][c] = a]
        BY <1>3
    <2> HIDE DEF k, a
    <2>4. GoesOn(s, c, k, a)
        BY <1>1, <1>3, <2>1, <2>2, <2>3 DEF On, GoesOn
    <2>5. SetTo(bridge, bridge', BridgeStates, s, c, k) /\ SetTo(socket, socket', SocketStates, s, c, a)
        BY <1>1, <1>3, <2>1, <2>2, <2>3, <2>4, BridgeSet, SocketSet DEF ReverseInv
    <2>6. QED  BY <1>1, <1>3, <2>1, <2>2, <2>3, <2>4, <2>5, BridgeMovesKeeps
<1>4. CASE /\ bridge' = [bridge EXCEPT ![s][c].at = "send", ![s][c].item = "half", ![s][c].readClosed = TRUE]
           /\ UNCHANGED socket
    <2>0. UNCHANGED socket
        BY <1>4
    <2> DEFINE k == [l EXCEPT !.at = "send", !.item = "half", !.readClosed = TRUE]
    <2>1. /\ k \in BridgeStates /\ k.at = "send" /\ k.item = "half"
          /\ k.readClosed /\ k.writeClosed = l.writeClosed
        BY <1>1 DEF BridgeStates
    <2>2. bridge' = [bridge EXCEPT ![s][c] = k] /\ socket' = [socket EXCEPT ![s][c] = b]
        <3> DEFINE j == [l EXCEPT !.at = "send", !.item = "half"]
                   g == [bridge EXCEPT ![s][c].at = "send", ![s][c].item = "half"]
        <3>1. g = [bridge EXCEPT ![s][c] = j] /\ g[s][c] = j /\ k = [j EXCEPT !.readClosed = TRUE]
            BY DEF ReverseInv, ReverseShape
        <3>2. bridge' = [g EXCEPT ![s][c].readClosed = TRUE]
            BY <1>4
        <3> HIDE DEF j, k, g
        <3>3. bridge' = [g EXCEPT ![s][c] = k]
            BY <3>1, <3>2
        <3>4. bridge' = [bridge EXCEPT ![s][c] = k]
            BY <3>1, <3>3
        <3>5. socket' = [socket EXCEPT ![s][c] = b]
            BY <1>2, <2>0
        <3>6. QED  BY <3>4, <3>5
    <2> HIDE DEF k
    <2>3. GoesOn(s, c, k, b)
        BY <1>1, <2>1, <2>2 DEF On, GoesOn
    <2>4. SetTo(bridge, bridge', BridgeStates, s, c, k) /\ SetTo(socket, socket', SocketStates, s, c, b)
        BY <1>1, <2>1, <2>2, <2>3, BridgeSet, SocketSet DEF ReverseInv
    <2>5. QED  BY <1>1, <2>1, <2>2, <2>3, <2>4, BridgeMovesKeeps
<1>5. CASE bridge' = [bridge EXCEPT ![s][c].at = "last"] /\ UNCHANGED socket
    <2> DEFINE k == [l EXCEPT !.at = "last"]
    <2>1. /\ k \in BridgeStates /\ k.at = "last"
          /\ k.readClosed = l.readClosed /\ k.writeClosed = l.writeClosed
        BY <1>1 DEF BridgeStates
    <2>2. bridge' = [bridge EXCEPT ![s][c] = k] /\ socket' = [socket EXCEPT ![s][c] = b]
        BY <1>2, <1>5
    <2> HIDE DEF k
    <2>3. GoesOn(s, c, k, b)
        BY <1>1, <2>1, <2>2 DEF On, GoesOn
    <2>4. SetTo(bridge, bridge', BridgeStates, s, c, k) /\ SetTo(socket, socket', SocketStates, s, c, b)
        BY <1>1, <2>1, <2>2, <2>3, BridgeSet, SocketSet DEF ReverseInv
    <2>5. QED  BY <1>1, <2>1, <2>2, <2>3, <2>4, BridgeMovesKeeps
<1>6. QED  BY <1>3, <1>4, <1>5 DEF BridgeReads

LEMMA BridgeWritesKeeps ==
    ASSUME ReverseInv, ReverseAssumption, NEW s \in Sides, NEW c \in Conns, BridgeWrites(s, c)
    PROVE  ReverseInv'
<1> DEFINE l == bridge[s][c]
           b == socket[s][c]
<1>1. /\ l \in BridgeStates /\ b \in SocketStates /\ b.given \in Nat /\ b.wrote \in Nat
      /\ l.at = "write" /\ MaxWrites(s) \in Nat
      /\ UNCHANGED <<session, permits, channel, hand, queue, known>>
    BY ReverseCounts DEF ReverseInv, BridgeWrites, On, MaxWrites, ReverseAssumption
<1>2. socket = [socket EXCEPT ![s][c] = b]
    BY DEF ReverseInv, ReverseShape
<1>3. CASE socket' = [socket EXCEPT ![s][c].given = @ + 1] /\ bridge' = [bridge EXCEPT ![s][c].at = "select"]
    <2> DEFINE k == [l EXCEPT !.at = "select"]
               a == [b EXCEPT !.given = @ + 1]
    <2>1. /\ k \in BridgeStates /\ k.at = "select"
          /\ k.readClosed = l.readClosed /\ k.writeClosed = l.writeClosed
        BY <1>1 DEF BridgeStates
    <2>2. a \in SocketStates /\ a.wrote = b.wrote /\ a.given = b.given + 1
        BY <1>1 DEF SocketStates
    <2>3. bridge' = [bridge EXCEPT ![s][c] = k] /\ socket' = [socket EXCEPT ![s][c] = a]
        BY <1>3
    <2> HIDE DEF k, a
    <2>4. GoesOn(s, c, k, a)
        BY <1>1, <2>1, <2>2, <2>3 DEF On, GoesOn
    <2>5. SetTo(bridge, bridge', BridgeStates, s, c, k) /\ SetTo(socket, socket', SocketStates, s, c, a)
        BY <1>1, <2>1, <2>2, <2>3, <2>4, BridgeSet, SocketSet DEF ReverseInv
    <2>6. QED  BY <1>1, <2>1, <2>2, <2>3, <2>4, <2>5, BridgeMovesKeeps
<1>4. CASE bridge' = [bridge EXCEPT ![s][c].at = "last"] /\ UNCHANGED socket
    <2> DEFINE k == [l EXCEPT !.at = "last"]
    <2>1. /\ k \in BridgeStates /\ k.at = "last"
          /\ k.readClosed = l.readClosed /\ k.writeClosed = l.writeClosed
        BY <1>1 DEF BridgeStates
    <2>2. bridge' = [bridge EXCEPT ![s][c] = k] /\ socket' = [socket EXCEPT ![s][c] = b]
        BY <1>4, <1>2
    <2> HIDE DEF k
    <2>3. GoesOn(s, c, k, b)
        BY <1>1, <2>1, <2>2 DEF On, GoesOn
    <2>4. SetTo(bridge, bridge', BridgeStates, s, c, k) /\ SetTo(socket, socket', SocketStates, s, c, b)
        BY <1>1, <2>1, <2>2, <2>3, BridgeSet, SocketSet DEF ReverseInv
    <2>5. QED  BY <1>1, <2>1, <2>2, <2>3, <2>4, BridgeMovesKeeps
<1>5. QED  BY <1>3, <1>4 DEF BridgeWrites

LEMMA BothClosedKeeps ==
    ASSUME ReverseInv, ReverseAssumption, NEW s \in Sides, NEW c \in Conns, BothClosed(s, c)
    PROVE  ReverseInv'
<1> DEFINE l == bridge[s][c]
           b == socket[s][c]
           k == [l EXCEPT !.at = "last"]
<1>1. /\ l \in BridgeStates /\ b \in SocketStates /\ b.given \in Nat /\ b.wrote \in Nat
      /\ l.at = "select" /\ MaxWrites(s) \in Nat
      /\ UNCHANGED <<session, permits, channel, hand, queue, known>>
    BY ReverseCounts DEF ReverseInv, BothClosed, On, MaxWrites, ReverseAssumption
<1>2. /\ k \in BridgeStates /\ k.at = "last"
      /\ k.readClosed = l.readClosed /\ k.writeClosed = l.writeClosed
    BY <1>1 DEF BridgeStates
<1>3. bridge' = [bridge EXCEPT ![s][c] = k] /\ socket' = [socket EXCEPT ![s][c] = b]
    BY DEF ReverseInv, ReverseShape, BothClosed
<1> HIDE DEF k
<1>4. GoesOn(s, c, k, b)
    BY <1>1, <1>2, <1>3 DEF On, GoesOn
<1>5. SetTo(bridge, bridge', BridgeStates, s, c, k) /\ SetTo(socket, socket', SocketStates, s, c, b)
    BY <1>1, <1>2, <1>3, <1>4, BridgeSet, SocketSet DEF ReverseInv
<1>6. QED  BY <1>1, <1>2, <1>3, <1>4, <1>5, BridgeMovesKeeps

\* Side s sends, or the loop opposite to it takes, an event of connection c.
ChannelGains(s, c, x) ==
    /\ channel' \in [Sides -> Seq(ConnEvents)] /\ \A t \in Sides : Len(channel'[t]) <= ChanCap
    /\ \A t \in Sides, d \in Conns : (t # s \/ d # c) => SameFor(channel[t], channel'[t], d)
    /\ \A w \in Whats : InQueue(channel'[s], Ev(c, w)) = InQueue(channel[s], Ev(c, w)) + (IF w = x THEN 1 ELSE 0)
    /\ \A y, z \in Whats :
          (NoneAfter(channel[s], Ev(c, y), Ev(c, z)) /\ (z # x \/ InQueue(channel[s], Ev(c, y)) = 0)) =>
              NoneAfter(channel'[s], Ev(c, y), Ev(c, z))

ChannelLoses(s, c, x) ==
    /\ channel' \in [Sides -> Seq(ConnEvents)] /\ \A t \in Sides : Len(channel'[t]) <= ChanCap
    /\ \A t \in Sides, d \in Conns : (t # s \/ d # c) => SameFor(channel[t], channel'[t], d)
    /\ \A w \in Whats : InQueue(channel'[s], Ev(c, w)) = InQueue(channel[s], Ev(c, w)) - (IF w = x THEN 1 ELSE 0)
    /\ InQueue(channel[s], Ev(c, x)) > 0
    /\ \A y, z \in Whats :
          NoneAfter(channel[s], Ev(c, y), Ev(c, z)) =>
              /\ NoneAfter(channel'[s], Ev(c, y), Ev(c, z))
              /\ y = x => InQueue(channel'[s], Ev(c, z)) = 0

LEMMA EventSent ==
    ASSUME ReverseShape, ReverseAssumption, NEW s \in Sides, NEW c \in Conns, NEW x \in Whats, Roomy(s),
           channel' = [channel EXCEPT ![s] = Append(@, Ev(c, x))]
    PROVE  ChannelGains(s, c, x)
<1> DEFINE q == channel[s]
           r == Append(channel[s], Ev(c, x))
<1>1. channel \in [Sides -> Seq(ConnEvents)] /\ q \in Seq(ConnEvents) /\ \A t \in Sides : Len(channel[t]) <= ChanCap
    BY DEF ReverseShape
<1>2. Ev(c, x) \in ConnEvents /\ Ev(c, x).conn = c
    BY DEF Ev, ConnEvents
<1>3. r \in Seq(ConnEvents) /\ Len(q) \in Nat /\ Len(r) = Len(q) + 1
    BY <1>1, <1>2, AppendedPlaces
<1>4. Len(r) <= ChanCap
    BY <1>3 DEF Roomy, ReverseAssumption
<1>5. \A d \in Conns : d # c => SameFor(q, r, d)
    BY <1>1, <1>2, OtherAppended
<1>6. \A w : Ev(c, w) = Ev(c, x) <=> w = x
    BY DEF Ev
<1>7. \A w \in Whats : InQueue(r, Ev(c, w)) = InQueue(q, Ev(c, w)) + (IF w = x THEN 1 ELSE 0)
    <2> TAKE w \in Whats
    <2>1. InQueue(r, Ev(c, w)) = InQueue(q, Ev(c, w)) + (IF Ev(c, x) = Ev(c, w) THEN 1 ELSE 0)
        BY <1>1, <1>2, CopiesAppended
    <2>2. QED  BY <1>6, <2>1
<1>8. \A y, z \in Whats :
          (NoneAfter(q, Ev(c, y), Ev(c, z)) /\ (z # x \/ InQueue(q, Ev(c, y)) = 0)) => NoneAfter(r, Ev(c, y), Ev(c, z))
    BY <1>1, <1>2, <1>6, NoneAfterAppended
<1> HIDE DEF r
<1>9. channel'[s] = r /\ channel' \in [Sides -> Seq(ConnEvents)] /\ \A t \in Sides : t # s => channel'[t] = channel[t]
    BY <1>1, <1>3 DEF r
<1>10. \A t \in Sides : Len(channel'[t]) <= ChanCap
    BY <1>1, <1>4, <1>9
<1>11. ASSUME NEW t \in Sides, NEW d \in Conns, t # s \/ d # c PROVE SameFor(channel[t], channel'[t], d)
    <2>1. CASE t = s
        BY <1>5, <1>9, <1>11, <2>1
    <2>2. CASE t # s
        BY <1>9, <2>2, SameForItself
    <2>3. QED  BY <2>1, <2>2
<1>12. QED  BY <1>7, <1>8, <1>9, <1>10, <1>11 DEF ChannelGains

LEMMA EventArrives ==
    ASSUME ReverseShape, ReverseAssumption, NEW s \in Sides, channel[s] # <<>>,
           channel' = [channel EXCEPT ![s] = Tail(@)]
    PROVE  /\ Head(channel[s]) \in ConnEvents
           /\ Head(channel[s]) = Ev(Head(channel[s]).conn, Head(channel[s]).what)
           /\ Head(channel[s]).conn \in Conns /\ Head(channel[s]).what \in Whats
           /\ ChannelLoses(s, Head(channel[s]).conn, Head(channel[s]).what)
<1> DEFINE q == channel[s]
           r == Tail(channel[s])
           e == Head(channel[s])
           c == e.conn
           x == e.what
<1>1. channel \in [Sides -> Seq(ConnEvents)] /\ q \in Seq(ConnEvents) /\ \A t \in Sides : Len(channel[t]) <= ChanCap
    BY DEF ReverseShape
<1>2. /\ r \in Seq(ConnEvents) /\ Len(q) \in Nat /\ Len(r) = Len(q) - 1 /\ e = q[1] /\ e \in ConnEvents
      /\ 1 \in 1 .. Len(q)
    BY <1>1, TailPlaces
<1>3. c \in Conns /\ x \in Whats /\ e = Ev(c, x)
    BY <1>2 DEF Ev, ConnEvents
<1>4. Len(r) <= ChanCap
    BY <1>1, <1>2 DEF ReverseAssumption
<1>5. \A d \in Conns : d # c => SameFor(q, r, d)
    BY <1>1, OtherTaken
<1>6. \A w : Ev(c, w) = e <=> w = x
    BY <1>3 DEF Ev
<1>7. \A w \in Whats : InQueue(r, Ev(c, w)) = InQueue(q, Ev(c, w)) - (IF w = x THEN 1 ELSE 0)
    <2> TAKE w \in Whats
    <2>1. InQueue(r, Ev(c, w)) = InQueue(q, Ev(c, w)) - (IF e = Ev(c, w) THEN 1 ELSE 0)
        BY <1>1, CopiesTaken
    <2>2. QED  BY <1>6, <2>1
<1>8. \A y, z \in Whats : NoneAfter(q, Ev(c, y), Ev(c, z)) =>
          NoneAfter(r, Ev(c, y), Ev(c, z)) /\ (y = x => InQueue(r, Ev(c, z)) = 0)
    BY <1>1, <1>6, NoneAfterTaken
<1>9. InQueue(q, Ev(c, x)) > 0
    BY <1>1, <1>2, <1>3, SomeCopy
<1> HIDE DEF r, e, c, x
<1>10. channel'[s] = r /\ channel' \in [Sides -> Seq(ConnEvents)] /\ \A t \in Sides : t # s => channel'[t] = channel[t]
    BY <1>1, <1>2 DEF r
<1>11. \A t \in Sides : Len(channel'[t]) <= ChanCap
    BY <1>1, <1>4, <1>10
<1>12. ASSUME NEW t \in Sides, NEW d \in Conns, t # s \/ d # c PROVE SameFor(channel[t], channel'[t], d)
    <2>1. CASE t = s
        BY <1>5, <1>10, <1>12, <2>1
    <2>2. CASE t # s
        BY <1>10, <2>2, SameForItself
    <2>3. QED  BY <2>1, <2>2
<1>13. ChannelLoses(s, c, x)
    BY <1>7, <1>8, <1>9, <1>10, <1>11, <1>12 DEF ChannelLoses
<1>14. QED  BY <1>2, <1>3, <1>13 DEF e, c, x

\* What is known of connection c at its two sides.
LEMMA ConnectionFacts ==
    ASSUME ReverseInv, NEW s \in Sides, NEW c \in Conns
    PROVE  /\ Opposite(s) \in Sides /\ Opposite(s) # s /\ Opposite(Opposite(s)) = s /\ Sides = {s, Opposite(s)}
           /\ ReverseShape /\ PermitsOut
           /\ Connection(s, c) /\ Connection(Opposite(s), c) /\ AnnouncedOnce(c)
           /\ bridge[s][c] \in BridgeStates /\ bridge[Opposite(s)][c] \in BridgeStates
           /\ socket[s][c] \in SocketStates
           /\ socket[s][c].wrote \in Nat /\ socket[s][c].given \in Nat
           /\ socket[Opposite(s)][c].wrote \in Nat /\ socket[Opposite(s)][c].given \in Nat
           /\ queue[s][c] \in Seq(Whats) /\ Len(queue[s][c]) <= QueueCap
           /\ \A t \in {s, Opposite(s)}, w \in Whats :
                 Queued(t, c, w) \in Nat /\ Sent(t, c, w) \in Nat /\ InHand(t, c, w) \in {0, 1}
<1>1. Opposite(s) \in Sides /\ Opposite(s) # s /\ Opposite(Opposite(s)) = s /\ Sides = {s, Opposite(s)}
    BY SidesOpposite
<1>2. ReverseShape
    BY DEF ReverseInv
<1>3. QED  BY <1>1, <1>2, ReverseCounts DEF ReverseInv

LEMMA BridgeSendsKeeps ==
    ASSUME ReverseInv, ReverseAssumption, NEW s \in Sides, NEW c \in Conns, BridgeSends(s, c)
    PROVE  ReverseInv'
<1> DEFINE o == Opposite(s)
           l == bridge[s][c]
           x == bridge[s][c].item
           b == socket[s][c]
<1>1. /\ o \in Sides /\ o # s /\ Opposite(o) = s /\ Sides = {s, o} /\ ReverseShape /\ PermitsOut
      /\ Connection(s, c) /\ Connection(o, c) /\ AnnouncedOnce(c)
      /\ l \in BridgeStates /\ bridge[o][c] \in BridgeStates /\ b \in SocketStates
      /\ b.wrote \in Nat /\ b.given \in Nat /\ socket[o][c].wrote \in Nat /\ socket[o][c].given \in Nat
      /\ \A t \in Sides, w \in Whats :
             Queued(t, c, w) \in Nat /\ Sent(t, c, w) \in Nat /\ InHand(t, c, w) \in {0, 1}
    BY ConnectionFacts
<1>2. l.at = "send" /\ On(s, c, "send")
    BY DEF BridgeSends, On
<1>3. \/ x = "data" /\ ~l.readClosed
      \/ x = "half" /\ l.readClosed
    BY <1>1, <1>2 DEF Connection, BridgeFits
<1>4. UNCHANGED <<session, permits, hand, queue, known, socket>>
    BY DEF BridgeSends
<1>5. CASE ~Heard(s) /\ bridge' = [bridge EXCEPT ![s][c].at = "last", ![s][c].item = "none"] /\ UNCHANGED channel
    <2> DEFINE k == [l EXCEPT !.at = "last", !.item = "none"]
    <2>1. /\ k \in BridgeStates /\ k.at = "last" /\ k.item = "none"
          /\ k.readClosed = l.readClosed /\ k.writeClosed = l.writeClosed
        BY <1>1 DEF BridgeStates
    <2>2. bridge' = [bridge EXCEPT ![s][c] = k] /\ socket' = [socket EXCEPT ![s][c] = b]
        BY <1>1, <1>4, <1>5 DEF ReverseShape
    <2> HIDE DEF k
    <2>3. GoesOn(s, c, k, b)
        BY <1>1, <1>2, <2>1 DEF On, GoesOn
    <2>4. SetTo(bridge, bridge', BridgeStates, s, c, k) /\ SetTo(socket, socket', SocketStates, s, c, b)
        BY <1>1, <2>1, <2>2, BridgeSet, SocketSet
    <2>5. MaxWrites(s) \in Nat
        BY DEF MaxWrites, ReverseAssumption
    <2>6. QED  BY <1>1, <1>4, <1>5, <2>1, <2>3, <2>4, <2>5, BridgeMovesKeeps
<1>6. CASE /\ Roomy(s) /\ channel' = [channel EXCEPT ![s] = Append(@, Ev(c, bridge[s][c].item))]
           /\ bridge' = [bridge EXCEPT ![s][c].at = "select", ![s][c].item = "none"]
    <2> DEFINE k == [l EXCEPT !.at = "select", !.item = "none"]
    <2>1. /\ k \in BridgeStates /\ k.at = "select" /\ k.item = "none"
          /\ k.readClosed = l.readClosed /\ k.writeClosed = l.writeClosed
        BY <1>1 DEF BridgeStates
    <2>2. bridge' = [bridge EXCEPT ![s][c] = k]
        BY <1>6
    <2> HIDE DEF k
    <2>3. SetTo(bridge, bridge', BridgeStates, s, c, k)
        BY <1>1, <2>1, <2>2, BridgeSet
    <2>4. x \in Whats
        BY <1>3 DEF Whats
    <2>5. ChannelGains(s, c, x)
        BY <1>1, <1>6, <2>4, EventSent
    <2>6. /\ bridge'[s][c] = k /\ bridge'[o][c] = bridge[o][c]
          /\ \A t \in Sides, d \in Conns : d # c => bridge'[t][d] = bridge[t][d]
        BY <1>1, <2>3 DEF SetTo
    <2>7. \A t \in Sides, w \in Whats : Queued(t, c, w)' = Queued(t, c, w) /\ InHand(t, c, w)' = InHand(t, c, w)
        BY <1>4 DEF Queued, InHand
    <2>8. \A w \in Whats : Sent(s, c, w)' = Sent(s, c, w) /\ Sent(o, c, w)' = Sent(o, c, w) + (IF w = x THEN 1 ELSE 0)
        BY <1>1, <2>5 DEF Sent, ChannelGains, SameFor
    <2>9. /\ \A y, z \in Whats : NoneAfter(channel[o], Ev(c, y), Ev(c, z)) => NoneAfter(channel'[o], Ev(c, y), Ev(c, z))
          /\ \A y, z \in Whats :
                (NoneAfter(channel[s], Ev(c, y), Ev(c, z)) /\ (z # x \/ Sent(o, c, y) = 0)) =>
                    NoneAfter(channel'[s], Ev(c, y), Ev(c, z))
        BY <1>1, <2>5 DEF ChannelGains, SameFor, Sent
    <2>10. \A d \in Conns : d # c => Apart(d)
        BY <1>4, <2>5, <2>6 DEF Apart, ChannelGains
    <2>11. ReverseShape'
        BY <1>1, <1>4, <2>3, <2>5 DEF ReverseShape, SetTo, ChannelGains
    <2>12. PermitsOut'
        <3>1. \A d \in Conns : Runs("guest", d)' <=> Runs("guest", d)
            <4> TAKE d \in Conns
            <4>1. "guest" \in Sides
                BY DEF Sides
            <4>2. CASE d = c /\ s = "guest"
                BY <1>2, <2>1, <2>6, <4>2 DEF Runs
            <4>3. CASE ~(d = c /\ s = "guest")
                BY <1>1, <2>6, <4>1, <4>3 DEF Runs
            <4>4. QED  BY <4>2, <4>3
        <3>2. QED  BY <1>1, <1>4, <3>1, PermitsStay
    <2>13. "data" \in Whats /\ "half" \in Whats /\ "close" \in Whats /\ "connected" \in Whats
        BY DEF Whats
    <2>14. Connection(s, c)'
        <3>1. OnTheirWay(s, c)' = OnTheirWay(s, c)
            BY <1>1, <1>2, <2>1, <2>6, <2>7, <2>8, <2>13 DEF OnTheirWay, On
        <3>2. NoneLost(s, c)'
            BY <1>1, <1>2, <1>4, <2>1, <2>6, <2>8, <2>13, <3>1 DEF NoneLost, Connection, Alive, On
        <3>3. EndsLast(s, c)'
            BY <1>1, <1>4, <2>6, <2>7, <2>8, <2>9, <2>13 DEF EndsLast, LastOf, Connection, On
        <3>4. BridgeFits(s, c)'
            BY <1>1, <1>2, <1>4, <2>1, <2>6 DEF Connection, BridgeFits, On
        <3>5. TableFits(s, c)'
            BY <1>1, <1>2, <1>4, <2>1, <2>6, <2>7, <2>13 DEF TableFits, Connection, Up, Alive, On
        <3>6. QED  BY <3>2, <3>3, <3>4, <3>5 DEF Connection
    <2>15. Connection(o, c)'
        <3>1. OnTheirWay(o, c)' = OnTheirWay(o, c)
            BY <1>1, <1>2, <1>3, <2>1, <2>6, <2>7, <2>8, <2>13 DEF OnTheirWay, On
        <3>2. NoneLost(o, c)'
            BY <1>1, <1>2, <1>4, <2>1, <2>6, <2>8, <2>13, <3>1 DEF NoneLost, Connection, Alive, On
        <3>3. x = "data" => /\ Queued(o, c, "half") = 0 /\ InHand(o, c, "half") = 0 /\ Sent(o, c, "half") = 0
            BY <1>1, <1>3, <2>13 DEF EndsLast, Connection
        <3>4. Queued(o, c, "close") = 0 /\ InHand(o, c, "close") = 0 /\ Sent(o, c, "close") = 0
            BY <1>1, <1>2, <2>13 DEF EndsLast, Connection, On
        <3>5. EndsLast(o, c)'
            <4>1. LastOf(o, c, "half")' /\ LastOf(o, c, "close")'
                BY <1>1, <1>3, <1>4, <2>7, <2>8, <2>9, <2>13, <3>3, <3>4 DEF EndsLast, LastOf, Connection
            <4>2. QED  BY <1>1, <1>3, <2>1, <2>6, <2>7, <2>8, <2>13, <3>3, <3>4, <4>1 DEF EndsLast, Connection, On
        <3>6. BridgeFits(o, c)'
            BY <1>1, <1>4, <2>1, <2>6 DEF Connection, BridgeFits, On
        <3>7. TableFits(o, c)'
            BY <1>1, <1>4, <2>6, <2>7, <2>13 DEF TableFits, Connection, Up, Alive, On
        <3>8. QED  BY <3>2, <3>5, <3>6, <3>7 DEF Connection
    <2>16. AnnouncedOnce(c)'
        <3>1. /\ \A t \in Sides : (On(t, c, "none")' <=> On(t, c, "none")) /\ (On(t, c, "born")' <=> On(t, c, "born"))
              /\ \A t \in Sides : On(t, c, "connect")' <=> On(t, c, "connect")
            BY <1>1, <1>2, <2>1, <2>6 DEF On
        <3>2. "guest" \in Sides /\ "client" \in Sides
            BY DEF Sides
        <3>3. \A t \in Sides : Sent(t, c, "connected")' = Sent(t, c, "connected") /\ InHand(t, c, "connected")' = InHand(t, c, "connected")
            BY <1>1, <1>3, <2>7, <2>8, <2>13
        <3>4. CASE s = "guest"
            <4>1. o = "client"
                BY <1>1, <3>4 DEF Opposite
            <4>2. Sent("client", c, "connected") > 0 \/ ~On("client", c, "none")
                BY <1>1, <1>2, <3>4 DEF AnnouncedOnce
            <4>3. NoneAfter(channel'["guest"], Ev(c, "data"), Ev(c, "connected"))
                BY <1>1, <1>3, <2>9, <2>13, <3>4 DEF AnnouncedOnce
            <4>4. QED  BY <1>1, <1>2, <3>1, <3>2, <3>3, <3>4, <4>2, <4>3 DEF AnnouncedOnce
        <3>5. CASE s = "client"
            <4>1. o = "guest"
                BY <1>1, <3>5 DEF Opposite
            <4>2. /\ Sent("client", c, "data")' = Sent("client", c, "data")
                  /\ \A p : On("guest", c, p)' <=> On("guest", c, p)
                BY <2>6, <2>8, <2>13, <3>5, <4>1 DEF On
            <4>3. NoneAfter(channel'["guest"], Ev(c, "data"), Ev(c, "connected"))
                BY <1>1, <2>9, <2>13, <4>1 DEF AnnouncedOnce
            <4>4. QED  BY <1>1, <3>1, <3>2, <3>3, <4>2, <4>3 DEF AnnouncedOnce
        <3>6. QED  BY <3>4, <3>5 DEF Sides
    <2>17. QED  BY <2>10, <2>11, <2>12, <2>14, <2>15, <2>16, StepOfConnection
<1>7. QED  BY <1>5, <1>6 DEF BridgeSends, Sendable


\* The hand of a loop.
LEMMA HandSet ==
    ASSUME ReverseShape, NEW s \in Sides, NEW e \in ConnEvents \cup {NoEvent}, hand' = [hand EXCEPT ![s] = e]
    PROVE  hand' \in [Sides -> ConnEvents \cup {NoEvent}] /\ hand'[s] = e /\ \A t \in Sides : t # s => hand'[t] = hand[t]
BY DEF ReverseShape

LEMMA HandHolds ==
    ASSUME ReverseShape, NEW s \in Sides, hand[s].what \in Whats
    PROVE  /\ hand[s] \in ConnEvents /\ hand[s] = Ev(hand[s].conn, hand[s].what) /\ hand[s].conn \in Conns
           /\ \A d, w : InHand(s, d, w) = IF d = hand[s].conn /\ w = hand[s].what THEN 1 ELSE 0
<1>1. hand[s] # NoEvent
    BY DEF NoEvent, Whats
<1>2. hand[s] \in ConnEvents
    BY <1>1 DEF ReverseShape
<1>3. hand[s] = Ev(hand[s].conn, hand[s].what) /\ hand[s].conn \in Conns
    BY <1>2 DEF ConnEvents, Ev
<1>4. \A d, w : hand[s] = Ev(d, w) <=> (d = hand[s].conn /\ w = hand[s].what)
    BY <1>3 DEF Ev
<1>5. QED  BY <1>2, <1>3, <1>4 DEF InHand

LEMMA HandEmpty == ASSUME NEW d, NEW w \in Whats PROVE NoEvent # Ev(d, w)
BY DEF NoEvent, Ev, Whats

LEMMA HandedOverKeeps ==
    ASSUME ReverseInv, ReverseAssumption, NEW s \in Sides, HandedOver(s)
    PROVE  ReverseInv'
<1> DEFINE o == Opposite(s)
<1>0. ReverseShape /\ hand[s].what \in {"data", "half", "close"}
    BY DEF ReverseInv, HandedOver
<1>1. hand[s].what \in Whats
    BY <1>0 DEF Whats
<1>1a. /\ hand[s].conn \in Conns
      /\ \A d, w : InHand(s, d, w) = IF d = hand[s].conn /\ w = hand[s].what THEN 1 ELSE 0
    BY <1>0, <1>1, HandHolds
<1>1b. PICK c \in Conns, x \in Whats :
          /\ c = hand[s].conn /\ x = hand[s].what /\ x \in {"data", "half", "close"}
    BY <1>0, <1>1, <1>1a
<1>2. hand[s] = Ev(c, x) /\ \A d, w : InHand(s, d, w) = IF d = c /\ w = x THEN 1 ELSE 0
    BY <1>0, <1>1, <1>1a, <1>1b, HandHolds
<1>1c. c \in Conns /\ (x = "data" \/ x = "half" \/ x = "close")
    BY <1>1b
<1>2a. \A w \in Whats : InHand(s, c, w) = IF w = x THEN 1 ELSE 0
    BY <1>2
<1>3. UNCHANGED <<session, permits, channel, bridge, socket>>
    BY DEF HandedOver
<1>3a. /\ hand' = [hand EXCEPT ![s] = NoEvent]
      /\ \/ /\ Runs(s, c) /\ Len(queue[s][c]) < QueueCap
            /\ queue' = [queue EXCEPT ![s][c] = Append(@, x)]
            /\ known' = IF s = "client" /\ x = "close" THEN [known EXCEPT ![s] = @ \ {c}] ELSE known
         \/ /\ ~Runs(s, c)
            /\ known' = [known EXCEPT ![s] = @ \ {c}]
            /\ UNCHANGED queue
    BY <1>1b DEF HandedOver
<1>4. /\ o \in Sides /\ o # s /\ Opposite(o) = s /\ Sides = {s, o} /\ PermitsOut
      /\ Connection(s, c) /\ Connection(o, c) /\ AnnouncedOnce(c)
      /\ bridge[s][c] \in BridgeStates
      /\ socket[s][c].wrote \in Nat /\ socket[s][c].given \in Nat
      /\ socket[o][c].wrote \in Nat /\ socket[o][c].given \in Nat
      /\ \A t \in Sides, w \in Whats :
             Queued(t, c, w) \in Nat /\ Sent(t, c, w) \in Nat /\ InHand(t, c, w) \in {0, 1}
    BY <1>1c, <1>2, ConnectionFacts
<1>4a. queue[s][c] \in Seq(Whats) /\ Len(queue[s][c]) <= QueueCap
    BY <1>0, <1>1b, ReverseCounts
<1>5. "data" \in Whats /\ "half" \in Whats /\ "close" \in Whats /\ "connected" \in Whats
    BY DEF Whats
<1>6. /\ hand' \in [Sides -> ConnEvents \cup {NoEvent}] /\ hand'[s] = NoEvent
      /\ hand'[o] = hand[o]
    BY <1>0, <1>3a, <1>4, HandSet
<1>7. \A d \in Conns, w \in Whats : InHand(s, d, w)' = 0 /\ InHand(o, d, w)' = InHand(o, d, w)
    BY <1>6, HandEmpty DEF InHand
<1>7a. \A w \in Whats : InHand(s, c, w)' = 0 /\ InHand(o, c, w)' = InHand(o, c, w)
    BY <1>7
<1>8. \A t \in Sides : \A d, w : Sent(t, d, w)' = Sent(t, d, w) /\ (On(t, d, w)' <=> On(t, d, w))
    BY <1>3 DEF Sent, On
<1>9. PermitsOut'
    BY <1>3, <1>4, PermitsStay DEF Runs
<1>10. AnnouncedOnce(c)'
    BY <1>0, <1>1c, <1>2a, <1>3, <1>4, <1>5, <1>7a, <1>8 DEF AnnouncedOnce, Sides
<1>11. \A d \in Conns, w \in Whats : d # c => (hand'[s] = Ev(d, w) <=> hand[s] = Ev(d, w))
    BY <1>1c, <1>2, <1>6, HandEmpty DEF Ev
<1>12. CASE /\ Runs(s, c) /\ Len(queue[s][c]) < QueueCap
            /\ queue' = [queue EXCEPT ![s][c] = Append(@, x)]
            /\ known' = IF s = "client" /\ x = "close" THEN [known EXCEPT ![s] = @ \ {c}] ELSE known
    <2> DEFINE q == Append(queue[s][c], x)
    <2>1. q \in Seq(Whats) /\ Len(q) <= QueueCap
        BY <1>1b, <1>4a, <1>12, AppendedPlaces DEF ReverseAssumption
    <2>2. queue' = [queue EXCEPT ![s][c] = q]
        BY <1>12
    <2>3. \A w : InQueue(q, w) = InQueue(queue[s][c], w) + (IF w = x THEN 1 ELSE 0)
        BY <1>1c, <1>4, <1>4a, <1>1b, CopiesAppended
    <2>4. \A y, z : (NoneAfter(queue[s][c], y, z) /\ (x # z \/ InQueue(queue[s][c], y) = 0)) => NoneAfter(q, y, z)
        BY <1>1c, <1>4, <1>5, <1>4a, NoneAfterAppended
    <2> HIDE DEF q
    <2>5. SetTo(queue, queue', Seq(Whats), s, c, q) /\ \A t \in Sides, d \in Conns : Len(queue'[t][d]) <= QueueCap
        BY <1>0, <1>1c, <1>2, <2>1, <2>2, QueueSet
    <2>6. queue'[s][c] = q /\ \A t \in Sides, d \in Conns : (t # s \/ d # c) => queue'[t][d] = queue[t][d]
        BY <2>5 DEF SetTo
    <2>7. /\ known' \in [Sides -> SUBSET Conns] /\ known'[o] = known[o]
          /\ known'[s] = IF s = "client" /\ x = "close" THEN known[s] \ {c} ELSE known[s]
        BY <1>0, <1>4, <1>12 DEF ReverseShape
    <2>8. ReverseShape'
        BY <1>0, <1>3, <1>6, <2>5, <2>7 DEF ReverseShape, SetTo
    <2>9. ASSUME NEW d \in Conns, d # c PROVE Apart(d)
        BY <1>3, <1>4, <1>6, <1>11, <2>6, <2>7, <2>9, SameForItself DEF Apart
    <2>10. \A w \in Whats : /\ Queued(s, c, w)' = Queued(s, c, w) + (IF w = x THEN 1 ELSE 0)
                            /\ Queued(o, c, w)' = Queued(o, c, w)
        BY <1>1c, <1>2, <1>4, <2>3, <2>6 DEF Queued
    <2>11. Connection(s, c)'
        <3>1. OnTheirWay(s, c)' = OnTheirWay(s, c)
            BY <1>1c, <1>2a, <1>3, <1>4, <1>5, <1>7a, <1>8, <2>10 DEF OnTheirWay, On
        <3>2. NoneLost(s, c)'
            BY <1>3, <1>4, <1>5, <1>8, <3>1 DEF NoneLost, Connection, Alive
        <3>3. \A w \in {"half", "close"} : LastOf(s, c, w) => LastOf(s, c, w)'
            <4> SUFFICES ASSUME NEW w \in {"half", "close"}, LastOf(s, c, w) PROVE LastOf(s, c, w)'
                OBVIOUS
            <4>1. w \in Whats
                BY <1>5
            <4>2. NoneAfter(queue'[s][c], w, "data")
                BY <1>1c, <1>2a, <1>4, <1>5, <2>4, <2>6, <4>1 DEF LastOf, Queued
            <4>3. QED  BY <1>1c, <1>2a, <1>3, <1>4, <1>5, <1>7a, <1>8, <2>10, <4>1, <4>2 DEF LastOf
        <3>4. EndsLast(s, c)'
            BY <1>1c, <1>2a, <1>3, <1>4, <1>5, <1>7a, <1>8, <2>10, <3>3 DEF EndsLast, Connection
        <3>5. BridgeFits(s, c)'
            BY <1>3, <1>4, <1>8 DEF BridgeFits, Connection
        <3>6. TableFits(s, c)'
            BY <1>1c, <1>2a, <1>3, <1>4, <1>5, <1>7a, <1>8, <2>7, <2>10 DEF TableFits, Connection, Up, Alive
        <3>7. QED  BY <3>2, <3>4, <3>5, <3>6 DEF Connection
    <2>12. Connection(o, c)'
        <3>1. OnTheirWay(o, c)' = OnTheirWay(o, c)
            BY <1>1c, <1>2a, <1>3, <1>4, <1>5, <1>7a, <1>8, <2>10 DEF OnTheirWay
        <3>2. NoneLost(o, c)'
            BY <1>3, <1>4, <1>5, <1>8, <3>1 DEF NoneLost, Connection, Alive
        <3>3. EndsLast(o, c)'
            BY <1>1c, <1>2a, <1>3, <1>4, <1>5, <1>7a, <1>8, <2>6, <2>10 DEF EndsLast, Connection, LastOf
        <3>4. BridgeFits(o, c)'
            BY <1>3, <1>4, <1>8 DEF BridgeFits, Connection
        <3>5. TableFits(o, c)'
            BY <1>1c, <1>2a, <1>3, <1>4, <1>5, <1>7a, <1>8, <2>7, <2>10 DEF TableFits, Connection, Up, Alive
        <3>6. QED  BY <3>1, <3>2, <3>3, <3>4, <3>5 DEF Connection
    <2>13. QED  BY <1>1c, <1>2, <1>9, <1>10, <2>8, <2>9, <2>11, <2>12, StepOfConnection
<1>13. CASE ~Runs(s, c) /\ known' = [known EXCEPT ![s] = @ \ {c}] /\ UNCHANGED queue
    <2>1. On(s, c, "done")
        BY <1>0, <1>1c, <1>2a, <1>4, <1>5, <1>13 DEF Runs, On, Connection, TableFits
    <2>2. /\ known' \in [Sides -> SUBSET Conns] /\ known'[o] = known[o] /\ known'[s] = known[s] \ {c}
        BY <1>0, <1>4, <1>13 DEF ReverseShape
    <2>3. ReverseShape'
        BY <1>0, <1>3, <1>6, <1>13, <2>2 DEF ReverseShape
    <2>4. ASSUME NEW d \in Conns, d # c PROVE Apart(d)
        BY <1>3, <1>4, <1>6, <1>11, <1>13, <2>2, <2>4, SameForItself DEF Apart
    <2>5. \A t \in Sides, w \in Whats : Queued(t, c, w)' = Queued(t, c, w)
        BY <1>13 DEF Queued
    <2>6. Connection(s, c)'
        <3>1. OnTheirWay(s, c)' \in Nat /\ OnTheirWay(s, c) \in Nat /\ OnTheirWay(s, c)' <= OnTheirWay(s, c)
            BY <1>1c, <1>2a, <1>3, <1>4, <1>5, <1>7a, <1>8, <2>5 DEF OnTheirWay
        <3>2. NoneLost(s, c)'
            BY <1>3, <1>4, <1>5, <1>8, <2>1, <3>1 DEF NoneLost, Connection, Alive, On
        <3>3. EndsLast(s, c)'
            BY <1>1c, <1>2a, <1>3, <1>4, <1>5, <1>7a, <1>8, <1>13, <2>5 DEF EndsLast, Connection, LastOf
        <3>4. BridgeFits(s, c)'
            BY <1>3, <1>4, <1>8 DEF BridgeFits, Connection
        <3>5. TableFits(s, c)'
            BY <1>1c, <1>2a, <1>3, <1>4, <1>5, <1>7a, <1>8, <2>1, <2>2, <2>5 DEF TableFits, Connection, Up, Alive, On
        <3>6. QED  BY <3>2, <3>3, <3>4, <3>5 DEF Connection
    <2>7. Connection(o, c)'
        <3>1. OnTheirWay(o, c)' = OnTheirWay(o, c)
            BY <1>1c, <1>2a, <1>3, <1>4, <1>5, <1>7a, <1>8, <2>5 DEF OnTheirWay
        <3>2. NoneLost(o, c)'
            BY <1>3, <1>4, <1>5, <1>8, <3>1 DEF NoneLost, Connection, Alive
        <3>3. EndsLast(o, c)'
            BY <1>1c, <1>2a, <1>3, <1>4, <1>5, <1>7a, <1>8, <1>13, <2>5 DEF EndsLast, Connection, LastOf
        <3>4. BridgeFits(o, c)'
            BY <1>3, <1>4, <1>8 DEF BridgeFits, Connection
        <3>5. TableFits(o, c)'
            BY <1>1c, <1>2a, <1>3, <1>4, <1>5, <1>7a, <1>8, <2>2, <2>5 DEF TableFits, Connection, Up, Alive
        <3>6. QED  BY <3>1, <3>2, <3>3, <3>4, <3>5 DEF Connection
    <2>8. QED  BY <1>1c, <1>2, <1>9, <1>10, <2>3, <2>4, <2>6, <2>7, StepOfConnection
<1>14. QED  BY <1>3a, <1>12, <1>13


\* A loop takes an event x of connection c from the channel to it.
Arrives(s, c, x) ==
    /\ ChannelLoses(Opposite(s), c, x)
    /\ Up(s) /\ hand[s] = NoEvent
    /\ UNCHANGED <<session, permits, queue, socket>>

LEMMA ArrivesFacts ==
    ASSUME ReverseInv, NEW s \in Sides, NEW c \in Conns, NEW x \in Whats, Arrives(s, c, x)
    PROVE  /\ \A w \in Whats : /\ Sent(s, c, w)' = Sent(s, c, w) - (IF w = x THEN 1 ELSE 0)
                               /\ Sent(Opposite(s), c, w)' = Sent(Opposite(s), c, w)
                               /\ Sent(s, c, w)' \in Nat
                               /\ InHand(s, c, w) = 0
                               /\ \A t \in Sides : Queued(t, c, w)' = Queued(t, c, w)
           /\ Sent(s, c, x) > 0
           /\ \A y, z \in Whats : NoneAfter(channel[Opposite(s)], Ev(c, y), Ev(c, z)) =>
                 /\ NoneAfter(channel'[Opposite(s)], Ev(c, y), Ev(c, z))
                 /\ y = x => Sent(s, c, z)' = 0
           /\ \A y, z \in Whats : NoneAfter(channel[s], Ev(c, y), Ev(c, z)) => NoneAfter(channel'[s], Ev(c, y), Ev(c, z))
<1> DEFINE o == Opposite(s)
<1>1. o \in Sides /\ o # s /\ Opposite(o) = s
    BY SidesOpposite
<1>2. /\ \A w \in Whats : InQueue(channel'[o], Ev(c, w)) = InQueue(channel[o], Ev(c, w)) - (IF w = x THEN 1 ELSE 0)
      /\ InQueue(channel[o], Ev(c, x)) > 0
      /\ SameFor(channel[s], channel'[s], c)
      /\ \A y, z \in Whats :
          NoneAfter(channel[o], Ev(c, y), Ev(c, z)) =>
              /\ NoneAfter(channel'[o], Ev(c, y), Ev(c, z))
              /\ y = x => InQueue(channel'[o], Ev(c, z)) = 0
    BY <1>1 DEF ChannelLoses, Arrives
<1>3. \A w \in Whats : Sent(s, c, w) = InQueue(channel[o], Ev(c, w)) /\ Sent(o, c, w) = InQueue(channel[s], Ev(c, w))
    BY <1>1 DEF Sent
<1>4. \A w \in Whats : Sent(s, c, w)' = InQueue(channel'[o], Ev(c, w)) /\ Sent(o, c, w)' = InQueue(channel'[s], Ev(c, w))
    BY <1>1 DEF Sent
<1>5. \A w \in Whats : InQueue(channel'[s], Ev(c, w)) = InQueue(channel[s], Ev(c, w))
    BY <1>2 DEF SameFor
<1>6. \A w \in Whats : Sent(s, c, w) \in Nat
    BY ReverseCounts DEF ReverseInv
<1>7. \A w \in Whats : InHand(s, c, w) = 0
    BY HandEmpty DEF InHand, Arrives
<1>8. \A t \in Sides, w \in Whats : Queued(t, c, w)' = Queued(t, c, w)
    BY DEF Queued, Arrives
<1>9. \A y, z \in Whats : NoneAfter(channel[s], Ev(c, y), Ev(c, z)) => NoneAfter(channel'[s], Ev(c, y), Ev(c, z))
    BY <1>2 DEF SameFor
<1> HIDE DEF o
<1>10. /\ \A w \in Whats : Sent(s, c, w)' = Sent(s, c, w) - (IF w = x THEN 1 ELSE 0) /\ Sent(o, c, w)' = Sent(o, c, w)
       /\ Sent(s, c, x) > 0
    BY <1>2, <1>3, <1>4, <1>5
<1>11. \A w \in Whats : Sent(s, c, w)' \in Nat
    BY <1>6, <1>10
<1>12. \A y, z \in Whats : NoneAfter(channel[o], Ev(c, y), Ev(c, z)) =>
                 /\ NoneAfter(channel'[o], Ev(c, y), Ev(c, z))
                 /\ y = x => Sent(s, c, z)' = 0
    BY <1>2, <1>4
<1>13. QED  BY <1>7, <1>8, <1>9, <1>10, <1>11, <1>12 DEF o

\* The client's loop learns of a connection.
LEMMA LearnedKeeps ==
    ASSUME ReverseInv, NEW s \in Sides, NEW c \in Conns, Arrives(s, c, "connected"), hand' = hand,
           known' = [known EXCEPT ![s] = @ \cup {c}],
           bridge' = [bridge EXCEPT ![s][c].at = "connect"]
    PROVE  ReverseInv'
<1> DEFINE o == Opposite(s)
           l == bridge[s][c]
           k == [l EXCEPT !.at = "connect"]
<1>1. "data" \in Whats /\ "half" \in Whats /\ "close" \in Whats /\ "connected" \in Whats
    BY DEF Whats
<1>2. /\ o \in Sides /\ o # s /\ Opposite(o) = s /\ Sides = {s, o} /\ ReverseShape /\ PermitsOut
      /\ Connection(s, c) /\ Connection(o, c) /\ AnnouncedOnce(c)
      /\ l \in BridgeStates
      /\ socket[s][c].wrote \in Nat /\ socket[s][c].given \in Nat
      /\ socket[o][c].wrote \in Nat /\ socket[o][c].given \in Nat
      /\ \A t \in Sides, w \in Whats :
             Queued(t, c, w) \in Nat /\ Sent(t, c, w) \in Nat /\ InHand(t, c, w) \in {0, 1}
    BY ConnectionFacts
<1>3. /\ \A w \in Whats : /\ Sent(s, c, w)' = Sent(s, c, w) - (IF w = "connected" THEN 1 ELSE 0)
                          /\ Sent(o, c, w)' = Sent(o, c, w)
                          /\ Sent(s, c, w)' \in Nat
                          /\ \A t \in Sides : Queued(t, c, w)' = Queued(t, c, w)
      /\ Sent(s, c, "connected") > 0
    BY <1>1, ArrivesFacts
<1>4. /\ \A y, z \in Whats : NoneAfter(channel[o], Ev(c, y), Ev(c, z)) => NoneAfter(channel'[o], Ev(c, y), Ev(c, z))
      /\ \A y, z \in Whats : NoneAfter(channel[s], Ev(c, y), Ev(c, z)) => NoneAfter(channel'[s], Ev(c, y), Ev(c, z))
    BY <1>1, ArrivesFacts
<1>5. s = "client" /\ o = "guest"
    BY <1>2, <1>3 DEF AnnouncedOnce, Sides, Opposite
<1>6. On("client", c, "none") /\ Sent("client", c, "connected") = 1 /\ Sent("client", c, "connected")' = 0
    BY <1>1, <1>2, <1>3, <1>5 DEF AnnouncedOnce
<1>7. k \in BridgeStates /\ k.at = "connect" /\ k.item = l.item /\ k.readClosed = l.readClosed /\ k.writeClosed = l.writeClosed
    BY <1>2 DEF BridgeStates
<1>8. bridge' = [bridge EXCEPT ![s][c] = k]
    OBVIOUS
<1> HIDE DEF k
<1>9. SetTo(bridge, bridge', BridgeStates, s, c, k)
    BY <1>2, <1>7, <1>8, BridgeSet
<1>10. bridge'[s][c] = k /\ bridge'[o][c] = bridge[o][c] /\ \A t \in Sides, d \in Conns : (t # s \/ d # c) => bridge'[t][d] = bridge[t][d]
    BY <1>2, <1>9 DEF SetTo
<1>11. known' \in [Sides -> SUBSET Conns] /\ known'[s] = known[s] \cup {c} /\ known'[o] = known[o]
    BY <1>2 DEF ReverseShape
<1>12. UNCHANGED <<session, permits, queue, socket, hand>>
    BY DEF Arrives
<1>13. ChannelLoses(o, c, "connected")
    BY DEF Arrives
<1>14. ReverseShape'
    BY <1>2, <1>9, <1>11, <1>12, <1>13 DEF ReverseShape, SetTo, ChannelLoses
<1>15. PermitsOut'
    <2>1. \A d \in Conns : Runs("guest", d)' <=> Runs("guest", d)
        BY <1>2, <1>5, <1>10 DEF Runs
    <2>2. QED  BY <1>2, <1>12, <2>1, PermitsStay
<1>16. ASSUME NEW d \in Conns, d # c PROVE Apart(d)
    BY <1>2, <1>10, <1>11, <1>12, <1>13, <1>16 DEF Apart, ChannelLoses
<1>17. \A t \in Sides, w \in Whats : InHand(t, c, w)' = InHand(t, c, w)
    BY <1>12 DEF InHand
<1>18. Connection(s, c)'
    <2>1. OnTheirWay(s, c)' = OnTheirWay(s, c)
        BY <1>1, <1>2, <1>3, <1>5, <1>6, <1>7, <1>10, <1>17 DEF OnTheirWay, On
    <2>2. NoneLost(s, c)'
        BY <1>1, <1>2, <1>3, <1>5, <1>6, <1>7, <1>10, <1>12, <2>1 DEF NoneLost, Connection, Alive, On
    <2>3. EndsLast(s, c)'
        BY <1>1, <1>2, <1>3, <1>4, <1>10, <1>12, <1>17 DEF EndsLast, Connection, LastOf, On
    <2>4. BridgeFits(s, c)'
        BY <1>2, <1>7, <1>10, <1>12 DEF BridgeFits, Connection, On
    <2>5. TableFits(s, c)'
        BY <1>2, <1>7, <1>10, <1>11 DEF TableFits, On
    <2>6. QED  BY <2>2, <2>3, <2>4, <2>5 DEF Connection
<1>19. Connection(o, c)'
    <2>1. OnTheirWay(o, c)' = OnTheirWay(o, c)
        BY <1>1, <1>2, <1>3, <1>5, <1>6, <1>7, <1>10, <1>17 DEF OnTheirWay, On
    <2>2. NoneLost(o, c)'
        BY <1>1, <1>2, <1>3, <1>5, <1>6, <1>7, <1>10, <1>12, <2>1 DEF NoneLost, Connection, Alive, On
    <2>3. EndsLast(o, c)'
        BY <1>1, <1>2, <1>3, <1>4, <1>5, <1>6, <1>7, <1>10, <1>12, <1>17 DEF EndsLast, Connection, LastOf, On
    <2>4. BridgeFits(o, c)'
        BY <1>2, <1>7, <1>10, <1>12 DEF BridgeFits, Connection, On
    <2>5. TableFits(o, c)'
        BY <1>1, <1>2, <1>3, <1>10, <1>11, <1>12, <1>17 DEF TableFits, Connection, Up, Alive, On
    <2>6. QED  BY <2>2, <2>3, <2>4, <2>5 DEF Connection
<1>20. AnnouncedOnce(c)'
    BY <1>1, <1>2, <1>3, <1>4, <1>5, <1>6, <1>7, <1>10, <1>17 DEF AnnouncedOnce, On
<1>21. QED  BY <1>14, <1>15, <1>16, <1>18, <1>19, <1>20, StepOfConnection

\* An event goes to the loop's hand; one of a connection it does not know is dropped,
\* which is data only when the bridge has ended.
LEMMA TakenUpKeeps ==
    ASSUME ReverseInv, NEW s \in Sides, NEW c \in Conns, NEW x \in {"data", "half", "close"},
           Arrives(s, c, x), UNCHANGED <<known, bridge>>,
           \/ c \in known[s] /\ hand' = [hand EXCEPT ![s] = Ev(c, x)]
           \/ c \notin known[s] /\ hand' = hand
    PROVE  ReverseInv'
<1> DEFINE o == Opposite(s)
<1>1. "data" \in Whats /\ "half" \in Whats /\ "close" \in Whats /\ "connected" \in Whats /\ x \in Whats
    BY DEF Whats
<1>2. /\ o \in Sides /\ o # s /\ Opposite(o) = s /\ Sides = {s, o} /\ ReverseShape /\ PermitsOut
      /\ Connection(s, c) /\ Connection(o, c) /\ AnnouncedOnce(c)
      /\ socket[s][c].wrote \in Nat /\ socket[s][c].given \in Nat
      /\ socket[o][c].wrote \in Nat /\ socket[o][c].given \in Nat
      /\ \A t \in Sides, w \in Whats :
             Queued(t, c, w) \in Nat /\ Sent(t, c, w) \in Nat /\ InHand(t, c, w) \in {0, 1}
    BY ConnectionFacts
<1>3. /\ \A w \in Whats : /\ Sent(s, c, w)' = Sent(s, c, w) - (IF w = x THEN 1 ELSE 0)
                          /\ Sent(o, c, w)' = Sent(o, c, w)
                          /\ Sent(s, c, w)' \in Nat
                          /\ InHand(s, c, w) = 0
                          /\ \A t \in Sides : Queued(t, c, w)' = Queued(t, c, w)
      /\ Sent(s, c, x) > 0
    BY <1>1, ArrivesFacts
<1>4. /\ \A y, z \in Whats : NoneAfter(channel[o], Ev(c, y), Ev(c, z)) =>
             /\ NoneAfter(channel'[o], Ev(c, y), Ev(c, z))
             /\ y = x => Sent(s, c, z)' = 0
      /\ \A y, z \in Whats : NoneAfter(channel[s], Ev(c, y), Ev(c, z)) => NoneAfter(channel'[s], Ev(c, y), Ev(c, z))
    BY <1>1, ArrivesFacts
<1>5. UNCHANGED <<session, permits, queue, socket, known, bridge>> /\ Up(s) /\ hand[s] = NoEvent
    BY DEF Arrives
<1>6. ChannelLoses(o, c, x)
    BY DEF Arrives
<1>7. Ev(c, x) \in ConnEvents
    BY <1>1 DEF Ev, ConnEvents
<1>8. /\ hand' \in [Sides -> ConnEvents \cup {NoEvent}] /\ hand'[o] = hand[o]
      /\ hand'[s] = IF c \in known[s] THEN Ev(c, x) ELSE NoEvent
    BY <1>2, <1>5, <1>7 DEF ReverseShape
<1>9. \A w \in Whats : /\ InHand(s, c, w)' = IF c \in known[s] /\ w = x THEN 1 ELSE 0
                       /\ InHand(o, c, w)' = InHand(o, c, w)
    <2>1. \A w \in Whats : Ev(c, x) = Ev(c, w) <=> w = x
        BY DEF Ev
    <2>2. QED  BY <1>8, <2>1, HandEmpty DEF InHand
<1>10. ReverseShape'
    BY <1>2, <1>5, <1>6, <1>8 DEF ReverseShape, ChannelLoses
<1>11. PermitsOut'
    BY <1>2, <1>5, PermitsStay DEF Runs
<1>12. ASSUME NEW d \in Conns, d # c PROVE Apart(d)
    <2>1. \A w \in Whats : Ev(c, x) # Ev(d, w)
        BY <1>12 DEF Ev
    <2>2. QED  BY <1>2, <1>5, <1>6, <1>8, <1>12, <2>1, HandEmpty DEF Apart, ChannelLoses
<1>13. \A t \in Sides : \A p : On(t, c, p)' <=> On(t, c, p)
    BY <1>5 DEF On
<1>14. Connection(s, c)'
    <2>1. NoneLost(s, c)'
        <3>1. CASE c \in known[s] \/ x # "data"
            <4>1. OnTheirWay(s, c)' = OnTheirWay(s, c)
                BY <1>1, <1>2, <1>3, <1>5, <1>9, <1>13, <3>1 DEF OnTheirWay
            <4>2. QED  BY <1>1, <1>2, <1>3, <1>5, <1>13, <4>1 DEF NoneLost, Connection, Alive
        <3>2. CASE c \notin known[s] /\ x = "data"
            <4>1. Queued(s, c, "close") = 0
                BY <1>1, <1>2, <1>3, <3>2 DEF Connection, EndsLast, LastOf
            <4>2. ~On(s, c, "none")
                <5>1. CASE s = "client"
                    <6>1. o = "guest"
                        BY <5>1 DEF Opposite
                    <6>2. Sent(s, c, "connected") = 0
                        BY <1>1, <1>2, <1>3, <1>4, <3>2, <6>1 DEF AnnouncedOnce
                    <6>3. QED  BY <1>1, <1>2, <1>3, <3>2, <5>1, <6>2 DEF AnnouncedOnce
                <5>2. CASE s = "guest"
                    <6>1. o = "client"
                        BY <5>2 DEF Opposite
                    <6>2. ~On(o, c, "none")
                        BY <1>2, <1>3, <3>2 DEF Connection, NoneLost
                    <6>3. QED  BY <1>2, <5>2, <6>1, <6>2 DEF AnnouncedOnce
                <5>3. QED  BY <5>1, <5>2 DEF Sides
            <4>3. ~Alive(s, c)
                BY <1>2, <1>5, <3>2, <4>1, <4>2 DEF Connection, TableFits
            <4>4. OnTheirWay(s, c)' \in Nat /\ OnTheirWay(s, c) \in Nat /\ OnTheirWay(s, c)' <= OnTheirWay(s, c)
                BY <1>1, <1>2, <1>3, <1>5, <1>9, <1>13, <3>2 DEF OnTheirWay
            <4>5. QED  BY <1>1, <1>2, <1>3, <1>5, <1>13, <4>3, <4>4 DEF NoneLost, Connection, Alive
        <3>3. QED  BY <3>1, <3>2
    <2>2. EndsLast(s, c)'
        <3>1. \A w \in {"half", "close"} : LastOf(s, c, w) => LastOf(s, c, w)'
            <4> SUFFICES ASSUME NEW w \in {"half", "close"}, LastOf(s, c, w) PROVE LastOf(s, c, w)'
                OBVIOUS
            <4>1. w \in Whats /\ w # "data"
                BY <1>1
            <4>2. Queued(s, c, w)' > 0 => InHand(s, c, "data")' = 0
                BY <1>1, <1>2, <1>3, <1>9, <4>1 DEF LastOf
            <4>3. (Queued(s, c, w)' > 0 \/ InHand(s, c, w)' > 0) => Sent(s, c, "data")' = 0
                BY <1>1, <1>2, <1>3, <1>4, <1>9, <4>1 DEF LastOf
            <4>4. NoneAfter(queue'[s][c], w, "data") /\ NoneAfter(channel'[o], Ev(c, w), Ev(c, "data"))
                BY <1>1, <1>4, <1>5, <4>1 DEF LastOf
            <4>5. QED  BY <4>2, <4>3, <4>4 DEF LastOf
        <3>2. QED  BY <1>1, <1>2, <1>3, <1>5, <1>9, <1>13, <3>1 DEF EndsLast, Connection
    <2>3. BridgeFits(s, c)'
        BY <1>2, <1>5, <1>13 DEF BridgeFits, Connection
    <2>4. TableFits(s, c)'
        BY <1>1, <1>2, <1>3, <1>5, <1>9, <1>13 DEF TableFits, Connection, Up, Alive
    <2>5. QED  BY <2>1, <2>2, <2>3, <2>4 DEF Connection
<1>15. Connection(o, c)'
    <2>1. OnTheirWay(o, c)' = OnTheirWay(o, c)
        BY <1>1, <1>2, <1>3, <1>5, <1>9, <1>13 DEF OnTheirWay
    <2>2. NoneLost(o, c)'
        BY <1>1, <1>2, <1>3, <1>5, <1>13, <2>1 DEF NoneLost, Connection, Alive
    <2>3. EndsLast(o, c)'
        BY <1>1, <1>2, <1>3, <1>4, <1>5, <1>9, <1>13 DEF EndsLast, Connection, LastOf
    <2>4. BridgeFits(o, c)'
        BY <1>2, <1>5, <1>13 DEF BridgeFits, Connection
    <2>5. TableFits(o, c)'
        BY <1>1, <1>2, <1>3, <1>5, <1>9, <1>13 DEF TableFits, Connection, Up, Alive
    <2>6. QED  BY <2>2, <2>3, <2>4, <2>5 DEF Connection
<1>16. AnnouncedOnce(c)'
    <2>1. \A t \in Sides : /\ Sent(t, c, "connected")' = Sent(t, c, "connected")
                           /\ InHand(t, c, "connected")' = InHand(t, c, "connected")
                           /\ Sent(t, c, "data")' <= Sent(t, c, "data") /\ Sent(t, c, "data")' \in Nat
        BY <1>1, <1>2, <1>3, <1>9
    <2>2. "guest" \in Sides /\ "client" \in Sides
        BY DEF Sides
    <2>3. NoneAfter(channel["guest"], Ev(c, "data"), Ev(c, "connected")) => NoneAfter(channel'["guest"], Ev(c, "data"), Ev(c, "connected"))
        BY <1>1, <1>2, <1>4, <2>2
    <2>4. QED  BY <1>1, <1>2, <1>13, <2>1, <2>2, <2>3 DEF AnnouncedOnce
<1>17. QED  BY <1>10, <1>11, <1>12, <1>14, <1>15, <1>16, StepOfConnection

LEMMA TakenKeeps ==
    ASSUME ReverseInv, ReverseAssumption, NEW s \in Sides, Taken(s)
    PROVE  ReverseInv'
<1> DEFINE o == Opposite(s)
           e == Head(channel[o])
<1>1. o \in Sides /\ ReverseShape
    BY SidesOpposite DEF ReverseInv
<1>2. channel[o] # <<>> /\ channel' = [channel EXCEPT ![o] = Tail(@)]
    BY DEF Taken
<1>3. PICK c \in Conns, x \in Whats : e = Ev(c, x) /\ e.conn = c /\ e.what = x /\ ChannelLoses(o, c, x)
    BY <1>1, <1>2, EventArrives
<1>4. Arrives(s, c, x)
    BY <1>3 DEF Taken, Arrives
<1>5. CASE x = "connected"
    <2>1. hand' = hand /\ known' = [known EXCEPT ![s] = @ \cup {c}] /\ bridge' = [bridge EXCEPT ![s][c].at = "connect"]
        BY <1>3, <1>5 DEF Taken
    <2>2. QED  BY <1>4, <1>5, <2>1, LearnedKeeps
<1>6. CASE x # "connected"
    <2>1. x \in {"data", "half", "close"}
        BY <1>6 DEF Whats
    <2>2. /\ UNCHANGED <<known, bridge>>
          /\ \/ c \in known[s] /\ hand' = [hand EXCEPT ![s] = Ev(c, x)]
             \/ c \notin known[s] /\ hand' = hand
        BY <1>3, <1>6 DEF Taken
    <2>3. QED  BY <1>4, <2>1, <2>2, TakenUpKeeps
<1>7. QED  BY <1>5, <1>6


LEMMA AcceptedKeeps ==
    ASSUME ReverseInv, NEW c \in Conns, Accepted(c)
    PROVE  ReverseInv'
<1> DEFINE l == bridge["guest"][c]
           k == [l EXCEPT !.at = "born"]
<1>1. "data" \in Whats /\ "half" \in Whats /\ "close" \in Whats /\ "connected" \in Whats
    BY DEF Whats
<1>2. "guest" \in Sides /\ "client" \in Sides /\ Opposite("guest") = "client" /\ Opposite("client") = "guest" /\ Sides = {"guest", "client"}
    BY DEF Sides, Opposite
<1>3. /\ ReverseShape /\ PermitsOut
      /\ Connection("guest", c) /\ Connection("client", c) /\ AnnouncedOnce(c)
      /\ l \in BridgeStates
      /\ \A t \in Sides, w \in Whats :
             Queued(t, c, w) \in Nat /\ Sent(t, c, w) \in Nat /\ InHand(t, c, w) \in {0, 1}
    BY <1>2, ConnectionFacts
<1>4. UNCHANGED <<session, channel, queue, socket>> /\ permits > 0 /\ permits' = permits - 1
    BY DEF Accepted
<1>5. hand["guest"] = NoEvent /\ On("guest", c, "none") /\ l.at = "none"
    BY DEF Accepted, On
<1>6. k \in BridgeStates /\ k.at = "born" /\ k.item = l.item /\ k.readClosed = l.readClosed /\ k.writeClosed = l.writeClosed
    BY <1>3 DEF BridgeStates
<1>7. bridge' = [bridge EXCEPT !["guest"][c] = k]
    BY DEF Accepted
<1> HIDE DEF k
<1>8. SetTo(bridge, bridge', BridgeStates, "guest", c, k)
    BY <1>2, <1>3, <1>6, <1>7, BridgeSet
<1>9. /\ bridge'["guest"][c] = k
      /\ \A t \in Sides, d \in Conns : (t # "guest" \/ d # c) => bridge'[t][d] = bridge[t][d]
    BY <1>8 DEF SetTo
<1>10. /\ known' \in [Sides -> SUBSET Conns] /\ known'["guest"] = known["guest"] \cup {c}
       /\ known'["client"] = known["client"]
    BY <1>2, <1>3 DEF Accepted, ReverseShape
<1>11. Ev(c, "connected") \in ConnEvents
    BY <1>1 DEF Ev, ConnEvents
<1>12. /\ hand' \in [Sides -> ConnEvents \cup {NoEvent}] /\ hand'["guest"] = Ev(c, "connected")
       /\ hand'["client"] = hand["client"]
    BY <1>2, <1>3, <1>11, HandSet DEF Accepted
<1>13. \A w \in Whats : /\ InHand("guest", c, w) = 0 /\ InHand("client", c, w)' = InHand("client", c, w)
                        /\ InHand("guest", c, w)' = IF w = "connected" THEN 1 ELSE 0
    <2>1. \A w \in Whats : Ev(c, "connected") = Ev(c, w) <=> w = "connected"
        BY DEF Ev
    <2>2. QED  BY <1>5, <1>12, <2>1, HandEmpty DEF InHand
<1>14. \A t \in Sides : \A w : Queued(t, c, w)' = Queued(t, c, w) /\ Sent(t, c, w)' = Sent(t, c, w)
    BY <1>4 DEF Queued, Sent
<1>15. PermitsOut'
    <2>1. permits \in Nat /\ IsFiniteSet(RunningConns) /\ permits + Cardinality(RunningConns) = ForwardSlots
        BY <1>3 DEF PermitsOut, ReverseShape
    <2>2. c \notin RunningConns
        BY <1>5 DEF RunningConns, Runs
    <2>3. \A d \in Conns : Runs("guest", d)' <=> (d = c \/ Runs("guest", d))
        BY <1>2, <1>6, <1>9 DEF Runs
    <2>4. RunningConns' = RunningConns \cup {c}
        BY <2>3 DEF RunningConns
    <2>5. Cardinality(RunningConns) \in Nat
        BY <2>1, FS_CardinalityType
    <2>6. IsFiniteSet(RunningConns') /\ Cardinality(RunningConns') = Cardinality(RunningConns) + 1
        BY <2>1, <2>2, <2>4, FS_AddElement
    <2>7. permits' + Cardinality(RunningConns') = ForwardSlots
        BY <1>4, <2>1, <2>5, <2>6
    <2>8. QED  BY <2>6, <2>7 DEF PermitsOut
<1>16. ReverseShape'
    <2>1. permits' \in Nat
        BY <1>3, <1>4 DEF ReverseShape
    <2>2. QED  BY <1>3, <1>4, <1>8, <1>10, <1>12, <2>1 DEF ReverseShape, SetTo
<1>17. ASSUME NEW d \in Conns, d # c PROVE Apart(d)
    <2>1. \A w \in Whats : Ev(c, "connected") # Ev(d, w) /\ NoEvent # Ev(d, w)
        BY <1>17, HandEmpty DEF Ev
    <2>2. QED  BY <1>2, <1>4, <1>5, <1>9, <1>10, <1>12, <1>17, <2>1, SameForItself DEF Apart
<1>18. bridge'["client"][c] = bridge["client"][c]
    BY <1>2, <1>9
<1>19. Connection("guest", c)'
    <2>1. OnTheirWay("guest", c)' = OnTheirWay("guest", c)
        BY <1>1, <1>2, <1>5, <1>6, <1>9, <1>13, <1>14, <1>18 DEF OnTheirWay, On
    <2>2. NoneLost("guest", c)'
        BY <1>1, <1>2, <1>3, <1>4, <1>5, <1>6, <1>9, <1>14, <1>18, <2>1 DEF NoneLost, Connection, Alive, On
    <2>3. EndsLast("guest", c)'
        BY <1>1, <1>2, <1>3, <1>4, <1>13, <1>14, <1>18 DEF EndsLast, Connection, LastOf, On
    <2>4. BridgeFits("guest", c)'
        BY <1>2, <1>3, <1>4, <1>6, <1>9, <1>18 DEF BridgeFits, Connection, On
    <2>5. TableFits("guest", c)'
        BY <1>2, <1>6, <1>9, <1>10 DEF TableFits, On
    <2>6. QED  BY <2>2, <2>3, <2>4, <2>5 DEF Connection
<1>20. Connection("client", c)'
    <2>1. OnTheirWay("client", c)' = OnTheirWay("client", c)
        BY <1>1, <1>2, <1>5, <1>6, <1>9, <1>13, <1>14, <1>18 DEF OnTheirWay, On
    <2>2. NoneLost("client", c)'
        BY <1>1, <1>2, <1>3, <1>4, <1>5, <1>6, <1>9, <1>14, <1>18, <2>1 DEF NoneLost, Connection, Alive, On
    <2>3. EndsLast("client", c)'
        BY <1>1, <1>2, <1>3, <1>4, <1>5, <1>6, <1>9, <1>13, <1>14, <1>18 DEF EndsLast, Connection, LastOf, On
    <2>4. BridgeFits("client", c)'
        BY <1>2, <1>3, <1>4, <1>6, <1>9, <1>18 DEF BridgeFits, Connection, On
    <2>5. TableFits("client", c)'
        BY <1>1, <1>2, <1>3, <1>4, <1>10, <1>13, <1>14, <1>18 DEF TableFits, Connection, Up, Alive, On
    <2>6. QED  BY <2>2, <2>3, <2>4, <2>5 DEF Connection
<1>21. AnnouncedOnce(c)'
    BY <1>1, <1>2, <1>3, <1>4, <1>5, <1>6, <1>9, <1>13, <1>14, <1>18 DEF AnnouncedOnce, On
<1>22. QED  BY <1>2, <1>15, <1>16, <1>17, <1>19, <1>20, <1>21, StepOfConnection

LEMMA AnnouncedKeeps ==
    ASSUME ReverseInv, ReverseAssumption, NEW c \in Conns, Announced(c)
    PROVE  ReverseInv'
<1> DEFINE l == bridge["guest"][c]
           k == [l EXCEPT !.at = "select"]
<1>1. "data" \in Whats /\ "half" \in Whats /\ "close" \in Whats /\ "connected" \in Whats
    BY DEF Whats
<1>2. "guest" \in Sides /\ "client" \in Sides /\ Opposite("guest") = "client" /\ Opposite("client") = "guest" /\ Sides = {"guest", "client"}
    BY DEF Sides, Opposite
<1>3. /\ ReverseShape /\ PermitsOut
      /\ Connection("guest", c) /\ Connection("client", c) /\ AnnouncedOnce(c)
      /\ l \in BridgeStates
      /\ \A t \in Sides, w \in Whats :
             Queued(t, c, w) \in Nat /\ Sent(t, c, w) \in Nat /\ InHand(t, c, w) \in {0, 1}
    BY <1>2, ConnectionFacts
<1>4. UNCHANGED <<session, permits, queue, known, socket>> /\ Roomy("guest")
    BY DEF Announced
<1>5. hand["guest"] = Ev(c, "connected")
    BY DEF Announced
<1>6. k \in BridgeStates /\ k.at = "select" /\ k.item = l.item /\ k.readClosed = l.readClosed /\ k.writeClosed = l.writeClosed
    BY <1>3 DEF BridgeStates
<1>7. bridge' = [bridge EXCEPT !["guest"][c] = k]
    BY DEF Announced
<1> HIDE DEF k
<1>8. SetTo(bridge, bridge', BridgeStates, "guest", c, k)
    BY <1>2, <1>3, <1>6, <1>7, BridgeSet
<1>9. /\ bridge'["guest"][c] = k
      /\ \A t \in Sides, d \in Conns : (t # "guest" \/ d # c) => bridge'[t][d] = bridge[t][d]
    BY <1>8 DEF SetTo
<1>10. bridge'["client"][c] = bridge["client"][c]
    BY <1>2, <1>9
<1>11. /\ hand' \in [Sides -> ConnEvents \cup {NoEvent}] /\ hand'["guest"] = NoEvent
       /\ hand'["client"] = hand["client"]
    BY <1>2, <1>3, HandSet DEF Announced
<1>12. \A w \in Whats : /\ InHand("guest", c, w)' = 0 /\ InHand("client", c, w)' = InHand("client", c, w)
                        /\ InHand("guest", c, w) = IF w = "connected" THEN 1 ELSE 0
    <2>1. \A w \in Whats : Ev(c, "connected") = Ev(c, w) <=> w = "connected"
        BY DEF Ev
    <2>2. QED  BY <1>5, <1>11, <2>1, HandEmpty DEF InHand
<1>13. l.at = "born" /\ On("guest", c, "born")
    BY <1>1, <1>3, <1>12 DEF AnnouncedOnce, On
<1>14. ChannelGains("guest", c, "connected")
    BY <1>1, <1>2, <1>3, <1>4, EventSent DEF Announced
<1>15. \A w \in Whats : /\ Sent("client", c, w)' = Sent("client", c, w) + (IF w = "connected" THEN 1 ELSE 0)
                        /\ Sent("guest", c, w)' = Sent("guest", c, w)
                        /\ \A t \in Sides : Queued(t, c, w)' = Queued(t, c, w)
    BY <1>2, <1>4, <1>14 DEF Sent, Queued, ChannelGains, SameFor
<1>16. /\ \A y, z \in Whats : NoneAfter(channel["client"], Ev(c, y), Ev(c, z)) => NoneAfter(channel'["client"], Ev(c, y), Ev(c, z))
       /\ \A y, z \in Whats :
              (NoneAfter(channel["guest"], Ev(c, y), Ev(c, z)) /\ (z # "connected" \/ Sent("client", c, y) = 0)) =>
                  NoneAfter(channel'["guest"], Ev(c, y), Ev(c, z))
    BY <1>2, <1>14 DEF ChannelGains, SameFor, Sent
<1>17. PermitsOut'
    <2>1. \A d \in Conns : Runs("guest", d)' <=> Runs("guest", d)
        BY <1>2, <1>6, <1>9, <1>13 DEF Runs
    <2>2. QED  BY <1>3, <1>4, <2>1, PermitsStay
<1>18. ReverseShape'
    BY <1>3, <1>4, <1>8, <1>11, <1>14 DEF ReverseShape, SetTo, ChannelGains
<1>19. ASSUME NEW d \in Conns, d # c PROVE Apart(d)
    <2>1. \A w \in Whats : Ev(c, "connected") # Ev(d, w) /\ NoEvent # Ev(d, w)
        BY <1>19, HandEmpty DEF Ev
    <2>2. QED  BY <1>2, <1>4, <1>5, <1>9, <1>11, <1>14, <1>19, <2>1 DEF Apart, ChannelGains
<1>20. Connection("guest", c)'
    <2>1. OnTheirWay("guest", c)' = OnTheirWay("guest", c)
        BY <1>1, <1>2, <1>3, <1>13, <1>6, <1>9, <1>10, <1>12, <1>15 DEF OnTheirWay, On
    <2>2. NoneLost("guest", c)'
        BY <1>1, <1>2, <1>3, <1>4, <1>13, <1>6, <1>9, <1>10, <1>15, <2>1 DEF NoneLost, Connection, Alive, On
    <2>3. EndsLast("guest", c)'
        BY <1>1, <1>2, <1>3, <1>4, <1>10, <1>12, <1>15, <1>16 DEF EndsLast, Connection, LastOf, On
    <2>4. BridgeFits("guest", c)'
        BY <1>2, <1>3, <1>4, <1>6, <1>9, <1>10 DEF BridgeFits, Connection, On
    <2>5. TableFits("guest", c)'
        BY <1>1, <1>2, <1>3, <1>4, <1>6, <1>9, <1>12, <1>13, <1>15 DEF TableFits, Connection, Up, Alive, On
    <2>6. QED  BY <2>2, <2>3, <2>4, <2>5 DEF Connection
<1>21. Connection("client", c)'
    <2>1. OnTheirWay("client", c)' = OnTheirWay("client", c)
        BY <1>1, <1>2, <1>3, <1>13, <1>6, <1>9, <1>10, <1>12, <1>15 DEF OnTheirWay, On
    <2>2. NoneLost("client", c)'
        BY <1>1, <1>2, <1>3, <1>4, <1>13, <1>6, <1>9, <1>10, <1>15, <2>1 DEF NoneLost, Connection, Alive, On
    <2>3. LastOf("client", c, "half")' /\ LastOf("client", c, "close")'
        BY <1>1, <1>2, <1>3, <1>4, <1>12, <1>15, <1>16 DEF EndsLast, Connection, LastOf
    <2>4. EndsLast("client", c)'
        BY <1>1, <1>2, <1>3, <1>6, <1>9, <1>12, <1>13, <1>15, <2>3 DEF EndsLast, Connection, On
    <2>5. BridgeFits("client", c)'
        BY <1>2, <1>3, <1>4, <1>6, <1>9, <1>10 DEF BridgeFits, Connection, On
    <2>6. TableFits("client", c)'
        BY <1>1, <1>2, <1>3, <1>4, <1>10, <1>12, <1>15 DEF TableFits, Connection, Up, Alive, On
    <2>7. QED  BY <2>2, <2>4, <2>5, <2>6 DEF Connection
<1>22. AnnouncedOnce(c)'
    <2>1. Sent("client", c, "connected") = 0 /\ On("client", c, "none") /\ Sent("client", c, "data") = 0
        BY <1>3, <1>13 DEF AnnouncedOnce
    <2>2. NoneAfter(channel'["guest"], Ev(c, "data"), Ev(c, "connected"))
        BY <1>1, <1>3, <1>16, <2>1 DEF AnnouncedOnce
    <2>3. On("client", c, "none")'
        BY <1>10, <2>1 DEF On
    <2>4. Sent("client", c, "connected")' = 1 /\ Sent("guest", c, "connected")' = 0
        BY <1>1, <1>3, <1>15, <2>1 DEF AnnouncedOnce
    <2>5. On("guest", c, "select")' /\ \A p : On("guest", c, p)' => p = "select"
        BY <1>6, <1>9 DEF On
    <2>6. QED  BY <1>1, <1>3, <1>12, <2>2, <2>3, <2>4, <2>5 DEF AnnouncedOnce
<1>23. QED  BY <1>2, <1>17, <1>18, <1>19, <1>20, <1>21, <1>22, StepOfConnection


\* A bridge takes y from its queue.
QueueGives(s, c, y) ==
    /\ queue[s][c] # <<>> /\ Head(queue[s][c]) = y
    /\ queue' = [queue EXCEPT ![s][c] = Tail(queue[s][c])]

LEMMA QueueLoses ==
    ASSUME ReverseShape, ReverseAssumption, NEW s \in Sides, NEW c \in Conns, NEW y, QueueGives(s, c, y)
    PROVE  /\ y \in Whats /\ Queued(s, c, y) > 0
           /\ queue' \in [Sides -> [Conns -> Seq(Whats)]]
           /\ \A t \in Sides, d \in Conns : Len(queue'[t][d]) <= QueueCap
           /\ \A t \in Sides, d \in Conns : (t # s \/ d # c) => queue'[t][d] = queue[t][d]
           /\ \A w \in Whats : Queued(s, c, w)' = Queued(s, c, w) - (IF w = y THEN 1 ELSE 0)
           /\ \A w, z \in Whats : NoneAfter(queue[s][c], w, z) =>
                 NoneAfter(queue'[s][c], w, z) /\ (w = y => Queued(s, c, z)' = 0)
<1> DEFINE q == Tail(queue[s][c])
<1>0. /\ queue[s][c] # <<>> /\ Head(queue[s][c]) = y
      /\ queue' = [queue EXCEPT ![s][c] = Tail(queue[s][c])]
    BY DEF QueueGives
<1>1. queue[s][c] \in Seq(Whats) /\ Len(queue[s][c]) <= QueueCap
    BY ReverseCounts
<1>2. /\ q \in Seq(Whats) /\ Len(queue[s][c]) \in Nat /\ Len(queue[s][c]) > 0 /\ Len(q) = Len(queue[s][c]) - 1
      /\ y = queue[s][c][1] /\ y \in Whats
    BY <1>0, <1>1, TailPlaces
<1>3. Len(q) <= QueueCap /\ 1 \in 1 .. Len(queue[s][c])
    BY <1>1, <1>2 DEF ReverseAssumption
<1>4. SetTo(queue, queue', Seq(Whats), s, c, q) /\ \A t \in Sides, d \in Conns : Len(queue'[t][d]) <= QueueCap
    BY <1>0, <1>2, <1>3, QueueSet
<1>5. queue' \in [Sides -> [Conns -> Seq(Whats)]] /\ queue'[s][c] = q
      /\ \A t \in Sides, d \in Conns : (t # s \/ d # c) => queue'[t][d] = queue[t][d]
    BY <1>4 DEF SetTo
<1>6. Queued(s, c, y) > 0
    BY <1>1, <1>2, <1>3, SomeCopy DEF Queued
<1>7. \A w : InQueue(q, w) = InQueue(queue[s][c], w) - (IF y = w THEN 1 ELSE 0)
    BY <1>0, <1>1, CopiesTaken
<1>8. \A w, z : NoneAfter(queue[s][c], w, z) => NoneAfter(q, w, z) /\ (y = w => InQueue(q, z) = 0)
    BY <1>0, <1>1, NoneAfterTaken
<1> HIDE DEF q
<1>9. \A w \in Whats : Queued(s, c, w)' = Queued(s, c, w) - (IF w = y THEN 1 ELSE 0)
    BY <1>5, <1>7 DEF Queued
<1>10. \A w, z \in Whats : NoneAfter(queue[s][c], w, z) =>
                 NoneAfter(queue'[s][c], w, z) /\ (w = y => Queued(s, c, z)' = 0)
    BY <1>5, <1>8 DEF Queued
<1>11. QED  BY <1>2, <1>4, <1>5, <1>6, <1>9, <1>10

\* What a bridge in its select does with y: it has k and its socket a.
TakesIn(s, c, y, k, a) ==
    /\ On(s, c, "select") /\ ~bridge[s][c].writeClosed
    /\ k.readClosed = bridge[s][c].readClosed
    /\ a.wrote = socket[s][c].wrote /\ a.given = socket[s][c].given
    /\ \/ y = "data" /\ k.at = "write" /\ ~k.writeClosed
       \/ y = "half" /\ k.at = "select" /\ k.writeClosed
       \/ y = "close" /\ k.at = "last" /\ ~k.writeClosed

LEMMA TakesInKeeps ==
    ASSUME ReverseInv, ReverseAssumption, NEW s \in Sides, NEW c \in Conns,
           NEW k \in BridgeStates, NEW a \in SocketStates, NEW y \in Whats,
           QueueGives(s, c, y),
           SetTo(bridge, bridge', BridgeStates, s, c, k), SetTo(socket, socket', SocketStates, s, c, a),
           UNCHANGED <<session, permits, channel, hand, known>>,
           TakesIn(s, c, y, k, a)
    PROVE  ReverseInv'
<1> DEFINE o == Opposite(s)
<1>1. "data" \in Whats /\ "half" \in Whats /\ "close" \in Whats /\ "connected" \in Whats
    BY DEF Whats
<1>2. /\ o \in Sides /\ o # s /\ Opposite(o) = s /\ Sides = {s, o} /\ ReverseShape /\ PermitsOut
      /\ Connection(s, c) /\ Connection(o, c) /\ AnnouncedOnce(c)
      /\ socket[s][c].wrote \in Nat /\ socket[s][c].given \in Nat
      /\ socket[o][c].wrote \in Nat /\ socket[o][c].given \in Nat
      /\ \A t \in Sides, w \in Whats :
             Queued(t, c, w) \in Nat /\ Sent(t, c, w) \in Nat /\ InHand(t, c, w) \in {0, 1}
    BY ConnectionFacts
<1>2a. ReverseShape
    BY <1>2
<1>3. /\ bridge'[s][c] = k /\ bridge'[o][c] = bridge[o][c]
      /\ \A t \in Sides, d \in Conns : (t # s \/ d # c) => bridge'[t][d] = bridge[t][d]
    BY <1>2 DEF SetTo
<1>4. /\ socket'[s][c] = a /\ socket'[o][c] = socket[o][c]
      /\ \A t \in Sides, d \in Conns : (t # s \/ d # c) => socket'[t][d] = socket[t][d]
    BY <1>2 DEF SetTo
<1>5. /\ \A t \in Sides, d \in Conns : (t # s \/ d # c) => queue'[t][d] = queue[t][d]
      /\ \A w, z \in Whats : NoneAfter(queue[s][c], w, z) =>
             NoneAfter(queue'[s][c], w, z) /\ (w = y => Queued(s, c, z)' = 0)
    BY <1>2a, QueueLoses
<1>5a. Queued(s, c, y) > 0 /\ \A w \in Whats : Queued(s, c, w)' = Queued(s, c, w) - (IF w = y THEN 1 ELSE 0)
    BY <1>2a, QueueLoses
<1>6. /\ Queued(s, c, y) > 0
      /\ \A w \in Whats : /\ Queued(s, c, w)' = Queued(s, c, w) - (IF w = y THEN 1 ELSE 0)
                          /\ Queued(o, c, w)' = Queued(o, c, w)
                          /\ Queued(s, c, w)' \in Nat
    <2>1. \A w \in Whats : Queued(o, c, w)' = Queued(o, c, w)
        BY <1>2, <1>5 DEF Queued
    <2>2. \A w \in Whats : Queued(s, c, w)' \in Nat
        BY <1>2, <1>5a
    <2>3. QED  BY <1>5a, <2>1, <2>2
<1>7. \A t \in Sides : \A w : Sent(t, c, w)' = Sent(t, c, w) /\ InHand(t, c, w)' = InHand(t, c, w)
    BY DEF Sent, InHand
<1>8. ReverseShape'
    <2>1. queue' \in [Sides -> [Conns -> Seq(Whats)]] /\ \A t \in Sides, d \in Conns : Len(queue'[t][d]) <= QueueCap
        BY <1>2a, QueueLoses
    <2>2. QED  BY <1>2, <2>1 DEF ReverseShape, SetTo
<1>9. /\ On(s, c, "select") /\ bridge[s][c].at = "select" /\ k.readClosed = bridge[s][c].readClosed
      /\ k.at \in {"write", "select", "last"}
    BY DEF TakesIn, On
<1>10. PermitsOut'
    <2>1. \A d \in Conns : Runs("guest", d)' <=> Runs("guest", d)
        BY <1>2, <1>3, <1>9 DEF Runs, Sides
    <2>2. QED  BY <1>2, <2>1, PermitsStay
<1>11. ASSUME NEW d \in Conns, d # c PROVE Apart(d)
    BY <1>2, <1>3, <1>4, <1>5, <1>11, SameForItself DEF Apart
<1>12. AnnouncedOnce(c)'
    BY <1>1, <1>2, <1>3, <1>7, <1>9 DEF AnnouncedOnce, On, Sides
<1>13. Connection(o, c)'
    <2>1. OnTheirWay(o, c)' = OnTheirWay(o, c)
        BY <1>1, <1>2, <1>3, <1>6, <1>7, <1>9 DEF OnTheirWay, On
    <2>2. NoneLost(o, c)'
        BY <1>1, <1>2, <1>3, <1>4, <1>7, <1>9, <2>1 DEF NoneLost, Connection, Alive, On, TakesIn
    <2>3. LastOf(o, c, "half")' /\ LastOf(o, c, "close")'
        BY <1>1, <1>2, <1>5, <1>6, <1>7 DEF EndsLast, Connection, LastOf
    <2>4. EndsLast(o, c)'
        BY <1>1, <1>2, <1>3, <1>6, <1>7, <1>9, <2>3 DEF EndsLast, Connection, On
    <2>5. BridgeFits(o, c)'
        BY <1>2, <1>3, <1>4, <1>9 DEF BridgeFits, Connection, On, TakesIn
    <2>6. TableFits(o, c)'
        BY <1>1, <1>2, <1>3, <1>6, <1>7 DEF TableFits, Connection, Up, Alive, On
    <2>7. QED  BY <2>2, <2>4, <2>5, <2>6 DEF Connection
<1>14. EndsLast(s, c)'
    <2>1. \A w \in {"half", "close"} : LastOf(s, c, w) => LastOf(s, c, w)'
        BY <1>1, <1>2, <1>5, <1>6, <1>7 DEF LastOf
    <2>2. QED  BY <1>1, <1>2, <1>3, <1>6, <1>7, <2>1 DEF EndsLast, Connection, On
<1>15. TableFits(s, c)'
    BY <1>1, <1>2, <1>3, <1>6, <1>7, <1>9 DEF TableFits, Connection, Up, Alive, On, TakesIn
<1>16. NoneLost(s, c)'
    <2>1. CASE y = "data"
        <3>1. OnTheirWay(s, c)' = OnTheirWay(s, c)
            BY <1>1, <1>2, <1>3, <1>6, <1>7, <1>9, <2>1 DEF OnTheirWay, On, TakesIn
        <3>2. QED  BY <1>1, <1>2, <1>3, <1>4, <1>7, <1>9, <3>1 DEF NoneLost, Connection, Alive, On, TakesIn
    <2>2. CASE y # "data"
        <3>1. OnTheirWay(s, c)' = OnTheirWay(s, c)
            BY <1>1, <1>2, <1>3, <1>6, <1>7, <1>9, <2>2 DEF OnTheirWay, On, TakesIn
        <3>2. QED  BY <1>1, <1>2, <1>3, <1>4, <1>7, <1>9, <3>1 DEF NoneLost, Connection, Alive, On, TakesIn
    <2>3. QED  BY <2>1, <2>2
<1>17. BridgeFits(s, c)'
    <2>1. CASE y = "half"
        <3>1. bridge[o][c].readClosed
            BY <1>1, <1>2, <1>6, <2>1 DEF EndsLast, Connection
        <3>2. InHand(s, c, "data") = 0 /\ Sent(s, c, "data") = 0
            BY <1>1, <1>2, <1>6, <2>1 DEF EndsLast, Connection, LastOf
        <3>3. Queued(s, c, "data") = 0
            BY <1>1, <1>2, <1>5, <1>6, <2>1 DEF EndsLast, Connection, LastOf
        <3>4. OnTheirWay(s, c) = 0
            BY <1>2, <1>9, <3>1, <3>2, <3>3 DEF OnTheirWay, On, Connection, BridgeFits
        <3>5. socket[s][c].given = socket[o][c].wrote
            BY <1>2, <1>9, <3>1, <3>4 DEF NoneLost, Connection, Alive
        <3>6. QED  BY <1>2, <1>3, <1>4, <2>1, <3>1, <3>5 DEF BridgeFits, Connection, TakesIn, On
    <2>2. CASE y # "half"
        BY <1>2, <1>3, <1>4, <2>2 DEF BridgeFits, Connection, TakesIn, On
    <2>3. QED  BY <2>1, <2>2
<1>18. Connection(s, c)'
    BY <1>14, <1>15, <1>16, <1>17 DEF Connection
<1>19. QED  BY <1>8, <1>10, <1>11, <1>12, <1>13, <1>18, StepOfConnection

LEMMA BridgeTakesKeeps ==
    ASSUME ReverseInv, ReverseAssumption, NEW s \in Sides, NEW c \in Conns, BridgeTakes(s, c)
    PROVE  ReverseInv'
<1> DEFINE l == bridge[s][c]
           b == socket[s][c]
           y == Head(queue[s][c])
<1>1. /\ l \in BridgeStates /\ b \in SocketStates /\ b.given \in Nat /\ b.wrote \in Nat /\ ReverseShape
      /\ l.at = "select" /\ ~l.writeClosed
      /\ UNCHANGED <<session, permits, channel, hand, known>>
    BY ReverseCounts DEF ReverseInv, BridgeTakes, On
<1>2. socket = [socket EXCEPT ![s][c] = b]
    BY <1>1 DEF ReverseShape
<1>3. UNCHANGED socket
    BY DEF BridgeTakes
<1>4. MaxWrites(s) \in Nat
    BY DEF MaxWrites, ReverseAssumption
<1>5. queue[s][c] # <<>> => y \in Whats
    BY <1>1, ReverseCounts, TailPlaces
<1>6. CASE queue[s][c] # <<>> /\ queue' = [queue EXCEPT ![s][c] = Tail(@)]
    <2>0. QueueGives(s, c, y) /\ y \in Whats
        BY <1>5, <1>6 DEF QueueGives
    <2>1. CASE y = "data" /\ bridge' = [bridge EXCEPT ![s][c].at = "write"]
        <3> DEFINE k == [l EXCEPT !.at = "write"]
        <3>1. k \in BridgeStates /\ k.at = "write" /\ k.readClosed = l.readClosed /\ k.writeClosed = l.writeClosed
            BY <1>1 DEF BridgeStates
        <3>2. bridge' = [bridge EXCEPT ![s][c] = k] /\ socket' = [socket EXCEPT ![s][c] = b]
            BY <1>2, <1>3, <2>1
        <3> HIDE DEF k
        <3>3. TakesIn(s, c, y, k, b)
            BY <1>1, <1>3, <2>1, <3>1 DEF TakesIn, On
        <3>4. SetTo(bridge, bridge', BridgeStates, s, c, k) /\ SetTo(socket, socket', SocketStates, s, c, b)
            BY <1>1, <3>1, <3>2, BridgeSet, SocketSet
        <3>5. QED  BY <1>1, <1>3, <1>6, <2>0, <3>1, <3>3, <3>4, TakesInKeeps
    <2>2. CASE y = "half" /\ bridge' = [bridge EXCEPT ![s][c].writeClosed = TRUE]
        <3> DEFINE k == [l EXCEPT !.writeClosed = TRUE]
        <3>1. k \in BridgeStates /\ k.at = "select" /\ k.readClosed = l.readClosed /\ k.writeClosed
            BY <1>1 DEF BridgeStates
        <3>2. bridge' = [bridge EXCEPT ![s][c] = k] /\ socket' = [socket EXCEPT ![s][c] = b]
            BY <1>2, <1>3, <2>2
        <3> HIDE DEF k
        <3>3. TakesIn(s, c, y, k, b)
            BY <1>1, <2>2, <3>1 DEF TakesIn, On
        <3>4. SetTo(bridge, bridge', BridgeStates, s, c, k) /\ SetTo(socket, socket', SocketStates, s, c, b)
            BY <1>1, <3>1, <3>2, BridgeSet, SocketSet
        <3>5. QED  BY <1>1, <1>3, <1>6, <2>0, <3>1, <3>3, <3>4, TakesInKeeps
    <2>3. CASE y = "close" /\ bridge' = [bridge EXCEPT ![s][c].at = "last"]
        <3> DEFINE k == [l EXCEPT !.at = "last"]
        <3>1. k \in BridgeStates /\ k.at = "last" /\ k.readClosed = l.readClosed /\ k.writeClosed = l.writeClosed
            BY <1>1 DEF BridgeStates
        <3>2. bridge' = [bridge EXCEPT ![s][c] = k] /\ socket' = [socket EXCEPT ![s][c] = b]
            BY <1>2, <1>3, <2>3
        <3> HIDE DEF k
        <3>3. TakesIn(s, c, y, k, b)
            BY <1>1, <1>3, <2>3, <3>1 DEF TakesIn, On
        <3>4. SetTo(bridge, bridge', BridgeStates, s, c, k) /\ SetTo(socket, socket', SocketStates, s, c, b)
            BY <1>1, <3>1, <3>2, BridgeSet, SocketSet
        <3>5. QED  BY <1>1, <1>3, <1>6, <2>0, <3>1, <3>3, <3>4, TakesInKeeps
    <2>4. QED  BY <1>6, <2>1, <2>2, <2>3 DEF BridgeTakes
<1>7. CASE bridge' = [bridge EXCEPT ![s][c].at = "last"] /\ UNCHANGED queue
    <2> DEFINE k == [l EXCEPT !.at = "last"]
    <2>1. /\ k \in BridgeStates /\ k.at = "last"
          /\ k.readClosed = l.readClosed /\ k.writeClosed = l.writeClosed
        BY <1>1 DEF BridgeStates
    <2>2. bridge' = [bridge EXCEPT ![s][c] = k] /\ socket' = [socket EXCEPT ![s][c] = b]
        BY <1>2, <1>3, <1>7
    <2> HIDE DEF k
    <2>3. GoesOn(s, c, k, b)
        BY <1>1, <2>1, <2>2 DEF On, GoesOn
    <2>4. SetTo(bridge, bridge', BridgeStates, s, c, k) /\ SetTo(socket, socket', SocketStates, s, c, b)
        BY <1>1, <2>1, <2>2, BridgeSet, SocketSet
    <2>5. QED  BY <1>1, <1>3, <1>4, <1>7, <2>1, <2>3, <2>4, BridgeMovesKeeps
<1>8. QED  BY <1>6, <1>7 DEF BridgeTakes


\* Bridge c at s is done: its queue is gone, it is out of the table, and its full close
\* is sent when anybody hears it.
Gone(s, c, k) ==
    /\ SetTo(bridge, bridge', BridgeStates, s, c, k)
    /\ On(s, c, "last") /\ k.at = "done" /\ k.item = "none"
    /\ k.readClosed = bridge[s][c].readClosed /\ k.writeClosed = bridge[s][c].writeClosed
    /\ known' = [known EXCEPT ![s] = @ \ {c}]
    /\ UNCHANGED <<session, hand, socket>>

LEMMA GonePermits ==
    ASSUME ReverseInv, NEW s \in Sides, NEW c \in Conns, NEW k \in BridgeStates, Gone(s, c, k),
           permits' = IF s = "guest" THEN permits + 1 ELSE permits
    PROVE  PermitsOut' /\ permits' \in Nat
<1>1. permits \in Nat /\ IsFiniteSet(RunningConns) /\ permits + Cardinality(RunningConns) = ForwardSlots
    BY DEF PermitsOut, ReverseShape, ReverseInv
<1>2. "guest" \in Sides
    BY DEF Sides
<1>3. \A d \in Conns : (d # c \/ s # "guest") => bridge'["guest"][d] = bridge["guest"][d]
    BY <1>2 DEF Gone, SetTo
<1>4. CASE s = "guest"
    <2>1. Runs("guest", c) /\ ~Runs("guest", c)'
        BY <1>2, <1>4 DEF Gone, SetTo, Runs, On
    <2>2. \A d \in Conns : d # c => (Runs("guest", d)' <=> Runs("guest", d))
        BY <1>3 DEF Runs
    <2>3. RunningConns' = RunningConns \ {c} /\ c \in RunningConns
        BY <2>1, <2>2 DEF RunningConns
    <2>4. Cardinality(RunningConns) \in Nat
        BY <1>1, FS_CardinalityType
    <2>5. IsFiniteSet(RunningConns') /\ Cardinality(RunningConns') = Cardinality(RunningConns) - 1
        BY <1>1, <2>3, FS_RemoveElement
    <2>6. permits' + Cardinality(RunningConns') = ForwardSlots /\ permits' \in Nat
        BY <1>1, <1>4, <2>4, <2>5
    <2>7. QED  BY <2>5, <2>6 DEF PermitsOut
<1>5. CASE s # "guest"
    <2>1. \A d \in Conns : Runs("guest", d)' <=> Runs("guest", d)
        BY <1>3, <1>5 DEF Runs
    <2>2. QED  BY <1>1, <1>5, <2>1, PermitsStay DEF ReverseInv
<1>6. QED  BY <1>4, <1>5

LEMMA BridgeEndsKeeps ==
    ASSUME ReverseInv, ReverseAssumption, NEW s \in Sides, NEW c \in Conns, BridgeEnds(s, c)
    PROVE  ReverseInv'
<1> DEFINE o == Opposite(s)
           l == bridge[s][c]
           k == [l EXCEPT !.at = "done", !.item = "none"]
<1>1. "data" \in Whats /\ "half" \in Whats /\ "close" \in Whats /\ "connected" \in Whats
    BY DEF Whats
<1>2. /\ o \in Sides /\ o # s /\ Opposite(o) = s /\ Sides = {s, o} /\ ReverseShape /\ PermitsOut
      /\ Connection(s, c) /\ Connection(o, c) /\ AnnouncedOnce(c)
      /\ l \in BridgeStates
      /\ socket[s][c].wrote \in Nat /\ socket[s][c].given \in Nat
      /\ socket[o][c].wrote \in Nat /\ socket[o][c].given \in Nat
      /\ \A t \in Sides, w \in Whats :
             Queued(t, c, w) \in Nat /\ Sent(t, c, w) \in Nat /\ InHand(t, c, w) \in {0, 1}
    BY ConnectionFacts
<1>3. ReverseShape
    BY <1>2
<1>4. /\ k \in BridgeStates /\ k.at = "done" /\ k.item = "none"
      /\ k.readClosed = l.readClosed /\ k.writeClosed = l.writeClosed
    BY <1>2 DEF BridgeStates
<1>5. bridge' = [bridge EXCEPT ![s][c] = k]
    BY DEF BridgeEnds, Frees
<1> HIDE DEF k
<1>6. SetTo(bridge, bridge', BridgeStates, s, c, k)
    BY <1>3, <1>4, <1>5, BridgeSet
<1>7. Gone(s, c, k)
    BY <1>4, <1>6 DEF BridgeEnds, Gone
<1>8. /\ bridge'[s][c] = k /\ bridge'[o][c] = bridge[o][c] /\ l.at = "last"
      /\ \A t \in Sides, d \in Conns : (t # s \/ d # c) => bridge'[t][d] = bridge[t][d]
    BY <1>2, <1>6 DEF SetTo, BridgeEnds, On
<1>9. UNCHANGED <<session, hand, socket>>
    BY DEF Gone, BridgeEnds
<1>10. PermitsOut' /\ permits' \in Nat
    BY <1>4, <1>7, GonePermits DEF BridgeEnds, Frees
<1>11. known' \in [Sides -> SUBSET Conns] /\ known'[s] = known[s] \ {c} /\ known'[o] = known[o]
    BY <1>2 DEF ReverseShape, BridgeEnds
<1>12. /\ SetTo(queue, queue', Seq(Whats), s, c, <<>>)
       /\ \A t \in Sides, d \in Conns : Len(queue'[t][d]) <= QueueCap
    <2>1. <<>> \in Seq(Whats) /\ Len(<<>>) <= QueueCap
        BY DEF ReverseAssumption
    <2>2. queue' = [queue EXCEPT ![s][c] = <<>>]
        BY DEF BridgeEnds
    <2>3. QED  BY <1>3, <2>1, <2>2, QueueSet
<1>13. \A t \in Sides, d \in Conns : (t # s \/ d # c) => queue'[t][d] = queue[t][d]
    BY <1>12 DEF SetTo
<1>14. \A w \in Whats : /\ Queued(s, c, w)' = 0 /\ Queued(o, c, w)' = Queued(o, c, w)
                        /\ InHand(s, c, w)' = InHand(s, c, w) /\ InHand(o, c, w)' = InHand(o, c, w)
    <2>1. queue'[s][c] = <<>>
        BY <1>12 DEF SetTo
    <2>2. \A w : Queued(s, c, w)' = 0
        BY <2>1, NoCopy DEF Queued
    <2>3. \A w : Queued(o, c, w)' = Queued(o, c, w)
        BY <1>2, <1>13 DEF Queued
    <2>4. QED  BY <1>9, <2>2, <2>3 DEF InHand
<1>15. \A w : NoneAfter(queue'[s][c], w, "data") /\ (NoneAfter(queue[o][c], w, "data") => NoneAfter(queue'[o][c], w, "data"))
    <2>1. queue'[s][c] = <<>>
        BY <1>12 DEF SetTo
    <2>2. QED  BY <1>2, <1>13, <2>1, NoneAfterEmpty
<1>16. \/ ChannelGains(s, c, "close")
       \/ UNCHANGED channel
    BY <1>1, <1>3, EventSent DEF BridgeEnds, Sendable
<1>17. /\ channel' \in [Sides -> Seq(ConnEvents)] /\ \A t \in Sides : Len(channel'[t]) <= ChanCap
       /\ \A t \in Sides, d \in Conns : (t # s \/ d # c) => SameFor(channel[t], channel'[t], d)
    BY <1>3, <1>16, SameForItself DEF ChannelGains, ReverseShape
<1>17a. \A t \in Sides, d \in Conns : (t # s \/ d # c) => SameFor(channel[t], channel'[t], d)
    BY <1>17
<1>18. /\ \A w \in Whats : Sent(s, c, w)' = Sent(s, c, w) /\ Sent(o, c, w)' \in Nat
       /\ \A w \in Whats : w # "close" => Sent(o, c, w)' = Sent(o, c, w)
    <2>1. Sent(o, c, "close")' = Sent(o, c, "close") + 1 \/ Sent(o, c, "close")' = Sent(o, c, "close")
        BY <1>1, <1>2, <1>16 DEF Sent, ChannelGains
    <2>2. \A w \in Whats : Sent(s, c, w)' = Sent(s, c, w)
        BY <1>2, <1>17a DEF Sent, SameFor
    <2>3. \A w \in Whats : w # "close" => Sent(o, c, w)' = Sent(o, c, w)
        <3>1. CASE ChannelGains(s, c, "close")
            BY <1>2, <3>1 DEF Sent, ChannelGains
        <3>2. CASE UNCHANGED channel
            BY <3>2 DEF Sent
        <3>3. QED  BY <1>16, <3>1, <3>2
    <2>4. QED  BY <1>1, <1>2, <2>1, <2>2, <2>3
<1>19. /\ \A y, z \in Whats : NoneAfter(channel[o], Ev(c, y), Ev(c, z)) => NoneAfter(channel'[o], Ev(c, y), Ev(c, z))
       /\ \A y, z \in Whats : (NoneAfter(channel[s], Ev(c, y), Ev(c, z)) /\ z # "close") => NoneAfter(channel'[s], Ev(c, y), Ev(c, z))
    <2>1. \A y, z \in Whats : NoneAfter(channel[o], Ev(c, y), Ev(c, z)) => NoneAfter(channel'[o], Ev(c, y), Ev(c, z))
        BY <1>2, <1>17a DEF SameFor
    <2>2. \A y, z \in Whats : (NoneAfter(channel[s], Ev(c, y), Ev(c, z)) /\ z # "close") => NoneAfter(channel'[s], Ev(c, y), Ev(c, z))
        BY <1>16 DEF ChannelGains
    <2>3. QED  BY <2>1, <2>2
<1>20. ReverseShape'
    BY <1>3, <1>6, <1>9, <1>10, <1>11, <1>12, <1>17 DEF ReverseShape, SetTo
<1>21. ASSUME NEW d \in Conns, d # c PROVE Apart(d)
    BY <1>2, <1>8, <1>9, <1>11, <1>13, <1>17a, <1>21 DEF Apart
<1>22. Connection(s, c)'
    <2>1. OnTheirWay(s, c)' \in Nat /\ OnTheirWay(s, c) \in Nat /\ OnTheirWay(s, c)' <= OnTheirWay(s, c)
        BY <1>1, <1>2, <1>4, <1>8, <1>14, <1>18 DEF OnTheirWay, On
    <2>2. NoneLost(s, c)'
        BY <1>1, <1>2, <1>4, <1>8, <1>9, <1>18, <2>1 DEF NoneLost, Connection, Alive, On
    <2>3. EndsLast(s, c)'
        BY <1>1, <1>2, <1>8, <1>14, <1>15, <1>18, <1>19 DEF EndsLast, Connection, LastOf, On
    <2>4. BridgeFits(s, c)'
        BY <1>2, <1>4, <1>8, <1>9 DEF BridgeFits, Connection, On
    <2>5. TableFits(s, c)'
        BY <1>4, <1>8 DEF TableFits, Alive, On
    <2>6. QED  BY <2>2, <2>3, <2>4, <2>5 DEF Connection
<1>23. Connection(o, c)'
    <2>1. OnTheirWay(o, c)' = OnTheirWay(o, c)
        BY <1>1, <1>2, <1>4, <1>8, <1>14, <1>18 DEF OnTheirWay, On
    <2>2. NoneLost(o, c)'
        BY <1>1, <1>2, <1>4, <1>8, <1>9, <1>18, <2>1 DEF NoneLost, Connection, Alive, On
    <2>3. Queued(o, c, "close") = 0 /\ InHand(o, c, "close") = 0 /\ Sent(o, c, "close") = 0
        BY <1>1, <1>2, <1>8 DEF EndsLast, Connection, On
    <2>4. LastOf(o, c, "half")' /\ LastOf(o, c, "close")'
        BY <1>1, <1>2, <1>14, <1>15, <1>18, <1>19, <2>3 DEF EndsLast, Connection, LastOf
    <2>5. EndsLast(o, c)'
        BY <1>1, <1>2, <1>4, <1>8, <1>14, <1>18, <2>4 DEF EndsLast, Connection, On
    <2>6. BridgeFits(o, c)'
        BY <1>2, <1>4, <1>8, <1>9 DEF BridgeFits, Connection, On
    <2>7. TableFits(o, c)'
        BY <1>1, <1>2, <1>8, <1>9, <1>11, <1>14 DEF TableFits, Connection, Up, Alive, On
    <2>8. QED  BY <2>2, <2>5, <2>6, <2>7 DEF Connection
<1>24. AnnouncedOnce(c)'
    <2>1. \A t \in Sides : /\ Sent(t, c, "connected")' = Sent(t, c, "connected") /\ Sent(t, c, "data")' = Sent(t, c, "data")
                           /\ InHand(t, c, "connected")' = InHand(t, c, "connected")
        BY <1>1, <1>2, <1>14, <1>18
    <2>2. \A t \in Sides : \A p \in {"none", "born", "connect", "select", "send", "write", "last"} : On(t, c, p)' => On(t, c, p)
        BY <1>2, <1>4, <1>8 DEF On
    <2>3. \A t \in Sides : On(t, c, "none") => On(t, c, "none")'
        BY <1>2, <1>8 DEF On
    <2>4. On("guest", c, "born") => On("guest", c, "born")'
        BY <1>2, <1>8 DEF On, Sides
    <2>5. "guest" \in Sides /\ "client" \in Sides
        BY DEF Sides
    <2>6. NoneAfter(channel["guest"], Ev(c, "data"), Ev(c, "connected")) => NoneAfter(channel'["guest"], Ev(c, "data"), Ev(c, "connected"))
        BY <1>1, <1>2, <1>19, <2>5
    <2>7. QED  BY <1>2, <2>1, <2>2, <2>3, <2>4, <2>5, <2>6 DEF AnnouncedOnce
<1>25. QED  BY <1>10, <1>20, <1>21, <1>22, <1>23, <1>24, StepOfConnection


\* The loop at s ends: what it holds is gone with its table, and some of its bridges with it.
LoopEnds(s) ==
    /\ session' = [session EXCEPT ![s] = "over"]
    /\ hand' = [hand EXCEPT ![s] = NoEvent]
    /\ known' = [known EXCEPT ![s] = {}]
    /\ UNCHANGED <<channel, queue, socket>>
    /\ bridge' \in [Sides -> [Conns -> BridgeStates]]
    /\ \A d \in Conns :
        /\ bridge'[Opposite(s)][d] = bridge[Opposite(s)][d]
        /\ bridge'[s][d].readClosed = bridge[s][d].readClosed
        /\ bridge'[s][d].writeClosed = bridge[s][d].writeClosed
        /\ bridge'[s][d].item = bridge[s][d].item
        /\ \/ bridge'[s][d].at = bridge[s][d].at
           \/ bridge'[s][d].at = "done" /\ bridge[s][d].at # "none"
        /\ Alive(s, d)' => InHand(s, d, "data") = 0

LEMMA LoopEndsKeeps ==
    ASSUME ReverseInv, NEW s \in Sides, LoopEnds(s), PermitsOut', permits' \in Nat
    PROVE  ReverseInv'
<1> DEFINE o == Opposite(s)
<1>1. "data" \in Whats /\ "half" \in Whats /\ "close" \in Whats /\ "connected" \in Whats
    BY DEF Whats
<1>2. o \in Sides /\ o # s /\ Opposite(o) = s /\ Sides = {s, o} /\ ReverseShape
    BY SidesOpposite DEF ReverseInv
<1>3. /\ session' \in [Sides -> {"up", "over"}] /\ session'[s] = "over" /\ session'[o] = session[o]
      /\ known' \in [Sides -> SUBSET Conns] /\ known'[s] = {} /\ known'[o] = known[o]
    BY <1>2 DEF ReverseShape, LoopEnds
<1>4. hand' \in [Sides -> ConnEvents \cup {NoEvent}] /\ hand'[s] = NoEvent /\ hand'[o] = hand[o]
    BY <1>2, HandSet DEF LoopEnds
<1>5. UNCHANGED <<channel, queue, socket>> /\ bridge' \in [Sides -> [Conns -> BridgeStates]]
    BY DEF LoopEnds
<1>6. ReverseShape'
    BY <1>2, <1>3, <1>4, <1>5 DEF ReverseShape
<1>7. ASSUME NEW c \in Conns PROVE Connection(s, c)' /\ Connection(o, c)' /\ AnnouncedOnce(c)'
    <2>1. /\ Connection(s, c) /\ Connection(o, c) /\ AnnouncedOnce(c)
          /\ socket[s][c].wrote \in Nat /\ socket[s][c].given \in Nat
          /\ socket[o][c].wrote \in Nat /\ socket[o][c].given \in Nat
          /\ \A t \in Sides, w \in Whats :
                 Queued(t, c, w) \in Nat /\ Sent(t, c, w) \in Nat /\ InHand(t, c, w) \in {0, 1}
        BY <1>2, ConnectionFacts
    <2>2. /\ bridge'[o][c] = bridge[o][c]
          /\ bridge'[s][c].readClosed = bridge[s][c].readClosed
          /\ bridge'[s][c].writeClosed = bridge[s][c].writeClosed
          /\ bridge'[s][c].item = bridge[s][c].item
          /\ \/ bridge'[s][c].at = bridge[s][c].at
             \/ bridge'[s][c].at = "done" /\ bridge[s][c].at # "none"
          /\ Alive(s, c)' => InHand(s, c, "data") = 0
        BY DEF LoopEnds
    <2>3. \A w \in Whats : InHand(s, c, w)' = 0 /\ InHand(o, c, w)' = InHand(o, c, w)
        BY <1>4, HandEmpty DEF InHand
    <2>4. \A t \in Sides : \A w : Queued(t, c, w)' = Queued(t, c, w) /\ Sent(t, c, w)' = Sent(t, c, w)
        BY <1>5 DEF Queued, Sent
    <2>5. Connection(s, c)'
        <3>1. /\ OnTheirWay(s, c)' \in Nat /\ OnTheirWay(s, c) \in Nat /\ OnTheirWay(s, c)' <= OnTheirWay(s, c)
              /\ Alive(s, c)' => OnTheirWay(s, c)' = OnTheirWay(s, c)
            BY <1>1, <1>2, <2>1, <2>2, <2>3, <2>4 DEF OnTheirWay, On, Alive
        <3>2. NoneLost(s, c)'
            BY <1>1, <1>2, <1>5, <2>1, <2>2, <2>4, <3>1 DEF NoneLost, Connection, Alive, On
        <3>3. EndsLast(s, c)'
            BY <1>1, <1>2, <1>5, <2>1, <2>2, <2>3, <2>4 DEF EndsLast, Connection, LastOf, On
        <3>4. BridgeFits(s, c)'
            BY <1>2, <1>5, <2>1, <2>2 DEF BridgeFits, Connection, On
        <3>5. TableFits(s, c)'
            BY <1>1, <1>3, <2>3 DEF TableFits, Up
        <3>6. QED  BY <3>2, <3>3, <3>4, <3>5 DEF Connection
    <2>6. Connection(o, c)'
        <3>1. /\ OnTheirWay(o, c)' \in Nat /\ OnTheirWay(o, c) \in Nat /\ OnTheirWay(o, c)' <= OnTheirWay(o, c)
              /\ OnTheirWay(o, c)' = OnTheirWay(o, c) \/ (bridge[s][c].at = "send" /\ bridge[s][c].item = "data" /\ ~Alive(s, c)')
            BY <1>1, <1>2, <2>1, <2>2, <2>3, <2>4 DEF OnTheirWay, On, Alive
        <3>2. (bridge[s][c].at = "send" /\ bridge[s][c].item = "data") => ~bridge[s][c].readClosed
            BY <2>1 DEF Connection, BridgeFits, On
        <3>3. NoneLost(o, c)'
            BY <1>1, <1>2, <1>5, <2>1, <2>2, <2>4, <3>1, <3>2 DEF NoneLost, Connection, Alive, On
        <3>4. EndsLast(o, c)'
            BY <1>1, <1>2, <1>5, <2>1, <2>2, <2>3, <2>4 DEF EndsLast, Connection, LastOf, On
        <3>5. BridgeFits(o, c)'
            BY <1>2, <1>5, <2>1, <2>2 DEF BridgeFits, Connection, On
        <3>6. TableFits(o, c)'
            BY <1>1, <1>2, <1>3, <2>1, <2>2, <2>3, <2>4 DEF TableFits, Connection, Up, Alive, On
        <3>7. QED  BY <3>3, <3>4, <3>5, <3>6 DEF Connection
    <2>7. AnnouncedOnce(c)'
        <3>1. \A t \in Sides : /\ Sent(t, c, "connected")' = Sent(t, c, "connected") /\ Sent(t, c, "data")' = Sent(t, c, "data")
                               /\ InHand(t, c, "connected")' <= InHand(t, c, "connected")
                               /\ InHand(t, c, "connected")' \in {0, 1}
            BY <1>1, <1>2, <2>1, <2>3, <2>4
        <3>2. \A t \in Sides : \A p \in {"none", "born", "connect", "select", "send", "write", "last"} : On(t, c, p)' => On(t, c, p)
            BY <1>2, <2>2 DEF On
        <3>3. \A t \in Sides : On(t, c, "none") => On(t, c, "none")'
            BY <1>2, <2>2 DEF On
        <3>4. "guest" \in Sides /\ "client" \in Sides
            BY DEF Sides
        <3>5. InHand("guest", c, "connected")' = 0 \/ (On("guest", c, "born") => On("guest", c, "born")')
            BY <1>1, <1>2, <2>2, <2>3, <3>4 DEF On
        <3>6. InHand("client", c, "connected")' = 0
            BY <2>1, <3>1, <3>4 DEF AnnouncedOnce
        <3>7. InHand("guest", c, "connected")' > 0 => On("guest", c, "born")'
            <4>1. InHand("guest", c, "connected")' > 0 => InHand("guest", c, "connected") > 0
                BY <1>1, <2>1, <3>1, <3>4
            <4>2. InHand("guest", c, "connected") > 0 => On("guest", c, "born")
                BY <2>1 DEF AnnouncedOnce
            <4>3. QED  BY <3>5, <4>1, <4>2
        <3>8. NoneAfter(channel["guest"], Ev(c, "data"), Ev(c, "connected")) => NoneAfter(channel'["guest"], Ev(c, "data"), Ev(c, "connected"))
            BY <1>5
        <3>9. AnnouncedOnce(c)
            BY <2>1
        <3>10. QED  BY <3>1, <3>2, <3>3, <3>4, <3>6, <3>7, <3>8, <3>9 DEF AnnouncedOnce
    <2>8. QED  BY <2>5, <2>6, <2>7
<1>8. \A t \in Sides, c \in Conns : Connection(t, c)'
    BY <1>2, <1>7
<1>9. QED  BY <1>6, <1>7, <1>8 DEF ReverseInv

LEMMA ClientEndsKeeps ==
    ASSUME ReverseInv, ClientEnds
    PROVE  ReverseInv'
<1>1. "client" \in Sides /\ "guest" \in Sides /\ Opposite("client") = "guest" /\ ReverseShape
    BY DEF Sides, Opposite, ReverseInv
<1> DEFINE g == [c \in Conns |-> IF Runs("client", c) THEN [bridge["client"][c] EXCEPT !.at = "done"] ELSE bridge["client"][c]]
<1>2. bridge' = [bridge EXCEPT !["client"] = g]
    BY <1>1 DEF ClientEnds, ReverseShape
<1>3. \A c \in Conns : bridge["client"][c] \in BridgeStates
    BY <1>1 DEF ReverseShape
<1>4. \A c \in Conns : /\ g[c] \in BridgeStates
                       /\ g[c].readClosed = bridge["client"][c].readClosed
                       /\ g[c].writeClosed = bridge["client"][c].writeClosed
                       /\ g[c].item = bridge["client"][c].item
                       /\ g[c].at = IF Runs("client", c) THEN "done" ELSE bridge["client"][c].at
    BY <1>3 DEF BridgeStates
<1>5. g \in [Conns -> BridgeStates]
    BY <1>4
<1> HIDE DEF g
<1>6. /\ bridge' \in [Sides -> [Conns -> BridgeStates]] /\ bridge'["client"] = g
      /\ bridge'["guest"] = bridge["guest"]
    BY <1>1, <1>2, <1>5 DEF ReverseShape
<1>7. ASSUME NEW c \in Conns, Alive("client", c)' PROVE InHand("client", c, "data") = 0
    <2>1. On("client", c, "none")
        BY <1>4, <1>6, <1>7 DEF Alive, Runs, On
    <2>2. TableFits("client", c)
        BY <1>1 DEF ReverseInv, Connection
    <2>3. \A w : InHand("client", c, w) \in {0, 1}
        BY DEF InHand
    <2>4. QED  BY <2>1, <2>2, <2>3 DEF TableFits
<1>8. \A d \in Conns :
        /\ bridge'["guest"][d] = bridge["guest"][d]
        /\ bridge'["client"][d].readClosed = bridge["client"][d].readClosed
        /\ bridge'["client"][d].writeClosed = bridge["client"][d].writeClosed
        /\ bridge'["client"][d].item = bridge["client"][d].item
        /\ \/ bridge'["client"][d].at = bridge["client"][d].at
           \/ bridge'["client"][d].at = "done" /\ bridge["client"][d].at # "none"
    BY <1>4, <1>6 DEF Runs
<1>9. LoopEnds("client")
    <2>1. /\ session' = [session EXCEPT !["client"] = "over"]
          /\ hand' = [hand EXCEPT !["client"] = NoEvent]
          /\ known' = [known EXCEPT !["client"] = {}]
          /\ UNCHANGED <<channel, queue, socket>>
        BY DEF ClientEnds
    <2>2. QED  BY <1>1, <1>6, <1>7, <1>8, <2>1 DEF LoopEnds
<1>10. PermitsOut' /\ permits' \in Nat
    <2>1. permits' = permits /\ \A d \in Conns : Runs("guest", d)' <=> Runs("guest", d)
        BY <1>6 DEF ClientEnds, Runs
    <2>2. QED  BY <1>1, <2>1, PermitsStay DEF ReverseInv, ReverseShape
<1>11. QED  BY <1>1, <1>9, <1>10, LoopEndsKeeps

LEMMA GuestEndsKeeps ==
    ASSUME ReverseInv, GuestEnds
    PROVE  ReverseInv'
<1>1. "client" \in Sides /\ "guest" \in Sides /\ Opposite("guest") = "client" /\ ReverseShape
    BY DEF Sides, Opposite, ReverseInv
<1> DEFINE g == [c \in Conns |-> IF On("guest", c, "born") THEN [bridge["guest"][c] EXCEPT !.at = "done"] ELSE bridge["guest"][c]]
           Unborn == {c \in Conns : On("guest", c, "born")}
<1>2. bridge' = [bridge EXCEPT !["guest"] = g]
    BY <1>1 DEF GuestEnds, ReverseShape
<1>3. \A c \in Conns : bridge["guest"][c] \in BridgeStates
    BY <1>1 DEF ReverseShape
<1>4. \A c \in Conns : /\ g[c] \in BridgeStates
                       /\ g[c].readClosed = bridge["guest"][c].readClosed
                       /\ g[c].writeClosed = bridge["guest"][c].writeClosed
                       /\ g[c].item = bridge["guest"][c].item
                       /\ g[c].at = IF On("guest", c, "born") THEN "done" ELSE bridge["guest"][c].at
    BY <1>3 DEF BridgeStates
<1>5. g \in [Conns -> BridgeStates]
    BY <1>4
<1> HIDE DEF g
<1>6. /\ bridge' \in [Sides -> [Conns -> BridgeStates]] /\ bridge'["guest"] = g
      /\ bridge'["client"] = bridge["client"]
    BY <1>1, <1>2, <1>5 DEF ReverseShape
<1>7. ASSUME NEW c \in Conns PROVE InHand("guest", c, "data") = 0
    <2>1. hand["guest"].what # "data"
        BY DEF GuestEnds, NoEvent
    <2>2. Ev(c, "data").what = "data"
        BY DEF Ev
    <2>3. QED  BY <2>1, <2>2 DEF InHand
<1>8. \A d \in Conns :
        /\ bridge'["client"][d] = bridge["client"][d]
        /\ bridge'["guest"][d].readClosed = bridge["guest"][d].readClosed
        /\ bridge'["guest"][d].writeClosed = bridge["guest"][d].writeClosed
        /\ bridge'["guest"][d].item = bridge["guest"][d].item
        /\ \/ bridge'["guest"][d].at = bridge["guest"][d].at
           \/ bridge'["guest"][d].at = "done" /\ bridge["guest"][d].at # "none"
    BY <1>4, <1>6 DEF On
<1>9. LoopEnds("guest")
    <2>1. /\ session' = [session EXCEPT !["guest"] = "over"]
          /\ hand' = [hand EXCEPT !["guest"] = NoEvent]
          /\ known' = [known EXCEPT !["guest"] = {}]
          /\ UNCHANGED <<channel, queue, socket>>
        BY DEF GuestEnds
    <2>2. QED  BY <1>1, <1>6, <1>7, <1>8, <2>1 DEF LoopEnds
<1>10. PermitsOut' /\ permits' \in Nat
    <2>1. permits \in Nat /\ IsFiniteSet(RunningConns) /\ permits + Cardinality(RunningConns) = ForwardSlots
        BY DEF PermitsOut, ReverseShape, ReverseInv
    <2>2. \A d \in Conns : Runs("guest", d)' <=> (Runs("guest", d) /\ ~On("guest", d, "born"))
        BY <1>4, <1>6 DEF Runs, On
    <2>3. Unborn \subseteq RunningConns
        BY DEF RunningConns, Runs, On
    <2>4. RunningConns' = RunningConns \ Unborn
        BY <2>2 DEF RunningConns
    <2>5. permits' = permits + Cardinality(Unborn)
        BY DEF GuestEnds
    <2> HIDE DEF Unborn
    <2>6. IsFiniteSet(Unborn) /\ IsFiniteSet(RunningConns')
        BY <2>1, <2>3, <2>4, FS_Subset
    <2>7. RunningConns \cap Unborn = Unborn
        BY <2>3
    <2>8. Cardinality(RunningConns') = Cardinality(RunningConns) - Cardinality(Unborn)
        BY <2>1, <2>4, <2>7, FS_Difference
    <2>9. Cardinality(RunningConns') \in Nat /\ Cardinality(Unborn) \in Nat /\ Cardinality(RunningConns) \in Nat
        BY <2>1, <2>6, FS_CardinalityType
    <2>10. permits' + Cardinality(RunningConns') = ForwardSlots /\ permits' \in Nat
        BY <2>1, <2>5, <2>8, <2>9
    <2>11. QED  BY <2>6, <2>10 DEF PermitsOut
<1>11. QED  BY <1>1, <1>9, <1>10, LoopEndsKeeps


LEMMA ReverseInitHolds ==
    ASSUME ReverseAssumption, ReverseInit
    PROVE  ReverseInv
<1> DEFINE z == [at |-> "none", item |-> "none", readClosed |-> FALSE, writeClosed |-> FALSE]
           a == [wrote |-> 0, given |-> 0]
<1>1. z \in BridgeStates /\ a \in SocketStates
    BY DEF BridgeStates, SocketStates
<1>2. /\ z.at = "none" /\ z.item = "none" /\ z.readClosed = FALSE /\ z.writeClosed = FALSE
      /\ a.wrote = 0 /\ a.given = 0
    OBVIOUS
<1>3. /\ session = [s \in Sides |-> "up"] /\ permits = ForwardSlots
      /\ channel = [s \in Sides |-> <<>>] /\ hand = [s \in Sides |-> NoEvent]
      /\ queue = [s \in Sides |-> [c \in Conns |-> <<>>]]
      /\ known = [s \in Sides |-> {}]
      /\ bridge = [s \in Sides |-> [c \in Conns |-> z]]
      /\ socket = [s \in Sides |-> [c \in Conns |-> a]]
    BY DEF ReverseInit
<1> HIDE DEF z, a
<1>4. ReverseShape
    <2>1. <<>> \in Seq(Whats) /\ <<>> \in Seq(ConnEvents) /\ Len(<<>>) = 0 /\ 0 <= QueueCap /\ 0 <= ChanCap
        BY DEF ReverseAssumption
    <2>2. permits \in Nat
        BY <1>3 DEF ReverseAssumption
    <2>3. /\ channel \in [Sides -> Seq(ConnEvents)] /\ \A s \in Sides : Len(channel[s]) <= ChanCap
          /\ queue \in [Sides -> [Conns -> Seq(Whats)]]
          /\ \A s \in Sides, c \in Conns : Len(queue[s][c]) <= QueueCap
        BY <1>3, <2>1
    <2>4. QED  BY <1>1, <1>3, <2>2, <2>3 DEF ReverseShape
<1>5. ASSUME NEW s \in Sides, NEW c \in Conns PROVE Connection(s, c) /\ AnnouncedOnce(c)
    <2>1. Opposite(s) \in Sides
        BY SidesOpposite
    <2>2. \A t \in Sides : bridge[t][c] = z /\ socket[t][c] = a /\ queue[t][c] = <<>> /\ channel[t] = <<>> /\ hand[t] = NoEvent /\ known[t] = {}
        BY <1>3
    <2>3. \A t \in Sides : Opposite(t) \in Sides
        BY SidesOpposite
    <2>4. \A t \in Sides : \A w \in Whats : Queued(t, c, w) = 0 /\ InHand(t, c, w) = 0 /\ Sent(t, c, w) = 0
        BY <2>2, <2>3, NoCopy, HandEmpty DEF Queued, InHand, Sent
    <2>5. "data" \in Whats /\ "half" \in Whats /\ "close" \in Whats /\ "connected" \in Whats
        BY DEF Whats
    <2>6. \A t \in Sides : \A x, y : NoneAfter(channel[t], x, y) /\ NoneAfter(queue[t][c], x, y)
        BY <2>2, NoneAfterEmpty
    <2>7. \A t \in Sides : /\ bridge[t][c].at = "none" /\ bridge[t][c].item = "none" /\ bridge[t][c].readClosed = FALSE
                             /\ bridge[t][c].writeClosed = FALSE
                             /\ socket[t][c].wrote = 0 /\ socket[t][c].given = 0 /\ known[t] = {}
        BY <1>2, <2>2
    <2>8. MaxWrites(s) >= 0
        BY DEF MaxWrites, ReverseAssumption
    <2>9. "guest" \in Sides /\ "client" \in Sides
        BY DEF Sides
    <2>10. NoneLost(s, c)
        BY <2>1, <2>4, <2>5, <2>7 DEF NoneLost, OnTheirWay, On
    <2>11. EndsLast(s, c)
        BY <2>1, <2>4, <2>5, <2>6 DEF EndsLast, LastOf
    <2>12. BridgeFits(s, c)
        BY <2>1, <2>7, <2>8 DEF BridgeFits, On
    <2>13. TableFits(s, c)
        BY <2>1, <2>4, <2>5, <2>7 DEF TableFits, On
    <2>14. AnnouncedOnce(c)
        BY <2>4, <2>5, <2>6, <2>7, <2>9 DEF AnnouncedOnce, On
    <2>15. QED  BY <2>10, <2>11, <2>12, <2>13, <2>14 DEF Connection
<1>6. PermitsOut
    <2>1. \A c \in Conns : bridge["guest"][c].at = "none"
        BY <1>2, <1>3 DEF Sides
    <2>2. RunningConns = {}
        BY <2>1 DEF RunningConns, Runs
    <2>3. QED  BY <1>3, <2>2, FS_EmptySet DEF PermitsOut, ReverseAssumption
<1>7. "guest" \in Sides
    BY DEF Sides
<1>8. QED  BY <1>4, <1>5, <1>6, <1>7 DEF ReverseInv

LEMMA ReverseStays ==
    ASSUME ReverseInv, UNCHANGED reverseVars
    PROVE  ReverseInv'
<1>1. UNCHANGED <<session, permits, channel, hand, queue, known, bridge, socket>>
    BY DEF reverseVars
<1>2. ReverseShape'
    BY <1>1 DEF ReverseInv, ReverseShape
<1>3. \A d \in Conns : Apart(d)
    BY <1>1, SameForItself DEF Apart
<1>4. PermitsOut'
    BY <1>1, PermitsStay DEF ReverseInv, Runs
<1>5. \A t \in Sides, d \in Conns : Connection(t, d)'
    BY <1>3, ApartKept DEF ReverseInv
<1>6. \A d \in Conns : AnnouncedOnce(d)'
    BY <1>3, ApartAnnounced DEF ReverseInv
<1>7. QED  BY <1>2, <1>4, <1>5, <1>6 DEF ReverseInv

LEMMA ReverseNextKeeps ==
    ASSUME ReverseAssumption, ReverseInv, [ReverseNext]_reverseVars
    PROVE  ReverseInv'
<1>1. ASSUME NEW c \in Conns, Accepted(c) \/ Announced(c) \/ Connects(c) \/ CannotConnect(c) PROVE ReverseInv'
    BY <1>1, AcceptedKeeps, AnnouncedKeeps, ConnectKeeps
<1>2. ASSUME NEW s \in Sides, LoopTurn(s) PROVE ReverseInv'
    BY <1>2, TakenKeeps, HandedOverKeeps DEF LoopTurn
<1>3. ASSUME NEW s \in Sides, NEW c \in Conns, BridgeStep(s, c) \/ Copies(s, c) PROVE ReverseInv'
    BY <1>3, BridgeReadsKeeps, BridgeSendsKeeps, BridgeTakesKeeps, BridgeWritesKeeps, BothClosedKeeps,
       BridgeEndsKeeps DEF BridgeStep, Copies
<1>4. CASE ClientEnds \/ GuestEnds
    BY <1>4, ClientEndsKeeps, GuestEndsKeeps
<1>5. CASE UNCHANGED reverseVars
    BY <1>5, ReverseStays
<1>6. QED  BY <1>1, <1>2, <1>3, <1>4, <1>5 DEF ReverseNext

\* What is said of it follows.
LEMMA ReverseTold ==
    ASSUME ReverseAssumption, ReverseInv
    PROVE  ReverseComplete /\ ReverseTypeOK
<1>1. ReverseShape /\ PermitsOut /\ \A s \in Sides, c \in Conns : Connection(s, c)
    BY DEF ReverseInv
<1>2. ReverseComplete
    BY <1>1 DEF ReverseComplete, InputOver, Runs, On, Connection, BridgeFits, PermitsOut, RunningConns
<1>3. permits \in 0 .. ForwardSlots
    <2>1. Cardinality(RunningConns) \in Nat /\ permits \in Nat /\ permits + Cardinality(RunningConns) = ForwardSlots
        BY <1>1, FS_CardinalityType DEF PermitsOut, ReverseShape
    <2>2. QED  BY <2>1 DEF ReverseAssumption
<1>4. ASSUME NEW s \in Sides
      PROVE  hand[s].what \in {"none", "connected", "data", "half", "close"}
    BY <1>1 DEF ReverseShape, ConnEvents, Whats, NoEvent
<1>5. ASSUME NEW s \in Sides, NEW c \in Conns
      PROVE  /\ bridge[s][c].at \in {"none", "born", "connect", "select", "send", "write", "last", "done"}
             /\ socket[s][c].wrote \in 0 .. MaxWrites(s)
             /\ socket[s][c].given \in 0 .. MaxWrites(Opposite(s))
    <2> DEFINE o == Opposite(s)
    <2>1. /\ o \in Sides /\ Connection(s, c) /\ Connection(o, c) /\ bridge[s][c] \in BridgeStates
          /\ socket[s][c].wrote \in Nat /\ socket[s][c].given \in Nat /\ socket[o][c].wrote \in Nat
          /\ \A t \in {s, o}, w \in Whats :
                 Queued(t, c, w) \in Nat /\ Sent(t, c, w) \in Nat /\ InHand(t, c, w) \in {0, 1}
        BY ConnectionFacts
    <2>2. "data" \in Whats /\ MaxWrites(s) \in Nat /\ MaxWrites(o) \in Nat
        BY DEF Whats, MaxWrites, ReverseAssumption
    <2>3. OnTheirWay(s, c) \in Nat
        BY <2>1, <2>2 DEF OnTheirWay
    <2>4. socket[s][c].given <= socket[o][c].wrote /\ socket[o][c].wrote <= MaxWrites(o) /\ socket[s][c].wrote <= MaxWrites(s)
        BY <2>1, <2>2, <2>3 DEF Connection, NoneLost, BridgeFits
    <2>5. QED  BY <2>1, <2>2, <2>4 DEF BridgeStates
<1>6. ReverseTypeOK
    <2>1. \A s \in Sides : Len(channel[s]) <= ChanCap /\ known[s] \subseteq Conns /\ \A c \in Conns : Len(queue[s][c]) <= QueueCap
        BY <1>1 DEF ReverseShape
    <2>2. session \in [Sides -> {"up", "over"}]
        BY <1>1 DEF ReverseShape
    <2>3. QED  BY <1>3, <1>4, <1>5, <2>1, <2>2 DEF ReverseTypeOK
<1>7. QED  BY <1>2, <1>6

\* For any number of connections over one pair of channels, and any capacities: no chunk
\* of one is lost or taken for another's before the end of the input, which comes last,
\* none waits for a bridge that will never be, and a permit is out for exactly those the
\* guest's agent still serves (crates/pbox-agent/src/reverse.rs).
THEOREM ReverseInvariant == ASSUME ReverseAssumption PROVE ReverseSpec => []ReverseInv
<1>1. ReverseInit => ReverseInv
    BY ReverseInitHolds
<1>2. ReverseInv /\ [ReverseNext]_reverseVars => ReverseInv'
    BY ReverseNextKeeps
<1>3. QED  BY <1>1, <1>2, PTL DEF ReverseSpec

-----------------------------------------------------------------------------
(***************************************************************************)
(* The agent, its terminal supervisor and the controllers that update.     *)
(***************************************************************************)

AgentStages == {"down", "dead", "starts", "compares", "lists", "refreshes", "serves"}
HostStages == {"off", "down", "runs", "dead"}

SupervisionShape ==
    /\ pid1 \in {"up", "stopping", "over"}
    /\ disk \in Builds \cup {"absent"}
    /\ agentRun \in [at : AgentStages, build : Builds]
    /\ hostRun \in [at : HostStages, build : Builds]
    /\ term \in [Terms -> {"unopened", "agent", "host", "ended"}]
    /\ deaths \in 0 .. MaxDeaths

\* An agent that is about to replace the supervisor found it without terminals, and
\* opens none meanwhile, since it does not serve yet.
RefreshesIdle == agentRun.at = "refreshes" => Owned("host") = {}

SupervisionInv == SupervisionShape /\ RefreshesIdle

\* What ends a terminal of the supervisor.
HostTermEnds ==
    \A t \in Terms : term[t] = "host" /\ term'[t] = "ended" => Closes(t) \/ HostDies \/ pid1' = "over"

LEMMA EndTermsTyped ==
    ASSUME SupervisionShape, NEW by \in {"agent", "host"}
    PROVE  /\ EndTerms(by) \in [Terms -> {"unopened", "agent", "host", "ended"}]
           /\ \A t \in Terms : EndTerms(by)[t] = IF term[t] = by THEN "ended" ELSE term[t]
BY DEF EndTerms, SupervisionShape

\* A terminal of the agent ends with it; the others stay.
LEMMA AgentTermsEnd ==
    ASSUME SupervisionShape, term' = EndTerms("agent")
    PROVE  /\ term' \in [Terms -> {"unopened", "agent", "host", "ended"}]
           /\ \A t \in Terms : term[t] = "host" => term'[t] = "host"
           /\ HostTermEnds
           /\ Owned("host")' = Owned("host")
<1>1. \A t \in Terms : term'[t] = IF term[t] = "agent" THEN "ended" ELSE term[t]
    BY EndTermsTyped
<1>2. QED  BY <1>1, EndTermsTyped DEF HostTermEnds, Owned

LEMMA TermsStay ==
    ASSUME SupervisionShape, UNCHANGED term
    PROVE  HostTermEnds /\ Owned("host")' = Owned("host")
BY DEF HostTermEnds, Owned, SupervisionShape

\* init's steps.
LEMMA InitKeeps ==
    ASSUME SupervisionInv, SupervisionAssumption,
           StopRequested \/ InitStops \/ SpawnFails \/ AgentSpawned \/ HostSpawned \/ ReapsAgent \/ ReapsHost
    PROVE  SupervisionInv' /\ HostTermEnds
<1> USE DEF SupervisionInv, SupervisionShape, RefreshesIdle, AgentStages, HostStages, Builds
<1>1. CASE StopRequested
    BY <1>1, TermsStay DEF StopRequested, Owned
<1>2. ASSUME AllEnds PROVE SupervisionInv' /\ HostTermEnds
    <2>1. pid1' = "over" /\ agentRun' = [agentRun EXCEPT !.at = "dead"]
          /\ hostRun' = [hostRun EXCEPT !.at = "dead"] /\ UNCHANGED <<disk, deaths>>
        BY <1>2 DEF AllEnds
    <2>2. term' = [t \in Terms |-> IF term[t] = "unopened" THEN "unopened" ELSE "ended"]
        BY <1>2 DEF AllEnds
    <2>3. term' \in [Terms -> {"unopened", "agent", "host", "ended"}]
        BY <2>2
    <2>4. QED  BY <2>1, <2>3 DEF HostTermEnds
<1>3. CASE InitStops
    BY <1>2, <1>3 DEF InitStops
<1>4. CASE SpawnFails
    BY <1>2, <1>4 DEF SpawnFails
<1>5. CASE AgentSpawned
    BY <1>5, TermsStay DEF AgentSpawned, Owned
<1>6. CASE HostSpawned
    BY <1>6, TermsStay DEF HostSpawned, Owned
<1>7. CASE ReapsAgent
    BY <1>7, TermsStay DEF ReapsAgent, Owned
<1>8. CASE ReapsHost
    BY <1>8, TermsStay DEF ReapsHost, Owned
<1>9. QED  BY <1>1, <1>3, <1>4, <1>5, <1>6, <1>7, <1>8

\* Crashes, and the steps of an agent that starts.
LEMMA AgentStartKeeps ==
    ASSUME SupervisionInv, SupervisionAssumption, AgentCrashes \/ HostDies \/ AgentStart
    PROVE  SupervisionInv' /\ HostTermEnds
<1> USE DEF SupervisionInv, SupervisionShape, RefreshesIdle, AgentStages, HostStages, Builds
<1>1. ASSUME AgentFalls, UNCHANGED <<pid1, disk, hostRun>>, deaths' \in 0 .. MaxDeaths
      PROVE  SupervisionInv' /\ HostTermEnds
    BY <1>1, AgentTermsEnd DEF AgentFalls
<1>2. CASE AgentCrashes
    BY <1>1, <1>2, SupervisionAssumption DEF AgentCrashes, SupervisionAssumption
<1>3. CASE HostDies
    <2>1. term' \in [Terms -> {"unopened", "agent", "host", "ended"}]
        BY <1>3, EndTermsTyped DEF HostDies
    <2>2. Owned("host")' = {}
        BY <1>3, EndTermsTyped DEF HostDies, Owned
    <2>3. HostTermEnds
        BY <1>3 DEF HostTermEnds
    <2>4. QED  BY <1>3, <2>1, <2>2, <2>3, SupervisionAssumption DEF HostDies, SupervisionAssumption
<1>4. CASE FindsHost
    BY <1>4, TermsStay DEF FindsHost, AgentTo
<1>5. CASE HostNotReady
    BY <1>1, <1>5 DEF HostNotReady
<1>6. CASE ComparesHost
    BY <1>6, TermsStay DEF ComparesHost, AgentTo
<1>7. CASE ListsHost
    BY <1>7, TermsStay DEF ListsHost, AgentTo
<1>8. ASSUME agentRun.at = "refreshes", term' = EndTerms("host")
      PROVE  term' = term
    BY <1>8 DEF EndTerms, Owned
<1>9. CASE RefreshesHost
    <2>1. term' = term
        BY <1>8, <1>9 DEF RefreshesHost
    <2>2. QED  BY <1>9, <2>1, TermsStay DEF RefreshesHost, AgentTo
<1>10. CASE RefreshFails
    <2>1. term' = term
        BY <1>8, <1>10 DEF RefreshFails
    <2>2. QED  BY <1>10, <2>1, TermsStay DEF RefreshFails, AgentTo
<1>11. QED  BY <1>2, <1>3, <1>4, <1>5, <1>6, <1>7, <1>9, <1>10 DEF AgentStart

\* Sessions, and the steps of a controller.
LEMMA TermAndUpdateKeep ==
    ASSUME SupervisionInv, SupervisionAssumption,
           \/ \E t \in Terms : Opens(t) \/ Closes(t)
           \/ \E c \in Controllers : UpdateStep(c)
    PROVE  SupervisionInv' /\ HostTermEnds
<1> USE DEF SupervisionInv, SupervisionShape, RefreshesIdle, AgentStages, HostStages, Builds
<1>1. CASE \E t \in Terms : Opens(t)
    <2>1. PICK t \in Terms : Opens(t)
        BY <1>1
    <2>2. /\ agentRun.at = "serves" /\ UNCHANGED <<pid1, disk, agentRun, hostRun, deaths>>
          /\ term[t] = "unopened"
          /\ \E by \in {"host", "agent"} : term' = [term EXCEPT ![t] = by]
        BY <2>1 DEF Opens, Serves
    <2>3. QED  BY <2>2 DEF HostTermEnds
<1>2. CASE \E t \in Terms : Closes(t)
    <2>1. PICK t \in Terms : Closes(t)
        BY <1>2
    <2>2. /\ UNCHANGED <<pid1, disk, agentRun, hostRun, deaths>>
          /\ term' = [term EXCEPT ![t] = "ended"]
        BY <2>1 DEF Closes
    <2>3. HostTermEnds
        BY <2>1, <2>2 DEF HostTermEnds
    <2>4. Owned("host")' \subseteq Owned("host")
        BY <2>2 DEF Owned
    <2>5. term' \in [Terms -> {"unopened", "agent", "host", "ended"}]
        BY <2>2
    <2>6. QED  BY <2>2, <2>3, <2>4, <2>5
<1>3. CASE \E c \in Controllers : UpdateStep(c)
    <2> PICK c \in Controllers : UpdateStep(c)
        BY <1>3
    <2>1. CASE UNCHANGED <<pid1, agentRun, hostRun, term, deaths>> /\ disk' \in Builds \cup {"absent"}
        BY <2>1, TermsStay
    <2>2. CASE UpdateConnects(c) \/ Judged(c) \/ Locked(c) \/ Asked(c) \/ Relisted(c)
               \/ Refreshed(c) \/ GivesUp(c)
        BY <2>1, <2>2 DEF UpdateConnects, Judged, Locked, Asked, Relisted, Refreshed, GivesUp, guestOnly
    <2>3. CASE ScriptStarts(c) \/ ScriptInstalls(c)
        BY <2>1, <2>3 DEF ScriptStarts, ScriptInstalls
    <2>4. CASE ClosesLegacy(c)
        <3>1. UNCHANGED <<pid1, disk, agentRun, hostRun, deaths>>
            BY <2>4 DEF ClosesLegacy
        <3>2. CASE UNCHANGED term
            BY <2>1, <3>1, <3>2
        <3>3. CASE \E t \in update[c].shown : term[t] = "agent" /\ term' = [term EXCEPT ![t] = "ended"]
            <4>1. PICK t \in update[c].shown : term[t] = "agent" /\ term' = [term EXCEPT ![t] = "ended"]
                BY <3>3
            <4>2. Owned("host")' = Owned("host")
                BY <4>1 DEF Owned
            <4>3. HostTermEnds
                BY <4>1 DEF HostTermEnds
            <4>4. term' \in [Terms -> {"unopened", "agent", "host", "ended"}]
                BY <4>1
            <4>5. QED  BY <3>1, <4>2, <4>3, <4>4
        <3>4. QED  BY <2>4, <3>2, <3>3 DEF ClosesLegacy
    <2>5. CASE ScriptRestarts(c)
        <3>1. UNCHANGED <<pid1, disk, hostRun, deaths>>
            BY <2>5 DEF ScriptRestarts
        <3>2. CASE UNCHANGED <<agentRun, term>>
            BY <2>1, <3>1, <3>2
        <3>3. CASE agentRun' = [agentRun EXCEPT !.at = "dead"] /\ term' = EndTerms("agent")
            BY <3>1, <3>3, AgentTermsEnd
        <3>4. QED  BY <2>5, <3>2, <3>3 DEF ScriptRestarts
    <2>6. QED  BY <2>2, <2>3, <2>4, <2>5 DEF UpdateStep
<1>4. QED  BY <1>1, <1>2, <1>3

LEMMA SupervisionStep ==
    ASSUME SupervisionInv, SupervisionAssumption, [SupervisionNext]_supervisionVars
    PROVE  SupervisionInv' /\ HostTermEnds
<1>1. CASE UNCHANGED supervisionVars
    BY <1>1, TermsStay DEF supervisionVars, SupervisionInv, SupervisionShape, RefreshesIdle
<1>2. QED
    BY <1>1, InitKeeps, AgentStartKeeps, TermAndUpdateKeep DEF SupervisionNext

LEMMA SupervisionStarts == ASSUME SupervisionAssumption PROVE SupervisionInit => SupervisionInv
BY DEF SupervisionAssumption, SupervisionInit, SupervisionInv, SupervisionShape, RefreshesIdle, AgentStages,
   HostStages, Builds

\* The invariant of the guest's processes.
THEOREM SupervisionInvariant ==
    ASSUME SupervisionAssumption PROVE SupervisionSpec => []SupervisionInv
<1>1. SupervisionInit => SupervisionInv
    BY SupervisionStarts
<1>2. SupervisionInv /\ [SupervisionNext]_supervisionVars => SupervisionInv'
    BY SupervisionStep
<1>3. QED  BY <1>1, <1>2, PTL DEF SupervisionSpec

\* A terminal of the supervisor ends only by being closed, with the supervisor's own
\* crash or with the guest, whatever mix of updates, restarts and refreshes goes on
\* (terminal_host.rs, agent_update.rs).
THEOREM TerminalsOutliveAgents ==
    ASSUME SupervisionAssumption PROVE SupervisionSpec => TerminalsSurvive
<1>1. SupervisionInv /\ [SupervisionNext]_supervisionVars => HostTermEnds
    BY SupervisionStep
<1>2. SupervisionInv /\ [SupervisionNext]_supervisionVars =>
          [\A t \in Terms :
               term[t] = "host" /\ term'[t] = "ended" => Closes(t) \/ HostDies \/ pid1' = "over"]_supervisionVars
    BY <1>1 DEF HostTermEnds
<1>3. QED  BY <1>2, SupervisionInvariant, PTL DEF SupervisionSpec, TerminalsSurvive

LEMMA SupervisionTold == SupervisionInv => SupervisionTypeOK
BY DEF SupervisionInv, SupervisionShape, SupervisionTypeOK, AgentStages, HostStages
=============================================================================
