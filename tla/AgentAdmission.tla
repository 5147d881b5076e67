--------------------------- MODULE AgentAdmission ---------------------------
(***************************************************************************)
(* How the guest agent admits work (crates/pbox-agent/src/main.rs): the    *)
(* listener that holds a connection permit and runs one TLS handshake at a *)
(* time, the handshake slots taken before a call's first message, and the  *)
(* slots of each class of work.  What the admitted work does is modelled   *)
(* in ExecPipes, FileTransfer, TcpForward and ReverseForward; here it only *)
(* ends.                                                                   *)
(***************************************************************************)
EXTENDS Naturals, Sequences, FiniteSets

CONSTANTS
    Callers,         \* connections that clients open, one after the other
    CallKinds,       \* the calls they make, a subset of AllKinds
    MaxHandshakes, MaxExecs, MaxFiles, MaxForwards,  \* --max-... arguments
    Nobody

AllKinds == {"exec", "put_file", "get_file", "forward"}
Limits == {MaxHandshakes, MaxExecs, MaxFiles, MaxForwards}

\* serve refuses an argument of zero.
ASSUME AdmissionAssumption ==
    /\ CallKinds \subseteq AllKinds
    /\ Limits \subseteq Nat \ {0}
    /\ IsFiniteSet(Callers) /\ Nobody \notin Callers

VARIABLES
    slots,        \* free permits of each semaphore
    backlog,      \* connections the kernel has accepted, first come first
    ready,        \* LimitedIncoming.permit: one is held for the next accept
    handshaking,  \* the connection whose TLS handshake runs, or Nobody
    line,         \* each caller's connection
    call          \* each caller's call: its stage and kind

admissionVars == <<slots, backlog, ready, handshaking, line, call>>

MaxConnections == MaxHandshakes + MaxExecs + MaxFiles + MaxForwards

\* The semaphore that admits the work of a call.
Class(kind) ==
    CASE kind = "exec" -> "exec"
      [] kind \in {"put_file", "get_file"} -> "file"
      [] kind = "forward" -> "forward"

\* A spawned task outlives the connection; the future of put_file does not.
Spawned(kind) == kind # "put_file"

Idle == [stage |-> "none", kind |-> "none"]
Take(pool) == [slots EXCEPT ![pool] = @ - 1]
Give(pool) == [slots EXCEPT ![pool] = @ + 1]

AdmissionInit ==
    /\ slots = [connection |-> MaxConnections, handshake |-> MaxHandshakes,
                exec |-> MaxExecs, file |-> MaxFiles, forward |-> MaxForwards]
    /\ backlog = <<>>
    /\ ready = FALSE
    /\ handshaking = Nobody
    /\ line = [c \in Callers |-> "down"]
    /\ call = [c \in Callers |-> Idle]

Dials(c) ==
    /\ line[c] = "down" /\ call[c] = Idle
    /\ line' = [line EXCEPT ![c] = "backlog"]
    /\ backlog' = Append(backlog, c)
    /\ UNCHANGED <<slots, ready, handshaking, call>>

\* The listener takes a permit before it accepts anything.
AcquiresPermit ==
    /\ handshaking = Nobody /\ ~ready /\ slots.connection > 0
    /\ slots' = Take("connection")
    /\ ready' = TRUE
    /\ UNCHANGED <<backlog, handshaking, line, call>>

Accepts ==
    /\ ready /\ handshaking = Nobody /\ backlog # <<>>
    /\ ready' = FALSE
    /\ handshaking' = Head(backlog)
    /\ line' = [line EXCEPT ![Head(backlog)] = "tls"]
    /\ backlog' = Tail(backlog)
    /\ UNCHANGED <<slots, call>>

\* accept itself fails: the permit goes back with the error.
AcceptFails ==
    /\ ready /\ backlog # <<>>
    /\ ready' = FALSE
    /\ slots' = Give("connection")
    /\ line' = [line EXCEPT ![Head(backlog)] = "down"]
    /\ backlog' = Tail(backlog)
    /\ UNCHANGED <<handshaking, call>>

HandshakeSucceeds(c) ==
    /\ handshaking = c
    /\ handshaking' = Nobody
    /\ line' = [line EXCEPT ![c] = "up"]
    /\ UNCHANGED <<slots, backlog, ready, call>>

\* A bad certificate, a peer that leaves, or 30 seconds of silence: the stream
\* is dropped and its permit with it.
HandshakeFails(c) ==
    /\ handshaking = c
    /\ handshaking' = Nobody
    /\ line' = [line EXCEPT ![c] = "down"]
    /\ slots' = Give("connection")
    /\ UNCHANGED <<backlog, ready, call>>

\* exec, put_file and forward: a full handshake semaphore refuses at once.
Calls(c, kind) ==
    /\ line[c] = "up" /\ call[c] = Idle /\ kind # "get_file"
    /\ slots.handshake > 0
    /\ slots' = Take("handshake")
    /\ call' = [call EXCEPT ![c] = [stage |-> "asking", kind |-> kind]]
    /\ UNCHANGED <<backlog, ready, handshaking, line>>

\* The first message is valid: the handshake slot is given back before the slot
\* of the work is tried; without one the call is refused.
FirstMessage(c) ==
    LET kind == call[c].kind
        pool == Class(kind)
        next == IF kind = "forward" THEN "opening" ELSE "working"
    IN  /\ line[c] = "up" /\ call[c].stage = "asking"
        /\ IF slots[pool] > 0
           THEN /\ slots' = [slots EXCEPT !.handshake = @ + 1, ![pool] = @ - 1]
                /\ call' = [call EXCEPT ![c].stage = next]
           ELSE /\ slots' = Give("handshake")
                /\ call' = [call EXCEPT ![c] = Idle]
        /\ UNCHANGED <<backlog, ready, handshaking, line>>

\* Mutant: a call without a valid first message keeps its handshake slot.
FirstMessageForgotten(c) ==
    /\ call[c].stage = "asking"
    /\ call' = [call EXCEPT ![c] = Idle]
    /\ UNCHANGED <<slots, backlog, ready, handshaking, line>>

\* 30 seconds without a first message, an empty stream or an invalid message.
FirstMessageRejected(c) ==
    /\ call[c].stage = "asking"
    /\ slots' = Give("handshake")
    /\ call' = [call EXCEPT ![c] = Idle]
    /\ UNCHANGED <<backlog, ready, handshaking, line>>

\* get_file has its whole request already.
AsksForFile(c) ==
    /\ line[c] = "up" /\ call[c] = Idle /\ "get_file" \in CallKinds
    /\ slots.file > 0
    /\ slots' = Take("file")
    /\ call' = [call EXCEPT ![c] = [stage |-> "working", kind |-> "get_file"]]
    /\ UNCHANGED <<backlog, ready, handshaking, line>>

\* forward looks its target up and connects with its slot held.
TargetOpens(c) ==
    /\ call[c].stage = "opening"
    /\ call' = [call EXCEPT ![c].stage = "working"]
    /\ UNCHANGED <<slots, backlog, ready, handshaking, line>>

TargetRefused(c) ==
    /\ call[c].stage = "opening"
    /\ slots' = Give("forward")
    /\ call' = [call EXCEPT ![c] = Idle]
    /\ UNCHANGED <<backlog, ready, handshaking, line>>

WorkEnds(c) ==
    /\ call[c].stage = "working"
    /\ slots' = Give(Class(call[c].kind))
    /\ call' = [call EXCEPT ![c] = Idle]
    /\ UNCHANGED <<backlog, ready, handshaking, line>>

\* What the handlers that run inside the connection give back as it closes.
Dropped(c) ==
    CASE call[c].stage = "asking" -> "handshake"
      [] call[c].stage = "opening" -> "forward"
      [] call[c].stage = "working" /\ ~Spawned(call[c].kind) -> "file"
      [] OTHER -> "none"

\* The caller closes its connection: LimitedTcpStream and every handler future
\* of it are dropped, a spawned task goes on until it notices.
HangsUp(c) ==
    /\ line[c] = "up"
    /\ line' = [line EXCEPT ![c] = "down"]
    /\ slots' = [pool \in DOMAIN slots |->
                     slots[pool] + (IF pool \in {"connection", Dropped(c)} THEN 1 ELSE 0)]
    /\ call' = IF Dropped(c) = "none" THEN call ELSE [call EXCEPT ![c] = Idle]
    /\ UNCHANGED <<backlog, ready, handshaking>>

Listener == AcquiresPermit \/ Accepts \/ AcceptFails
Handshake(c) == HandshakeSucceeds(c) \/ HandshakeFails(c)

AdmissionNext ==
    \/ Listener
    \/ \E c \in Callers :
        \/ Dials(c) \/ Handshake(c)
        \/ \E kind \in CallKinds : Calls(c, kind)
        \/ FirstMessage(c) \/ FirstMessageRejected(c)
        \/ AsksForFile(c) \/ TargetOpens(c) \/ TargetRefused(c)
        \/ WorkEnds(c) \/ HangsUp(c)

AdmissionSpec == AdmissionInit /\ [][AdmissionNext]_admissionVars
-----------------------------------------------------------------------------
AdmissionTypeOK ==
    /\ slots \in [{"connection", "handshake", "exec", "file", "forward"} -> 0 .. MaxConnections]
    /\ backlog \in Seq(Callers)
    /\ ready \in BOOLEAN
    /\ handshaking \in Callers \cup {Nobody}
    /\ line \in [Callers -> {"down", "backlog", "tls", "up"}]
    /\ call \in [Callers -> [stage : {"none", "asking", "opening", "working"},
                             kind : AllKinds \cup {"none"}]]

Connected == {c \in Callers : line[c] \in {"tls", "up"}}
Asking == {c \in Callers : call[c].stage = "asking"}
Holding(pool) == {c \in Callers : /\ call[c].stage \in {"opening", "working"}
                                  /\ Class(call[c].kind) = pool}

\* Whatever fails in between (the accept, the handshake, the first message, the
\* target, the connection under a running task), every permit of the five
\* semaphores is either free or held by exactly one connection or call: nothing
\* leaks until the agent refuses all work.
PermitsHeld ==
    /\ slots.connection + Cardinality(Connected) + (IF ready THEN 1 ELSE 0) = MaxConnections
    /\ slots.handshake + Cardinality(Asking) = MaxHandshakes
    /\ slots.exec + Cardinality(Holding("exec")) = MaxExecs
    /\ slots.file + Cardinality(Holding("file")) = MaxFiles
    /\ slots.forward + Cardinality(Holding("forward")) = MaxForwards

\* TLS handshakes run one at a time, yet a peer that stays silent in one cannot
\* keep the others out: a connection in the backlog is taken, unless the agent
\* is at its limit of established connections.
BacklogServed ==
    \A c \in Callers :
        line[c] = "backlog" ~>
            \/ line[c] # "backlog"
            \/ Cardinality({d \in Callers : line[d] = "up"}) = MaxConnections
=============================================================================
