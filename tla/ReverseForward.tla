--------------------------- MODULE ReverseForward ---------------------------
(***************************************************************************)
(* pbox forward --reverse: the guest listens (crates/pbox-agent/src/       *)
(* reverse.rs) and every connection to it is carried to a service on the   *)
(* client's computer (crates/pbox-agent-client/src/reverse.rs).  All       *)
(* connections share one pair of bounded channels.  At each side one loop  *)
(* takes the events that arrive and hands them to the bounded queue of     *)
(* their connection, and one bridge per connection copies between that     *)
(* queue, the socket and the channel back.                                 *)
(***************************************************************************)
EXTENDS Naturals, Sequences, FiniteSets

CONSTANTS
    Conns,        \* connections the guest accepts, in turn
    GuestWrites,  \* chunks the guest's application writes before it closes
    ClientWrites, \* chunks the client's application writes before it closes
    ChanCap,      \* events in a channel (32, and HTTP/2's windows)
    QueueCap,     \* events in a connection's queue (32)
    ForwardSlots  \* forward_slots, shared with TcpForward's tasks

ASSUME ReverseAssumption ==
    /\ GuestWrites \in Nat /\ ClientWrites \in Nat /\ ForwardSlots \in Nat
    /\ ChanCap \in Nat \ {0} /\ QueueCap \in Nat \ {0}

VARIABLES
    session,  \* the guest's loop and the client's: "up", or "over"
    permits,  \* free forward_slots
    channel,  \* channel[s]: events sent by side s
    hand,     \* hand[s]: the event the loop at s awaits to pass on, if any
    queue,    \* queue[s][c]: the queue of c's bridge at s
    known,    \* known[s]: the connections in the loop's table
    bridge,   \* bridge[s][c]: its task
    socket    \* socket[s][c]: chunks the bridge has taken from the application
              \* and given to it

reverseVars == <<session, permits, channel, hand, queue, known, bridge, socket>>

Sides == {"guest", "client"}
Opposite(s) == IF s = "guest" THEN "client" ELSE "guest"
MaxWrites(s) == IF s = "guest" THEN GuestWrites ELSE ClientWrites
NoEvent == [conn |-> "none", what |-> "none"]

ReverseInit ==
    /\ session = [s \in Sides |-> "up"]
    /\ permits = ForwardSlots
    /\ channel = [s \in Sides |-> <<>>]
    /\ hand = [s \in Sides |-> NoEvent]
    /\ queue = [s \in Sides |-> [c \in Conns |-> <<>>]]
    /\ known = [s \in Sides |-> {}]
    /\ bridge = [s \in Sides |-> [c \in Conns |->
                    [at |-> "none", item |-> "none", readClosed |-> FALSE, writeClosed |-> FALSE]]]
    /\ socket = [s \in Sides |-> [c \in Conns |->
                    [wrote |-> 0, given |-> 0]]]

Up(s) == session[s] = "up"
On(s, c, where) == bridge[s][c].at = where
Runs(s, c) == bridge[s][c].at \notin {"none", "done"}
\* Somebody still takes what s sends.
Heard(s) == Up(Opposite(s))
Roomy(s) == Len(channel[s]) < ChanCap
\* A send may still succeed: what the client sends once only the guest's loop is
\* over is taken by the stream until that fails, and reaches nobody.
Sendable(s) == Roomy(s) /\ (Heard(s) \/ s = "client")
\* The application's input ends when the bridge shuts its writer down, and when it
\* returns and drops the socket: the application cannot tell one from the other.
InputOver(s, c) == bridge[s][c].writeClosed \/ On(s, c, "done")
Ev(c, what) == [conn |-> c, what |-> what]
----------------------------------------------------------------------------
\* The guest's loop accepts; without a permit the connection is just dropped.
Accepted(c) ==
    /\ Up("guest") /\ hand["guest"] = NoEvent /\ On("guest", c, "none")
    /\ permits > 0
    /\ permits' = permits - 1
    /\ known' = [known EXCEPT !["guest"] = @ \cup {c}]
    /\ hand' = [hand EXCEPT !["guest"] = Ev(c, "connected")]
    /\ bridge' = [bridge EXCEPT !["guest"][c].at = "born"]
    /\ UNCHANGED <<session, channel, queue, socket>>

\* Connected goes out before the bridge is spawned.
Announced(c) ==
    /\ hand["guest"] = Ev(c, "connected") /\ Roomy("guest") /\ Heard("guest")
    /\ channel' = [channel EXCEPT !["guest"] = Append(@, Ev(c, "connected"))]
    /\ hand' = [hand EXCEPT !["guest"] = NoEvent]
    /\ bridge' = [bridge EXCEPT !["guest"][c].at = "select"]
    /\ UNCHANGED <<session, permits, queue, known, socket>>

\* Either loop takes the next event; one of an unknown connection is dropped.
Taken(s) ==
    LET event == Head(channel[Opposite(s)])
        c == event.conn
    IN  /\ Up(s) /\ hand[s] = NoEvent /\ channel[Opposite(s)] # <<>>
        /\ channel' = [channel EXCEPT ![Opposite(s)] = Tail(@)]
        /\ IF event.what = "connected"
           THEN /\ known' = [known EXCEPT ![s] = @ \cup {c}]
                /\ bridge' = [bridge EXCEPT ![s][c].at = "connect"]
                /\ UNCHANGED hand
           ELSE /\ hand' = IF c \in known[s] THEN [hand EXCEPT ![s] = event] ELSE hand
                /\ UNCHANGED <<known, bridge>>
        /\ UNCHANGED <<session, permits, queue, socket>>

\* Mutant: the loop does not wait, and an event that finds the queue full is lost.
HandsOverAtOnce(s) ==
    LET c == hand[s].conn
    IN  /\ Up(s) /\ hand[s].what \in {"data", "half", "close"}
        /\ queue' = IF Runs(s, c) /\ Len(queue[s][c]) < QueueCap
                    THEN [queue EXCEPT ![s][c] = Append(@, hand[s].what)] ELSE queue
        /\ known' = IF ~Runs(s, c) \/ (s = "client" /\ hand[s].what = "close")
                    THEN [known EXCEPT ![s] = @ \ {c}] ELSE known
        /\ hand' = [hand EXCEPT ![s] = NoEvent]
        /\ UNCHANGED <<session, permits, channel, bridge, socket>>

\* The loop's send to the connection's queue; it serves nobody else before it
\* returns.  The client forgets a connection with a full close.
HandedOver(s) ==
    LET c == hand[s].conn
    IN  /\ Up(s) /\ hand[s].what \in {"data", "half", "close"}
        /\ \/ /\ Runs(s, c) /\ Len(queue[s][c]) < QueueCap
              /\ queue' = [queue EXCEPT ![s][c] = Append(@, hand[s].what)]
              /\ known' = IF s = "client" /\ hand[s].what = "close"
                          THEN [known EXCEPT ![s] = @ \ {c}] ELSE known
           \/ /\ ~Runs(s, c)
              /\ known' = [known EXCEPT ![s] = @ \ {c}]
              /\ UNCHANGED queue
        /\ hand' = [hand EXCEPT ![s] = NoEvent]
        /\ UNCHANGED <<session, permits, channel, bridge, socket>>

\* The client's command ends: its streams, its loop and its bridges with it.
ClientEnds ==
    /\ Up("client")
    /\ session' = [session EXCEPT !["client"] = "over"]
    /\ hand' = [hand EXCEPT !["client"] = NoEvent]
    /\ known' = [known EXCEPT !["client"] = {}]
    /\ bridge' = [bridge EXCEPT !["client"] = [c \in Conns |->
                     IF Runs("client", c) THEN [@[c] EXCEPT !.at = "done"] ELSE @[c]]]
    /\ UNCHANGED <<permits, channel, queue, socket>>

\* outbound.closed, the end of inbound, or the send of Connected failed; and while
\* the client is still there an accept that fails or a stream that does: the guest
\* stops listening and drops its table of queues.  A loop that awaits the queue of
\* a connection notices nothing.
GuestEnds ==
    /\ Up("guest")
    /\ hand["guest"] = NoEvent \/ (hand["guest"].what = "connected" /\ ~Up("client"))
    /\ session' = [session EXCEPT !["guest"] = "over"]
    /\ known' = [known EXCEPT !["guest"] = {}]
    /\ hand' = [hand EXCEPT !["guest"] = NoEvent]
    \* a connection whose Connected could not be sent has no bridge yet
    /\ bridge' = [bridge EXCEPT !["guest"] = [c \in Conns |->
                     IF On("guest", c, "born") THEN [@[c] EXCEPT !.at = "done"] ELSE @[c]]]
    /\ permits' = permits + Cardinality({c \in Conns : On("guest", c, "born")})
    /\ UNCHANGED <<channel, queue, socket>>
----------------------------------------------------------------------------
\* The bridges.
Frees(s, c) ==
    /\ bridge' = [bridge EXCEPT ![s][c].at = "done", ![s][c].item = "none"]
    /\ permits' = IF s = "guest" THEN permits + 1 ELSE permits

\* The client's bridge connects to the local service, or reports it cannot.
Connects(c) ==
    /\ On("client", c, "connect")
    /\ bridge' = [bridge EXCEPT !["client"][c].at = "select"]
    /\ UNCHANGED <<session, permits, channel, hand, queue, known, socket>>

CannotConnect(c) ==
    /\ On("client", c, "connect")
    /\ bridge' = [bridge EXCEPT !["client"][c].at = "last"]
    /\ UNCHANGED <<session, permits, channel, hand, queue, known, socket>>

\* Data, the end of the application's output, or its reset.
BridgeReads(s, c) ==
    /\ On(s, c, "select") /\ ~bridge[s][c].readClosed
    /\ \/ /\ socket[s][c].wrote < MaxWrites(s)
          /\ socket' = [socket EXCEPT ![s][c].wrote = @ + 1]
          /\ bridge' = [bridge EXCEPT ![s][c].at = "send", ![s][c].item = "data"]
       \/ /\ bridge' = [bridge EXCEPT ![s][c].at = "send", ![s][c].item = "half",
                                      ![s][c].readClosed = TRUE]
          /\ UNCHANGED socket
       \/ /\ bridge' = [bridge EXCEPT ![s][c].at = "last"]
          /\ UNCHANGED socket
    /\ UNCHANGED <<session, permits, channel, hand, queue, known>>

BridgeSends(s, c) ==
    /\ On(s, c, "send")
    /\ \/ /\ Sendable(s)
          /\ channel' = [channel EXCEPT ![s] = Append(@, Ev(c, bridge[s][c].item))]
          /\ bridge' = [bridge EXCEPT ![s][c].at = "select", ![s][c].item = "none"]
       \/ /\ ~Heard(s)
          /\ bridge' = [bridge EXCEPT ![s][c].at = "last", ![s][c].item = "none"]
          /\ UNCHANGED channel
    /\ UNCHANGED <<session, permits, hand, queue, known, socket>>

\* input.recv; a queue whose sender is gone ends the bridge once it is empty, and so
\* does a close, which shuts nothing down: the return that follows drops the socket.
BridgeTakes(s, c) ==
    /\ On(s, c, "select") /\ ~bridge[s][c].writeClosed
    /\ \/ /\ queue[s][c] # <<>>
          /\ queue' = [queue EXCEPT ![s][c] = Tail(@)]
          /\ \/ /\ Head(queue[s][c]) = "data"
                /\ bridge' = [bridge EXCEPT ![s][c].at = "write"]
             \/ /\ Head(queue[s][c]) = "half"
                /\ bridge' = [bridge EXCEPT ![s][c].writeClosed = TRUE]
             \/ /\ Head(queue[s][c]) = "close"
                /\ bridge' = [bridge EXCEPT ![s][c].at = "last"]
       \/ /\ queue[s][c] = <<>> /\ c \notin known[s] /\ hand[s].conn # c
          /\ bridge' = [bridge EXCEPT ![s][c].at = "last"]
          /\ UNCHANGED queue
    /\ UNCHANGED <<session, permits, channel, hand, known, socket>>

\* write_all waits for as long as the application does not read.
BridgeWrites(s, c) ==
    /\ On(s, c, "write")
    /\ \/ /\ socket' = [socket EXCEPT ![s][c].given = @ + 1]
          /\ bridge' = [bridge EXCEPT ![s][c].at = "select"]
       \/ \* the application has reset its connection
          /\ bridge' = [bridge EXCEPT ![s][c].at = "last"]
          /\ UNCHANGED socket
    /\ UNCHANGED <<session, permits, channel, hand, queue, known>>

BothClosed(s, c) ==
    /\ On(s, c, "select") /\ bridge[s][c].readClosed /\ bridge[s][c].writeClosed
    /\ bridge' = [bridge EXCEPT ![s][c].at = "last"]
    /\ UNCHANGED <<session, permits, channel, hand, queue, known, socket>>

\* The full close at the end; the loops drop finished bridges from their tables
\* after any event.
BridgeEnds(s, c) ==
    /\ On(s, c, "last")
    /\ \/ /\ Sendable(s)
          /\ channel' = [channel EXCEPT ![s] = Append(@, Ev(c, "close"))]
       \/ /\ ~Heard(s)
          /\ UNCHANGED channel
    /\ Frees(s, c)
    /\ queue' = [queue EXCEPT ![s][c] = <<>>]
    /\ known' = [known EXCEPT ![s] = @ \ {c}]
    /\ UNCHANGED <<session, hand, socket>>

\* What a bridge does by itself, and what it does for an application.
BridgeStep(s, c) == BridgeSends(s, c) \/ BridgeTakes(s, c) \/ BothClosed(s, c) \/ BridgeEnds(s, c)
Copies(s, c) == BridgeReads(s, c) \/ BridgeWrites(s, c)

LoopTurn(s) == Taken(s) \/ HandedOver(s)

ReverseNext ==
    \/ \E c \in Conns : Accepted(c) \/ Announced(c) \/ Connects(c) \/ CannotConnect(c)
    \/ \E s \in Sides :
        \/ LoopTurn(s)
        \/ \E c \in Conns : BridgeStep(s, c) \/ Copies(s, c)
    \/ ClientEnds \/ GuestEnds

ReverseSpec == ReverseInit /\ [][ReverseNext]_reverseVars
-----------------------------------------------------------------------------
ReverseTypeOK ==
    /\ session \in [Sides -> {"up", "over"}]
    /\ permits \in 0 .. ForwardSlots
    /\ \A s \in Sides :
        /\ Len(channel[s]) <= ChanCap
        /\ known[s] \subseteq Conns
        /\ hand[s].what \in {"none", "connected", "data", "half", "close"}
        /\ \A c \in Conns :
            /\ Len(queue[s][c]) <= QueueCap
            /\ bridge[s][c].at \in {"none", "born", "connect", "select", "send", "write", "last", "done"}
            /\ socket[s][c].wrote \in 0 .. MaxWrites(s)
            /\ socket[s][c].given \in 0 .. MaxWrites(Opposite(s))

\* An application whose input ends while its bridge runs on, or at the hand of a
\* bridge that has seen both directions end, has been given everything the other one
\* wrote, though the events of all connections share one channel and every bridge
\* closes its directions on its own.  Any other bridge that returns (a reset, a lost
\* stream, the other side's failure) ends the input where it stands, and its close
\* carries the code 0 all the same: nobody is told.  A permit is out for exactly the
\* guest's connections that have not ended.
ReverseComplete ==
    /\ \A s \in Sides, c \in Conns :
        (InputOver(s, c) /\ (Runs(s, c) \/ (bridge[s][c].readClosed /\ bridge[s][c].writeClosed))) =>
            /\ bridge[Opposite(s)][c].readClosed
            /\ socket[s][c].given = socket[Opposite(s)][c].wrote
    /\ permits + Cardinality({c \in Conns : Runs("guest", c)}) = ForwardSlots

\* A bridge of the guest that nothing but its application can move: one that writes to
\* it, and one that has passed the end of the client's data on and listens only to it.
WaitsForApplication(c) ==
    \/ On("guest", c, "write")
    \/ On("guest", c, "select") /\ bridge["guest"][c].writeClosed /\ ~bridge["guest"][c].readClosed

\* Once the client's command is over the guest's connections end and give their
\* permits back, provided that no application in the guest lets its bridge wait for
\* ever.  The condition is about all of them: one that does not read holds its own
\* bridge and, by its full queue, the loop that should end the others, for no await
\* here has a timeout.  Nothing is claimed while the command runs: two directions may
\* fill each other and wait for ever.
ReverseReleased ==
    (\A d \in Conns : []<>~WaitsForApplication(d)) =>
        \A c \in Conns : (~Up("client") /\ Runs("guest", c)) ~> ~Runs("guest", c)
=============================================================================
