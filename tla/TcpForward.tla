----------------------------- MODULE TcpForward -----------------------------
(***************************************************************************)
(* One forwarded TCP connection: the loop of AgentClient::forward_tcp      *)
(* (crates/pbox-agent-client/src/lib.rs) next to the local application and *)
(* the task of AgentService::forward (crates/pbox-agent/src/main.rs) next  *)
(* to the target, joined by two bounded channels of events.  Both loops    *)
(* await each send and each write before they look at the other direction. *)
(* The two loops differ in their timeouts (the agent has one on every      *)
(* await, the client none) and in how they answer an error.                *)
(***************************************************************************)
EXTENDS Naturals, Sequences

CONSTANTS
    MaxChunks,   \* chunks each application writes
    ChannelCap,  \* events a channel holds (32, and HTTP/2's windows)
    SocketCap    \* chunks a socket holds that its application has not read

ASSUME ForwardAssumption ==
    MaxChunks \in Nat /\ ChannelCap \in Nat \ {0} /\ SocketCap \in Nat \ {0}

VARIABLES
    app,    \* the application at each end
    loop,   \* the loop at each end: where it is, what it awaits to pass on
    pipe    \* pipe[e]: events the loop at e has sent to the other

forwardVars == <<app, loop, pipe>>

Ends == {"local", "target"}
Other(e) == IF e = "local" THEN "target" ELSE "local"

Half == "half"      \* Close { code: 0, half_close: true }
Full == "close"     \* Close { code: 0 }
Failed == "error"   \* Close with another code

ForwardInit ==
    \* wrote/read: chunks it has written and the loop has taken; shut: it has
    \* closed its write side; given/got: chunks the loop has written to it and
    \* it has read; end: after these its input ends.
    /\ app = [e \in Ends |-> [wrote |-> 0, read |-> 0, shut |-> FALSE, gone |-> FALSE,
                              given |-> 0, got |-> 0, end |-> FALSE]]
    /\ loop = [e \in Ends |-> [at |-> "select", item |-> "none",
                               readClosed |-> FALSE, writeClosed |-> FALSE]]
    /\ pipe = [e \in Ends |-> <<>>]

At(e, where) == loop[e].at = where
Stopped(e) == At(e, "ok") \/ At(e, "failed")
HasRoom(e) == Len(pipe[e]) < ChannelCap
----------------------------------------------------------------------------
\* The applications.
Writes(e) ==
    /\ ~app[e].shut /\ ~app[e].gone /\ app[e].wrote < MaxChunks
    /\ app[e].wrote - app[e].read < SocketCap
    /\ app' = [app EXCEPT ![e].wrote = @ + 1]
    /\ UNCHANGED <<loop, pipe>>

ShutsDown(e) ==
    /\ ~app[e].shut /\ ~app[e].gone
    /\ app' = [app EXCEPT ![e].shut = TRUE]
    /\ UNCHANGED <<loop, pipe>>

Reads(e) ==
    /\ ~app[e].gone /\ app[e].got < app[e].given
    /\ app' = [app EXCEPT ![e].got = @ + 1]
    /\ UNCHANGED <<loop, pipe>>

\* It resets its connection.
Resets(e) ==
    /\ ~app[e].gone /\ ~Stopped(e)
    /\ app' = [app EXCEPT ![e].gone = TRUE]
    /\ UNCHANGED <<loop, pipe>>
----------------------------------------------------------------------------
\* The loops.

\* A loop that returns drops its socket, which ends the application's input like a
\* shutdown does: from its input alone the application cannot tell which it was.
\* (Where it has sent what the loop did not read, the system may reset it instead.)
Stops(e, how) ==
    /\ loop' = [loop EXCEPT ![e].at = how, ![e].item = "none"]
    /\ app' = [app EXCEPT ![e].end = TRUE]

\* The agent leaves its loop by way of a last Close; the client just returns.
Breaks(e, close) ==
    IF e = "target"
    THEN /\ loop' = [loop EXCEPT ![e].at = "closing", ![e].item = close]
         /\ UNCHANGED app
    ELSE Stops(e, IF close = Failed THEN "failed" ELSE "ok")

\* reader.read: data, or the end, to be sent on.
TakesInput(e) ==
    /\ At(e, "select") /\ ~loop[e].readClosed /\ ~app[e].gone
    /\ \/ /\ app[e].read < app[e].wrote
          /\ app' = [app EXCEPT ![e].read = @ + 1]
          /\ loop' = [loop EXCEPT ![e].at = "send", ![e].item = "data"]
       \/ /\ app[e].shut /\ app[e].read = app[e].wrote
          /\ loop' = [loop EXCEPT ![e].at = "send", ![e].item = Half]
          /\ UNCHANGED app
    /\ UNCHANGED pipe

InputFails(e) ==
    /\ At(e, "select") /\ ~loop[e].readClosed /\ app[e].gone
    /\ Breaks(e, Failed)
    /\ UNCHANGED pipe

Sends(e) ==
    /\ At(e, "send") /\ HasRoom(e) /\ ~Stopped(Other(e))
    /\ pipe' = [pipe EXCEPT ![e] = Append(@, loop[e].item)]
    /\ loop' = [loop EXCEPT ![e].at = "select", ![e].item = "none",
                            ![e].readClosed = @ \/ loop[e].item = Half]
    /\ UNCHANGED app

\* The receiver is gone; at the agent also five minutes without room.
SendFails(e) ==
    /\ At(e, "send")
    /\ Stopped(Other(e)) \/ (e = "target" /\ ~HasRoom(e))
    /\ Stops(e, "failed")
    /\ UNCHANGED pipe

\* stream.message / inbound.message.  The client shuts its writer down for every
\* Close before it looks at the code, the agent for a half close; what follows
\* another Close ends the input in any case.
Receives(e) ==
    LET item == Head(pipe[Other(e)])
    IN  /\ At(e, "select") /\ ~loop[e].writeClosed /\ pipe[Other(e)] # <<>>
        /\ pipe' = [pipe EXCEPT ![Other(e)] = Tail(@)]
        /\ \/ /\ item = "data"
              /\ loop' = [loop EXCEPT ![e].at = "write"]
              /\ UNCHANGED app
           \/ /\ item = Half
              /\ IF app[e].gone
                 THEN Breaks(e, Failed)
                 ELSE /\ app' = [app EXCEPT ![e].end = TRUE]
                      /\ loop' = [loop EXCEPT ![e].writeClosed = TRUE]
           \/ /\ item \in {Full, Failed}
              /\ Breaks(e, item)

\* The peer has ended and everything it sent is taken.
PeerEnded(e) ==
    /\ At(e, "select") /\ ~loop[e].writeClosed
    /\ pipe[Other(e)] = <<>> /\ Stopped(Other(e))
    /\ Breaks(e, Failed)
    /\ UNCHANGED pipe

WritesOut(e) ==
    /\ At(e, "write") /\ ~app[e].gone
    /\ app[e].given - app[e].got < SocketCap
    /\ app' = [app EXCEPT ![e].given = @ + 1]
    /\ loop' = [loop EXCEPT ![e].at = "select"]
    /\ UNCHANGED pipe

\* The application is gone; at the agent also 30 seconds without room.
WriteFails(e) ==
    /\ At(e, "write")
    /\ app[e].gone \/ (e = "target" /\ app[e].given - app[e].got = SocketCap)
    /\ Breaks(e, Failed)
    /\ UNCHANGED pipe

\* Both directions have ended: a last Close.
BothEnded(e) ==
    /\ At(e, "select") /\ loop[e].readClosed /\ loop[e].writeClosed
    /\ loop' = [loop EXCEPT ![e].at = "closing", ![e].item = Full]
    /\ UNCHANGED <<app, pipe>>

\* The last Close is sent, or its send fails (the receiver is gone; at the
\* agent also five minutes without room), and nobody looks at the result.
SendsClose(e) ==
    /\ At(e, "closing")
    /\ \/ /\ HasRoom(e) /\ ~Stopped(Other(e))
          /\ pipe' = [pipe EXCEPT ![e] = Append(@, loop[e].item)]
       \/ /\ Stopped(Other(e)) \/ (e = "target" /\ ~HasRoom(e))
          /\ UNCHANGED pipe
    /\ Stops(e, IF loop[e].item = Failed THEN "failed" ELSE "ok")

\* What keeps the agent's two timers from running out.
InputReady == app["target"].gone \/ app["target"].shut \/ app["target"].read < app["target"].wrote
EventReady == pipe["local"] # <<>> \/ Stopped("local")

\* Five minutes in the select without anything in a direction still open; any
\* pass through the loop starts both timers anew.
AgentIdles ==
    /\ At("target", "select")
    /\ ~(loop["target"].readClosed /\ loop["target"].writeClosed)
    /\ loop["target"].readClosed \/ ~InputReady
    /\ loop["target"].writeClosed \/ ~EventReady
    /\ Breaks("target", Failed)
    /\ UNCHANGED pipe

\* The command that forwards is killed.
ClientKilled ==
    /\ ~Stopped("local")
    /\ Stops("local", "failed")
    /\ UNCHANGED pipe

Passes(e) ==
    \/ TakesInput(e) \/ InputFails(e) \/ Sends(e) \/ SendFails(e)
    \/ Receives(e) \/ PeerEnded(e) \/ WritesOut(e) \/ WriteFails(e)
    \/ BothEnded(e) \/ SendsClose(e)

ForwardNext ==
    \/ \E e \in Ends : Writes(e) \/ ShutsDown(e) \/ Reads(e) \/ Resets(e) \/ Passes(e)
    \/ AgentIdles \/ ClientKilled

ForwardSpec == ForwardInit /\ [][ForwardNext]_forwardVars
-----------------------------------------------------------------------------
ForwardTypeOK ==
    /\ app \in [Ends -> [wrote : 0 .. MaxChunks, read : 0 .. MaxChunks, shut : BOOLEAN,
                         gone : BOOLEAN, given : 0 .. MaxChunks, got : 0 .. MaxChunks,
                         end : BOOLEAN]]
    /\ loop \in [Ends -> [at : {"select", "send", "write", "closing", "ok", "failed"},
                          item : {"none", "data", Half, Full, Failed},
                          readClosed : BOOLEAN, writeClosed : BOOLEAN]]
    /\ \A e \in Ends : pipe[e] \in Seq({"data", Half, Full, Failed}) /\ Len(pipe[e]) <= ChannelCap

\* An application's input ends before it has been given everything the other one
\* wrote, and before that one has closed, only next to a loop that has failed: the
\* command reports an error, or the agent's Close carries a code.  The application
\* itself sees the same end in both cases.  A loop that returns success has taken all
\* of its application's input and ended the other direction whole.  (What it sent may
\* still be lost at a target that does not read: its loop then fails.)
ForwardComplete ==
    \A e \in Ends :
        /\ (app[e].end /\ ~At(e, "failed")) =>
               /\ app[Other(e)].shut
               /\ app[e].given = app[Other(e)].wrote
        /\ At(e, "ok") =>
               /\ app[e].end
               /\ app[e].shut /\ app[e].read = app[e].wrote

\* Whatever the target does, the agent's task, and with it the forward permit,
\* ends once the client is gone: no await of it is without a timeout.
ForwardReleased == Stopped("local") ~> Stopped("target")
=============================================================================
