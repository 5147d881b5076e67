--------------------------- MODULE TerminalClient ---------------------------
(***************************************************************************)
(* "pbox ssh" and "pbox attach" on the local machine (crates/pbox-cli:     *)
(* main.rs from run_ssh on, ssh_input.rs, TerminalInput in sessions.rs; the *)
(* stream's sender is pbox-agent-client's open_pty_session): the thread    *)
(* that reads the terminal, the task that relays input and sizes, the one  *)
(* that prints, the local detach key, signals, and the restored terminal.  *)
(*                                                                         *)
(* Keys: "x" is text, "detach" the byte Ctrl-], "esc" the escape byte; the *)
(* rest of an escape sequence is one key: "on" and "off" bracket a paste,  *)
(* "chord" is the extended form of Ctrl-].                                 *)
(***************************************************************************)
EXTENDS Naturals, Sequences, FiniteSets, Functions

CONSTANTS
    Keys,        \* the keys that are typed
    MaxTyped,    \* bound on typed keys
    MaxPrinted,  \* bound on the chunks the program writes
    MaxResizes,  \* bound on changes of the window's size
    InputCap,    \* the channel from the reading thread (32)
    WireCap      \* the channels and the stream to the agent, together

ASSUME TerminalClientAssumption ==
    /\ Keys \subseteq {"x", "detach", "esc", "on", "off", "chord"}
    /\ {MaxTyped, MaxPrinted, MaxResizes} \subseteq Nat /\ {InputCap, WireCap} \subseteq Nat \ {0}

VARIABLES
    use,      \* [interactive, view, named]: of a terminal; read-only; a named session
    keyed,    \* the keys typed so far; elsewhere keys are their positions
    unread,   \* keys that wait in the terminal
    parser,   \* TerminalInput: [pending: a key or 0, pasted, split: a pause split a sequence]
    pump,     \* the reading thread: [at, item]
    inputReady, \* input_ready
    typedKeys,    \* local_input
    control,  \* the detach channel: "none", "detach" or "error"
    window,   \* [size, signal, sent]: of the local terminal; SIGWINCH; size last sent
    outbox,   \* what forward_terminal_input still has to send
    wire,     \* [open, items]: on the way to the program
    program,   \* [size, got, sized, wrote, state]: the program's terminal
    printer,  \* [events, at, shown]: the output stream, its task, chunks printed
    ssh,      \* the command: [at, tty, result]
    held,     \* what takes no more output, for good: nothing, the terminal, or another stdout
    early     \* keys read while no shell was there (history)

terminalVars == <<held, use, keyed, unread, parser, pump, inputReady, typedKeys, control,
                  window, outbox, wire, program, printer, ssh, early>>

TerminalInit ==
    /\ use \in [interactive : BOOLEAN, view : BOOLEAN, named : BOOLEAN]
    /\ keyed = <<>> /\ unread = <<>> /\ typedKeys = <<>> /\ outbox = <<>> /\ early = {}
    /\ parser = [pending |-> 0, pasted |-> FALSE, split |-> FALSE]
    /\ pump = [at |-> "runs", item |-> <<>>]
    /\ inputReady = FALSE /\ control = "none" /\ held = "nothing"
    /\ window = [size |-> 0, signal |-> FALSE, sent |-> 0]
    /\ wire = [open |-> TRUE, items |-> <<>>]
    /\ program = [size |-> 0, got |-> <<>>, sized |-> TRUE, wrote |-> 0, state |-> "absent"]
    /\ printer = [events |-> <<>>, at |-> "connects", shown |-> 0]
    /\ ssh = [at |-> "runs", tty |-> IF use.interactive THEN "raw" ELSE "cooked", result |-> "none"]

Data(keys) == [does |-> "data", keys |-> keys, size |-> 0]
Eof == [does |-> "eof", keys |-> <<>>, size |-> 0]
Resize(size) == [does |-> "resize", keys |-> <<>>, size |-> size]
Running == ssh.at = "runs"
\* forward_terminal_input runs, with its SIGWINCH handler.
Forwards == Running /\ printer.at \in {"reads", "prints", "closes"}
----------------------------------------------------------------------------
(* The user.                                                               *)

Types(k) ==
    /\ Len(keyed) < MaxTyped /\ (~use.interactive => k = "x")
    /\ keyed' = Append(keyed, k)
    /\ unread' = Append(unread, Len(keyed) + 1)
    /\ UNCHANGED <<held, use, parser, pump, inputReady, typedKeys, control, window, outbox,
                   wire, program, printer, ssh, early>>

ResizesWindow ==
    /\ window.size < MaxResizes
    /\ window' = [window EXCEPT !.size = @ + 1, !.signal = @ \/ Forwards]
    /\ UNCHANGED <<held, use, keyed, unread, parser, pump, inputReady, typedKeys, control,
                   outbox, wire, program, printer, ssh, early>>

\* SIGINT, SIGHUP, SIGQUIT or SIGTERM.
Signalled ==
    /\ Running
    /\ ssh' = [ssh EXCEPT !.at = "ends", !.result = "signalled"]
    /\ UNCHANGED <<held, use, keyed, unread, parser, pump, inputReady, typedKeys, control,
                   window, outbox, wire, program, printer, early>>
\* What is being written, or is to be, is taken no more: by a terminal that is held, or
\* by what reads stdout when that is no terminal.
OutputHeld ==
    /\ held = "nothing"
    /\ (Running /\ printer.at \in {"opens", "prints"}) \/ ssh.at \in {"joins", "ends"}
    /\ held' \in {"terminal", "pipe"}
    /\ UNCHANGED <<use, keyed, unread, parser, pump, inputReady, typedKeys, control, window, outbox, wire,
                   program, printer, ssh, early>>
----------------------------------------------------------------------------
(* ssh_input: the thread that reads.                                       *)

\* TerminalInput::push for one byte.
PushKey(s, p) ==
    LET k == keyed[p]
        both == [s EXCEPT !.pending = 0, !.out = @ \o <<s.pending, p>>]
    IN IF s.detach THEN s
       ELSE IF s.pending = 0
       THEN CASE k = "detach" /\ ~s.pasted -> [s EXCEPT !.detach = TRUE]
              [] k = "esc"                  -> [s EXCEPT !.pending = p]
              [] OTHER                      -> [s EXCEPT !.out = Append(@, p)]
       ELSE CASE k = "on"                   -> [both EXCEPT !.pasted = TRUE]
              [] k = "off"                  -> [both EXCEPT !.pasted = FALSE]
              [] k = "chord" /\ ~s.pasted  -> [s EXCEPT !.detach = TRUE]
              [] OTHER                      -> both
\* The input after the first n bytes that wait.
Pushed[n \in 0 .. Len(unread)] ==
    IF n = 0
    THEN [pending |-> parser.pending, pasted |-> parser.pasted, out |-> <<>>, detach |-> FALSE]
    ELSE PushKey(Pushed[n - 1], unread[n])
Parsed == Pushed[Len(unread)]

EndsPump(how) == pump' = [at |-> "done", item |-> <<>>] /\ control' = how

\* try_send of interactive input: keys typed before a shell was there are dropped.
Offers(keys) ==
    \/ /\ inputReady /\ keys # <<>> /\ Running /\ Len(typedKeys) < InputCap
       /\ typedKeys' = Append(typedKeys, Data(keys))
       /\ UNCHANGED <<pump, control, early>>
    \/ /\ inputReady /\ keys # <<>> /\ ~(Running /\ Len(typedKeys) < InputCap)
       /\ EndsPump("error")
       /\ UNCHANGED <<typedKeys, early>>
    \/ /\ ~inputReady \/ keys = <<>>
       /\ early' = early \cup Range(keys)
       /\ UNCHANGED <<typedKeys, pump, control>>

PumpRuns == pump.at = "runs" /\ Running

\* Mutant: the detach key waits its turn in the channel.
DetachesInBand ==
    /\ PumpRuns /\ use.interactive /\ unread # <<>>
    /\ unread' = <<>>
    /\ LET next == Parsed IN
       /\ parser' = [parser EXCEPT !.pending = next.pending, !.pasted = next.pasted]
       /\ IF next.detach
          THEN IF typedKeys = <<>> /\ outbox = <<>>
               THEN EndsPump("detach") /\ UNCHANGED <<typedKeys, early>>
               ELSE UNCHANGED <<pump, control, typedKeys, early>>
          ELSE Offers(next.out)
    /\ UNCHANGED <<held, use, keyed, inputReady, window, outbox, wire, program, printer, ssh>>

\* A read takes all that is there; what precedes the detach key in it is dropped.
ReadsTerminal ==
    /\ PumpRuns /\ use.interactive /\ unread # <<>>
    /\ unread' = <<>>
    /\ LET next == Parsed IN
       /\ parser' = [parser EXCEPT !.pending = next.pending, !.pasted = next.pasted]
       /\ IF next.detach THEN EndsPump("detach") /\ UNCHANGED <<typedKeys, early>>
          ELSE Offers(next.out)
    /\ UNCHANGED <<held, use, keyed, inputReady, window, outbox, wire, program, printer, ssh>>

\* Nothing for 30 ms: an escape byte was a key of its own.
Pauses ==
    /\ PumpRuns /\ use.interactive /\ unread = <<>> /\ parser.pending # 0
    /\ parser' = [parser EXCEPT !.pending = 0, !.split = TRUE]
    /\ Offers(<<parser.pending>>)
    /\ UNCHANGED <<held, use, keyed, unread, inputReady, window, outbox, wire, program, printer,
                   ssh>>

\* A pipe is read once there is a shell, and to its end.
ReadsPipe ==
    /\ PumpRuns /\ ~use.interactive /\ inputReady
    /\ pump' = [at |-> "sends", item |-> IF unread = <<>> THEN Eof ELSE Data(unread)]
    /\ unread' = <<>>
    /\ UNCHANGED <<held, use, keyed, parser, inputReady, typedKeys, control, window, outbox,
                   wire, program, printer, ssh, early>>

\* blocking_send waits for room, or for the operation to be dropped.
PumpSends ==
    /\ pump.at = "sends"
    /\ IF Running
       THEN /\ Len(typedKeys) < InputCap
            /\ typedKeys' = Append(typedKeys, pump.item)
            /\ pump' = [at |-> IF pump.item = Eof THEN "ended" ELSE "runs", item |-> <<>>]
            /\ UNCHANGED control
       ELSE EndsPump("error") /\ UNCHANGED typedKeys
    /\ UNCHANGED <<held, use, keyed, unread, parser, inputReady, window, outbox, wire, program,
                   printer, ssh, early>>

\* The stop flag, seen within 30 ms.
PumpStops ==
    /\ ssh.at = "joins" /\ pump.at \in {"runs", "ended"}
    /\ pump' = [at |-> "done", item |-> <<>>]
    /\ UNCHANGED <<held, use, keyed, unread, parser, inputReady, typedKeys, control, window,
                   outbox, wire, program, printer, ssh, early>>
----------------------------------------------------------------------------
(* run_ssh_connected and run_ssh_session.                                  *)

\* The request carries the size of the window when it was made.
RequestsSession ==
    /\ Running /\ printer.at = "connects"
    /\ printer' = [printer EXCEPT !.at = IF use.view THEN "views" ELSE "opens"]
    /\ window' = [window EXCEPT !.sent = window.size]
    /\ program' = [program EXCEPT !.size = window.size]
    /\ UNCHANGED <<held, use, keyed, unread, parser, pump, inputReady, typedKeys, control,
                   outbox, wire, ssh, early>>

\* The state of the connection is written to the terminal first.
Attached ==
    /\ Running /\ printer.at = "opens" /\ held # "terminal"
    /\ printer' = [printer EXCEPT !.at = "reads"]
    /\ inputReady' = TRUE
    /\ program' = [program EXCEPT !.state = "runs"]
    /\ UNCHANGED <<held, use, keyed, unread, parser, pump, typedKeys, control, window, outbox,
                   wire, ssh, early>>

\* cancellable returns: the operation and its receivers are dropped.
OperationEnds(result) ==
    /\ printer' = [printer EXCEPT !.at = "over"]
    /\ ssh' = [ssh EXCEPT !.at = "joins", !.result = result]

\* Discovery, connecting, updating the agent, or a view's poll fails.
OperationFails ==
    /\ Running /\ printer.at \in {"connects", "opens", "views"}
    /\ OperationEnds("failed")
    /\ UNCHANGED <<held, use, keyed, unread, parser, pump, inputReady, typedKeys, control,
                   window, outbox, wire, program, early>>

Relaying == Forwards /\ outbox = <<>>

\* Mutant: the input goes first.
RelaysDataFirst ==
    /\ Relaying /\ typedKeys # <<>>
    /\ typedKeys' = Tail(typedKeys)
    /\ LET item == [Head(typedKeys) EXCEPT !.size = window.size] IN
       IF item.does = "data" /\ window.sent # window.size
       THEN outbox' = <<item, Resize(window.size)>> /\ window' = [window EXCEPT !.sent = window.size]
       ELSE outbox' = <<item>> /\ UNCHANGED window
    /\ UNCHANGED <<held, use, keyed, unread, parser, pump, inputReady, control, wire, program,
                   printer, ssh, early>>

\* relay_terminal_input: a size that changed goes before the data.  The size of
\* a data item is the local one at this time (history).
RelaysInput ==
    /\ Relaying /\ typedKeys # <<>>
    /\ typedKeys' = Tail(typedKeys)
    /\ LET item == [Head(typedKeys) EXCEPT !.size = window.size] IN
       IF item.does = "data" /\ window.sent # window.size
       THEN outbox' = <<Resize(window.size), item>> /\ window' = [window EXCEPT !.sent = window.size]
       ELSE outbox' = <<item>> /\ UNCHANGED window
    /\ UNCHANGED <<held, use, keyed, unread, parser, pump, inputReady, control, wire, program,
                   printer, ssh, early>>

RelaysResize ==
    /\ Relaying /\ window.signal
    /\ window' = [window EXCEPT !.signal = FALSE, !.sent = window.size]
    /\ outbox' = <<Resize(window.size)>>
    /\ UNCHANGED <<held, use, keyed, unread, parser, pump, inputReady, typedKeys, control, wire,
                   program, printer, ssh, early>>

\* A closed stream fails the command, even if the program's end is on its way.
RelaySends ==
    /\ Forwards /\ outbox # <<>>
    /\ IF wire.open
       THEN /\ Len(wire.items) < WireCap
            /\ wire' = [wire EXCEPT !.items = Append(@, Head(outbox))]
            /\ outbox' = Tail(outbox)
            /\ UNCHANGED <<printer, ssh>>
       ELSE OperationEnds("failed") /\ UNCHANGED <<wire, outbox>>
    /\ UNCHANGED <<held, use, keyed, unread, parser, pump, inputReady, typedKeys, control,
                   window, program, early>>

\* The task of open_pty_session ends at the end of the input, and drops the rest.
RemoteReads ==
    /\ program.state = "runs" /\ wire.items # <<>>
    /\ LET item == Head(wire.items) IN
       /\ wire' = IF item.does = "eof" THEN [open |-> FALSE, items |-> <<>>]
                  ELSE [wire EXCEPT !.items = Tail(@)]
       /\ program' = IF item.does = "resize" THEN [program EXCEPT !.size = item.size]
                    ELSE [program EXCEPT !.got = @ \o item.keys,
                              !.sized = @ /\ (item.does = "data" => item.size = program.size)]
    /\ UNCHANGED <<held, use, keyed, unread, parser, pump, inputReady, typedKeys, control,
                   window, outbox, printer, ssh, early>>

RemoteWrites ==
    /\ program.state = "runs" /\ program.wrote < MaxPrinted
    /\ program' = [program EXCEPT !.wrote = @ + 1]
    /\ printer' = [printer EXCEPT !.events = Append(@, "chunk")]
    /\ UNCHANGED <<held, use, keyed, unread, parser, pump, inputReady, typedKeys, control,
                   window, outbox, wire, ssh, early>>

\* The program ends, another client closes it, or takes it over; or the
\* connection is lost and the stream ends.
RemoteEnds ==
    /\ program.state = "runs"
    /\ \E how \in {"exit", "end"} :
          /\ program' = [program EXCEPT !.state = how]
          /\ printer' = [printer EXCEPT !.events = Append(@, how)]
    /\ UNCHANGED <<held, use, keyed, unread, parser, pump, inputReady, typedKeys, control,
                   window, outbox, wire, ssh, early>>

RequestStreamCloses ==
    /\ program.state \in {"exit", "end"} /\ wire.open
    /\ wire' = [open |-> FALSE, items |-> <<>>]
    /\ UNCHANGED <<held, use, keyed, unread, parser, pump, inputReady, typedKeys, control,
                   window, outbox, program, printer, ssh, early>>

\* The status of an unnamed session is reported when its stream has ended too.
ReadsEvent ==
    /\ Running /\ printer.at = "reads" /\ printer.events # <<>>
    /\ LET event == Head(printer.events)
           rest == [printer EXCEPT !.events = Tail(@)]
       IN CASE event = "chunk" -> printer' = [rest EXCEPT !.at = "prints"] /\ UNCHANGED ssh
            [] event = "exit" /\ ~use.named -> printer' = [rest EXCEPT !.at = "closes"] /\ UNCHANGED ssh
            [] event = "exit" /\ use.named  -> OperationEnds("exit")
            [] event = "end"   -> OperationEnds("failed")
    /\ UNCHANGED <<held, use, keyed, unread, parser, pump, inputReady, typedKeys, control,
                   window, outbox, wire, program, early>>

\* A local terminal may take any time, or fail.
Prints ==
    /\ Running /\ printer.at = "prints" /\ held = "nothing"
    /\ \/ /\ printer' = [printer EXCEPT !.at = "reads", !.shown = @ + 1]
          /\ UNCHANGED ssh
       \/ OperationEnds("failed")
    /\ UNCHANGED <<held, use, keyed, unread, parser, pump, inputReady, typedKeys, control,
                   window, outbox, wire, program, early>>

OutputCloses ==
    /\ Running /\ printer.at = "closes"
    /\ \E result \in {"exit", "failed"} : OperationEnds(result)
    /\ UNCHANGED <<held, use, keyed, unread, parser, pump, inputReady, typedKeys, control,
                   window, outbox, wire, program, early>>
----------------------------------------------------------------------------
(* run_ssh after the operation.                                            *)

\* cancellable looks at the detach channel first.
Cancelled ==
    /\ Running /\ control # "none"
    /\ ssh' = [ssh EXCEPT !.at = "joins",
                          !.result = IF control = "detach" THEN "detached" ELSE "failed"]
    /\ UNCHANGED <<held, use, keyed, unread, parser, pump, inputReady, typedKeys, control,
                   window, outbox, wire, program, printer, early>>

\* The display is reset by writing to the terminal, behind what another thread still
\* writes there, and then its mode; to a stdout that is no terminal nothing is written.
WritesRestore == held # "terminal" /\ ssh' = [ssh EXCEPT !.at = "over", !.tty = "cooked"]

\* Input's drop joins the thread; then the display and the guards' state are restored.
Restores ==
    /\ ssh.at = "joins" /\ pump.at = "done" /\ WritesRestore
    /\ UNCHANGED <<held, use, keyed, unread, parser, pump, inputReady, typedKeys, control,
                   window, outbox, wire, program, printer, early>>

\* terminate_after_signal, which joins nothing.
EndsBySignal ==
    /\ ssh.at = "ends" /\ WritesRestore
    /\ UNCHANGED <<held, use, keyed, unread, parser, pump, inputReady, typedKeys, control,
                   window, outbox, wire, program, printer, early>>

LocalStep ==
    \/ ReadsTerminal \/ Pauses \/ ReadsPipe \/ PumpSends \/ PumpStops
    \/ Cancelled \/ Restores \/ EndsBySignal
\* Followed to the end of the command.
TerminalNext ==
    \/ LocalStep \/ OutputHeld
    \/ /\ Running
       /\ \/ \E k \in Keys : Types(k)
          \/ ResizesWindow \/ Signalled \/ RequestsSession \/ Attached \/ OperationFails
          \/ RelaysInput \/ RelaysResize \/ RelaySends
          \/ RemoteReads \/ RemoteWrites \/ RemoteEnds \/ RequestStreamCloses
          \/ ReadsEvent \/ Prints \/ OutputCloses

TerminalSpec == TerminalInit /\ [][TerminalNext]_terminalVars
----------------------------------------------------------------------------
TerminalTypeOK ==
    /\ Len(keyed) <= MaxTyped /\ Len(typedKeys) <= InputCap /\ Len(wire.items) <= WireCap
    /\ Len(outbox) <= 2
    /\ pump.at \in {"runs", "sends", "ended", "done"}
    /\ control \in {"none", "detach", "error"}
    /\ printer.at \in {"connects", "opens", "views", "reads", "prints", "closes", "over"}
    /\ held \in {"nothing", "terminal", "pipe"}
    /\ ssh.at \in {"runs", "joins", "ends", "over"} /\ ssh.tty \in {"raw", "cooked"}
    /\ ssh.result \in {"none", "exit", "failed", "detached", "signalled"}

\* Key i is typed within a bracketed paste: as the sequences before it say.
Bracket(i, edge) == i > 1 /\ keyed[i - 1] = "esc" /\ keyed[i] = edge
InPaste(i) ==
    \E j \in 1 .. i - 1 :
        Bracket(j, "on") /\ \A l \in j + 1 .. i - 1 : ~Bracket(l, "off")

\* The remote program is sent the keys typed while it was there, each once, in
\* order and with none left out between them; the size of the window reaches it
\* before the keys typed in it.
InputFaithful ==
    /\ program.sized
    /\ \A i \in 1 .. Len(program.got) :
        /\ i > 1 => program.got[i - 1] < program.got[i]
        /\ \A key \in 1 .. program.got[i] : key \in Range(program.got) \cup early

\* The command detaches only on a detach key typed outside a paste; a pause
\* within an escape sequence, or an escape key right before one, is left out.
DetachMeant ==
    ssh.result = "detached" /\ ~parser.split /\ (\A i \in 2 .. Len(keyed) : ~Bracket(i, "esc")) =>
        \E i \in 1 .. Len(keyed) : (keyed[i] = "detach" \/ Bracket(i, "chord")) /\ ~InPaste(i)

\* An exit status is reported when all output of the program has been printed.
OutputWhole ==
    ssh.result = "exit" => program.state = "exit" /\ printer.shown = program.wrote

\* The detach key works whatever the network and the remote program do, also while the
\* command still connects or its output goes to a pipe that nobody reads; only a local
\* terminal that takes no output for good keeps the command, which writes to it last.
LocalControl ==
    use.interactive /\ (\E i \in 1 .. Len(keyed) :
            keyed[i] = "detach" /\ \A j \in 1 .. i - 1 : keyed[j] # "esc")
        ~> ssh.at = "over" \/ held = "terminal"
=============================================================================
