------------------------------ MODULE ExecPipes ------------------------------
(***************************************************************************)
(* One command without a terminal (run_piped_command and its tasks in      *)
(* crates/pbox-agent/src/main.rs) and the client that collects its output  *)
(* (collect_exec_stream in crates/pbox-agent-client/src/lib.rs): the       *)
(* process and what it leaves behind, a task per output stream, the task   *)
(* that feeds standard input, the wait that decides how it ends, and the   *)
(* bounded channel of events the client reads.                             *)
(***************************************************************************)
EXTENDS Naturals, Sequences

CONSTANTS
    MaxOutput,  \* chunks the command writes to each stream
    PipeCap,    \* chunks a pipe of the kernel holds
    EventCap    \* events the channel holds (16, and HTTP/2's windows)

ASSUME ExecAssumption ==
    MaxOutput \in Nat /\ PipeCap \in Nat \ {0} /\ EventCap \in Nat \ {0}

VARIABLES
    proc,       \* the child: running, exited (not yet waited for), reaped
    kin,        \* its descendants with its outputs open: none, in its session
                \* ("group"), or out of the reach of a kill ("escaped")
    output,     \* each stream: written, in the pipe, read by the client
    task,       \* the task of each output: read, send, done, cut (aborted)
    input,      \* the task of standard input: run, done, failed, aborted
    alarm,      \* Notify output_failure holds a notification
    waiter,     \* run_piped_command: wait, stdin, stdout, stderr, report, over
    verdict,    \* input_error: "none", or what is reported in place of the exit
    events,     \* the channel
    collector   \* the client: collecting, exited (has the exit), ok, error, gone

execVars == <<proc, kin, output, task, input, alarm, waiter, verdict, events, collector>>

Streams == {"stdout", "stderr"}

ExecInit ==
    /\ proc = "running"
    /\ kin \in {"none", "group", "escaped"}
    /\ output = [s \in Streams |-> [wrote |-> 0, piped |-> 0, got |-> 0]]
    /\ task = [s \in Streams |-> "read"]
    /\ input = "run"
    /\ alarm = FALSE
    /\ waiter = "wait"
    /\ verdict = "none"
    /\ events = <<>>
    /\ collector = "collecting"

Listening == collector \in {"collecting", "exited"}
\* Mutant: one event more than the channel holds.
RoomForOneMore == Len(events) <= EventCap

Room == Len(events) < EventCap
WriteEndOpen == proc = "running" \/ kin # "none"
----------------------------------------------------------------------------
\* The command.
CommandWrites(s) ==
    /\ WriteEndOpen
    /\ output[s].wrote < MaxOutput /\ output[s].piped < PipeCap
    /\ output' = [output EXCEPT ![s].wrote = @ + 1, ![s].piped = @ + 1]
    /\ UNCHANGED <<proc, kin, task, input, alarm, waiter, verdict, events, collector>>

CommandExits ==
    /\ proc = "running"
    /\ proc' = "exited"
    /\ UNCHANGED <<kin, output, task, input, alarm, waiter, verdict, events, collector>>

KinExit ==
    /\ kin # "none"
    /\ kin' = "none"
    /\ UNCHANGED <<proc, output, task, input, alarm, waiter, verdict, events, collector>>
----------------------------------------------------------------------------
\* Mutant: the command's exit is taken for the end of its output.
OutputReadUntilExit(s) ==
    /\ task[s] = "read"
    /\ \/ /\ output[s].piped > 0
          /\ output' = [output EXCEPT ![s].piped = @ - 1]
          /\ task' = [task EXCEPT ![s] = "send"]
       \/ /\ proc # "running"
          /\ task' = [task EXCEPT ![s] = "done"]
          /\ UNCHANGED output
    /\ UNCHANGED <<proc, kin, input, alarm, waiter, verdict, events, collector>>

\* send_output.
OutputRead(s) ==
    /\ task[s] = "read"
    /\ \/ /\ output[s].piped > 0
          /\ output' = [output EXCEPT ![s].piped = @ - 1]
          /\ task' = [task EXCEPT ![s] = "send"]
       \/ /\ output[s].piped = 0 /\ ~WriteEndOpen
          /\ task' = [task EXCEPT ![s] = "done"]
          /\ UNCHANGED output
    /\ UNCHANGED <<proc, kin, input, alarm, waiter, verdict, events, collector>>

OutputSent(s) ==
    /\ task[s] = "send" /\ Room /\ Listening
    /\ events' = Append(events, s)
    /\ task' = [task EXCEPT ![s] = "read"]
    /\ UNCHANGED <<proc, kin, output, input, alarm, waiter, verdict, collector>>

\* The receiver is gone, or five minutes without room.
OutputUnsent(s) ==
    /\ task[s] = "send" /\ (~Listening \/ ~Room)
    /\ alarm' = TRUE
    /\ task' = [task EXCEPT ![s] = "done"]
    /\ UNCHANGED <<proc, kin, output, input, waiter, verdict, events, collector>>
----------------------------------------------------------------------------
\* forward_stdin: the client's end marker or the end of its stream closes the
\* command's input; five idle minutes, a write of 30 seconds, a command that
\* has closed its input, or a bad message fail the task.
InputEnds ==
    /\ input = "run"
    /\ input' \in {"done", "failed"}
    /\ UNCHANGED <<proc, kin, output, task, alarm, waiter, verdict, events, collector>>

\* The kill reaches the session of the child; then the child is waited for.
Terminates(why) ==
    /\ waiter = "wait"
    /\ proc' = "reaped"
    /\ kin' = IF kin = "group" THEN "none" ELSE kin
    /\ verdict' = why
    /\ waiter' = "stdin"
    /\ UNCHANGED <<output, task, input, alarm, events, collector>>

\* wait_for_child_with_input, wait_for_child: what the select may find.
ChildWaited == proc = "exited" /\ Terminates("none")
ReceiverClosed == ~Listening /\ Terminates("none")
OutputAlarm == alarm /\ Terminates("none")
InputFailed == input = "failed" /\ Terminates("stdin error")
Deadline == Terminates("deadline")  \* one hour

\* Mutant: the stdin task is awaited instead of aborted.
StdinAwaited ==
    /\ waiter = "stdin" /\ input # "run"
    /\ waiter' = "stdout"
    /\ UNCHANGED <<proc, kin, output, task, input, alarm, verdict, events, collector>>

StdinJoined ==
    /\ waiter = "stdin"
    /\ input' = IF input = "run" THEN "aborted" ELSE input
    /\ waiter' = "stdout"
    /\ UNCHANGED <<proc, kin, output, task, alarm, verdict, events, collector>>

AfterJoin(s) == IF s = "stdout" THEN "stderr" ELSE "report"

\* await_output_task: the task has ended, or is aborted after ten seconds.
OutputJoined(s) ==
    /\ waiter = s
    /\ task' = IF task[s] = "done" THEN task ELSE [task EXCEPT ![s] = "cut"]
    /\ waiter' = AfterJoin(s)
    /\ UNCHANGED <<proc, kin, output, input, alarm, verdict, events, collector>>

\* The exit status or the error, if the channel takes it within ten seconds.
Reports ==
    /\ waiter = "report"
    /\ \/ /\ Room /\ Listening
          /\ events' = Append(events, IF verdict = "none" THEN "exit" ELSE "status")
       \/ /\ ~Room \/ ~Listening
          /\ UNCHANGED events
    /\ waiter' = "over"
    /\ UNCHANGED <<proc, kin, output, task, input, alarm, verdict, collector>>
----------------------------------------------------------------------------
\* collect_exec_stream.
Collects ==
    LET event == Head(events)
    IN  /\ Listening /\ events # <<>>
        /\ events' = Tail(events)
        /\ IF event \in Streams /\ collector = "collecting"
           THEN output' = [output EXCEPT ![event].got = @ + 1]
           ELSE UNCHANGED output
        /\ collector' =
               IF collector = "exited" \/ event = "status" THEN "error"
               ELSE IF event = "exit" THEN "exited"
               ELSE "collecting"
        /\ UNCHANGED <<proc, kin, task, input, alarm, waiter, verdict>>

\* The stream ends once the command's tasks have dropped the sender.
StreamEnds ==
    /\ Listening /\ events = <<>> /\ waiter = "over"
    /\ collector' = IF collector = "exited" THEN "ok" ELSE "error"
    /\ UNCHANGED <<proc, kin, output, task, input, alarm, waiter, verdict, events>>

\* The client is killed, its connection is lost, or its ten minutes are over.
CollectorLeaves ==
    /\ Listening
    /\ collector' = "gone"
    /\ UNCHANGED <<proc, kin, output, task, input, alarm, waiter, verdict, events>>

Waits == ChildWaited \/ ReceiverClosed \/ OutputAlarm \/ InputFailed \/ Deadline
Finishes == StdinJoined \/ Reports \/ \E s \in Streams : OutputJoined(s)

ExecNext ==
    \/ CommandExits \/ KinExit \/ InputEnds
    \/ \E s \in Streams :
        CommandWrites(s) \/ OutputRead(s) \/ OutputSent(s) \/ OutputUnsent(s)
    \/ Waits \/ Finishes
    \/ Collects \/ StreamEnds \/ CollectorLeaves

ExecSpec == ExecInit /\ [][ExecNext]_execVars
-----------------------------------------------------------------------------
ExecTypeOK ==
    /\ proc \in {"running", "exited", "reaped"}
    /\ kin \in {"none", "group", "escaped"}
    /\ output \in [Streams -> [wrote : 0 .. MaxOutput, piped : 0 .. PipeCap, got : 0 .. MaxOutput]]
    /\ task \in [Streams -> {"read", "send", "done", "cut"}]
    /\ input \in {"run", "done", "failed", "aborted"}
    /\ alarm \in BOOLEAN
    /\ waiter \in {"wait", "stdin", "stdout", "stderr", "report", "over"}
    /\ verdict \in {"none", "stdin error", "deadline"}
    /\ events \in Seq(Streams \cup {"exit", "status"}) /\ Len(events) <= EventCap
    /\ collector \in {"collecting", "exited", "ok", "error", "gone"}

\* A client that collects a result has an exit status and every byte of output,
\* unless a task was cut short after ten seconds or failed to send; and by then
\* nothing that shares the command's session is left to run.
ExecComplete ==
    collector = "ok" =>
        /\ verdict = "none" /\ proc = "reaped" /\ kin # "group"
        /\ \A s \in Streams :
               task[s] = "cut" \/ alarm \/ output[s].got = output[s].wrote

\* The agent has no task of the command left: its exec permit is free again.
CommandOver ==
    /\ waiter = "over" /\ proc = "reaped" /\ input # "run"
    /\ \A s \in Streams : task[s] \in {"done", "cut"}
=============================================================================
