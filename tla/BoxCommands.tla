---------------------------- MODULE BoxCommands ----------------------------
(***************************************************************************)
(* Starting, stopping, restarting, deleting and checkpointing one box by   *)
(* several commands at a time (crates/pbox-cli/src/main.rs): every command *)
(* asks PVE for a task and polls it, while PVE, the guest and the other    *)
(* commands change the box.                                                *)
(***************************************************************************)
EXTENDS Naturals

CONSTANTS
    BoxCalls,  \* invocations
    BoxKinds,  \* "start", "stop", "restart", "delete", "checkpoint", "rollback"
    MaxMisses  \* transient errors in a row that a poll survives (3)

ASSUME BoxCommandsAssumption ==
    /\ MaxMisses \in Nat
    /\ BoxKinds \subseteq {"start", "stop", "restart", "delete", "checkpoint", "rollback"}

VARIABLES
    power,  \* the container: "running", "stopped" or "gone"
    cmd,    \* cmd[c]: the invocation
    pveTask,   \* pveTask[c]: [does, status] of the PVE task it last asked for
    seen    \* seen[c]: what the box has been since c began: "stopped", then
            \* "restarted"; "running", "gone", "restored" (history)

commandVars == <<power, cmd, pveTask, seen>>

NoTask == [does |-> "nothing", status |-> "none"]

CommandInit ==
    /\ power \in {"running", "stopped"}
    /\ cmd \in [BoxCalls ->
           [at : {"idle"}, kind : BoxKinds, force : BOOLEAN, misses : {0}, grace : {"none"},
            result : {"none"}]]
    /\ pveTask = [c \in BoxCalls |-> NoTask]
    /\ seen = [c \in BoxCalls |-> {}]

Active(c) == cmd[c].at \notin {"idle", "done"}
Leads(c, at) == cmd' = [cmd EXCEPT ![c].at = at]
CommandReports(c, result) == cmd' = [cmd EXCEPT ![c].at = "done", ![c].result = result]

Notes(s, new) ==
    s \cup {new} \cup (IF new = "running" /\ "stopped" \in s THEN {"restarted"} ELSE {})
\* The container becomes new, which every command under way may notice.
Becomes(new) ==
    /\ power' = new
    /\ seen' = [d \in BoxCalls |-> IF Active(d) THEN Notes(seen[d], new) ELSE seen[d]]
----------------------------------------------------------------------------
(* PVE and the guest.                                                      *)

GuestPowersOff ==
    /\ power = "running"
    /\ Becomes("stopped")
    /\ UNCHANGED <<cmd, pveTask>>

\* A task that cannot do what it is asked to, or finds the container locked,
\* fails; a shutdown fails too when the guest does not follow it in time.
TaskFails(c) ==
    /\ pveTask[c].status = "runs"
    /\ pveTask' = [pveTask EXCEPT ![c].status = "failed"]
    /\ UNCHANGED <<power, cmd, seen>>

TaskSucceeds(c) ==
    /\ pveTask[c].status = "runs"
    /\ pveTask' = [pveTask EXCEPT ![c].status = "ok"]
    /\ CASE pveTask[c].does = "start"      -> power = "stopped" /\ Becomes("running")
         [] pveTask[c].does \in {"shutdown", "stop"}
                                        -> power # "gone" /\ Becomes("stopped")
         [] pveTask[c].does = "destroy"    -> power = "stopped" /\ Becomes("gone")
         [] pveTask[c].does = "force_destroy" -> power # "gone" /\ Becomes("gone")
         [] pveTask[c].does = "checkpoint" -> power # "gone" /\ UNCHANGED <<power, seen>>
         [] pveTask[c].does = "rollback"   ->
               /\ power # "gone"
               /\ power' = IF cmd[c].force THEN "running" ELSE "stopped"  \* --start
               /\ seen' = [d \in BoxCalls |->
                      IF Active(d) THEN Notes(Notes(seen[d], "stopped"), power') \cup {"restored"}
                      ELSE seen[d]]
    /\ UNCHANGED cmd
----------------------------------------------------------------------------
(* The commands.                                                           *)

\* find_box, and for some commands the state of the container.
Begins(c) ==
    /\ cmd[c].at = "idle" /\ power # "gone"
    /\ seen' = [seen EXCEPT ![c] = {power}]
    /\ Leads(c, CASE cmd[c].kind = "start"   -> "checks"
                  [] cmd[c].kind = "restart" -> IF power = "stopped" THEN "checks" ELSE "stops"
                  [] cmd[c].kind = "stop"    -> "stops"
                  [] cmd[c].kind = "delete"  -> IF cmd[c].force THEN "queues"
                                                ELSE IF power = "stopped" THEN "destroys" ELSE "stops"
                  [] OTHER                   -> "asks")
    /\ UNCHANGED <<power, pveTask>>

\* ensure_box_started: the state is read and the start asked for later.
ChecksState(c) ==
    /\ cmd[c].at = "checks"
    /\ Leads(c, IF power = "running" THEN "ready" ELSE "starts")
    /\ UNCHANGED <<power, pveTask, seen>>

\* What the command asks PVE for in its present stage.
Wish(c) ==
    CASE cmd[c].at = "starts"    -> "start"
      [] cmd[c].at = "stops"     -> IF cmd[c].force /\ cmd[c].kind # "delete" THEN "stop" ELSE "shutdown"
      [] cmd[c].at = "escalates" -> "stop"
      [] cmd[c].at = "destroys"  -> "destroy"
      [] cmd[c].at = "queues"    -> "force_destroy"
      [] cmd[c].at = "asks"      -> cmd[c].kind
      [] OTHER                   -> "nothing"

\* queue_delete reports without waiting.
Asks(c) ==
    /\ Wish(c) # "nothing" /\ power # "gone"
    /\ pveTask' = [pveTask EXCEPT ![c] = [does |-> Wish(c), status |-> "runs"]]
    /\ IF cmd[c].at = "queues" THEN CommandReports(c, "queued") ELSE Leads(c, "polls")
    /\ UNCHANGED <<power, seen>>

AskFails(c) ==
    /\ Wish(c) # "nothing"
    /\ CommandReports(c, "failed")
    /\ UNCHANGED <<power, pveTask, seen>>

\* A 502, 503, 504 or 596 is polled again, three times in a row.
PollMissed(c) ==
    /\ cmd[c].at = "polls" /\ cmd[c].misses < MaxMisses
    /\ cmd' = [cmd EXCEPT ![c].misses = @ + 1]
    /\ UNCHANGED <<power, pveTask, seen>>

PollRuns(c) ==
    /\ cmd[c].at = "polls" /\ pveTask[c].status = "runs" /\ cmd[c].misses > 0
    /\ cmd' = [cmd EXCEPT ![c].misses = 0]
    /\ UNCHANGED <<power, pveTask, seen>>

\* Where a finished task leads: a restart and a delete read the state again.
AfterTask(c) ==
    CASE pveTask[c].does \in {"shutdown", "stop"} /\ cmd[c].kind \in {"restart", "delete"} -> "verifies"
      [] pveTask[c].does = "start" -> "ready"
      [] OTHER -> "done"

\* Mutant: whatever ends the wait for the shutdown, the box is stopped by force.
GiveUpEscalates(c) ==
    /\ cmd[c].at = "polls"
    /\ IF pveTask[c].does = "shutdown" /\ cmd[c].kind = "restart"
       THEN cmd' = [cmd EXCEPT ![c].at = "escalates", ![c].grace = pveTask[c].status]
       ELSE CommandReports(c, "failed")
    /\ UNCHANGED <<power, pveTask, seen>>

\* The fourth miss, another error, or 300 seconds: the task may go on.
PollGivesUp(c) ==
    /\ cmd[c].at = "polls"
    /\ CommandReports(c, "failed")
    /\ UNCHANGED <<power, pveTask, seen>>

PollEnds(c) ==
    /\ cmd[c].at = "polls" /\ pveTask[c].status = "ok"
    /\ cmd' = [cmd EXCEPT ![c].at = AfterTask(c), ![c].misses = 0,
                          ![c].result = IF AfterTask(c) = "done" THEN "ok" ELSE @]
    /\ UNCHANGED <<power, pveTask, seen>>

\* PveTaskFailure; stop_for_restart then looks and stops by force.
PollFails(c) ==
    /\ cmd[c].at = "polls" /\ pveTask[c].status = "failed"
    /\ IF pveTask[c].does = "shutdown" /\ cmd[c].kind = "restart"
       THEN cmd' = [cmd EXCEPT ![c].at = IF power = "stopped" THEN "verifies" ELSE "escalates",
                               ![c].misses = 0, ![c].grace = "failed"]
       ELSE CommandReports(c, "failed")
    /\ UNCHANGED <<power, pveTask, seen>>

\* "is still running": the box must be stopped now.
Verifies(c) ==
    /\ cmd[c].at = "verifies"
    /\ IF power # "stopped" THEN CommandReports(c, "failed")
       ELSE Leads(c, IF cmd[c].kind = "restart" THEN "checks" ELSE "destroys")
    /\ UNCHANGED <<power, pveTask, seen>>

\* wait_for_lxc_ip and wait_for_agent, or relay::wait_ready: a guest that runs
\* answers, or 60 seconds pass.
Ready(c) ==
    /\ cmd[c].at = "ready" /\ power = "running"
    /\ CommandReports(c, "ok")
    /\ UNCHANGED <<power, pveTask, seen>>

NotReady(c) ==
    /\ cmd[c].at = "ready"
    /\ CommandReports(c, "failed")
    /\ UNCHANGED <<power, pveTask, seen>>

CommandStep(c) ==
    \/ Begins(c) \/ ChecksState(c) \/ Asks(c) \/ AskFails(c)
    \/ PollMissed(c) \/ PollRuns(c) \/ PollGivesUp(c) \/ PollEnds(c) \/ PollFails(c)
    \/ Verifies(c) \/ Ready(c) \/ NotReady(c)

CommandNext ==
    \/ GuestPowersOff
    \/ \E c \in BoxCalls : TaskFails(c) \/ TaskSucceeds(c) \/ CommandStep(c)

CommandSpec == CommandInit /\ [][CommandNext]_commandVars
----------------------------------------------------------------------------
CommandTypeOK ==
    /\ power \in {"running", "stopped", "gone"}
    /\ \A c \in BoxCalls :
        /\ cmd[c].at \in {"idle", "checks", "starts", "stops", "escalates", "destroys", "queues",
                          "asks", "polls", "verifies", "ready", "done"}
        /\ pveTask[c].status \in {"none", "runs", "ok", "failed"}
        /\ cmd[c].misses \in 0 .. MaxMisses
        /\ seen[c] \subseteq {"running", "stopped", "restarted", "gone", "restored"}

\* What a command reports has happened to the box since it began, whatever the
\* others did: a restarted box was stopped and came up again after that.
ReportsHappened ==
    \A c \in BoxCalls : cmd[c].result = "ok" =>
        CASE cmd[c].kind = "start"    -> "running" \in seen[c]
          [] cmd[c].kind = "stop"     -> "stopped" \in seen[c]
          [] cmd[c].kind = "restart"  -> "restarted" \in seen[c]
          [] cmd[c].kind = "delete"   -> "gone" \in seen[c]
          [] cmd[c].kind = "rollback" -> "restored" \in seen[c]
          [] OTHER                    -> TRUE

\* Without --force a restart kills the box only after its graceful shutdown has
\* failed for good: no shutdown that may still end well is cut short.
GraceGiven ==
    \A c \in BoxCalls :
        pveTask[c].does = "stop" /\ ~cmd[c].force => cmd[c].grace = "failed"
=============================================================================
