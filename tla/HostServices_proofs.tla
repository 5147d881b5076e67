------------------------- MODULE HostServices_proofs -------------------------
(***************************************************************************)
(* What the services of the command line's host keep, for any number of    *)
(* commands, boxes, daemons and applications: one inductive invariant per  *)
(* service, a lemma per action, and the theorem that it holds.             *)
(***************************************************************************)
EXTENDS
    BoxCommands, Inventory, RelayAccess, RecipeCache, RecipeApply, LocalConfig,
    ImageTemplates, TerminalClient, FiniteSetTheorems, TLAPS

-----------------------------------------------------------------------------
(***************************************************************************)
(* Commands on a box                                                       *)
(***************************************************************************)

CommandStages ==
    {"idle", "checks", "starts", "stops", "escalates", "destroys", "queues", "asks", "polls",
     "verifies", "ready", "done"}
Commands ==
    [at : CommandStages, kind : BoxKinds, force : BOOLEAN, misses : 0 .. MaxMisses,
     grace : {"none", "failed"}, result : {"none", "ok", "failed", "queued"}]
TaskWishes ==
    {"start", "shutdown", "stop", "destroy", "force_destroy", "checkpoint", "rollback"}
PveTasks == [does : TaskWishes \cup {"nothing"}, status : {"none", "runs", "ok", "failed"}]

CommandShape ==
    /\ power \in {"running", "stopped", "gone"}
    /\ cmd \in [BoxCalls -> Commands]
    /\ pveTask \in [BoxCalls -> PveTasks]
    /\ seen \in [BoxCalls -> SUBSET {"running", "stopped", "restarted", "gone", "restored"}]

\* A command under way has seen what the box is, and has noticed a restart.
BoxSeen ==
    \A c \in BoxCalls : Active(c) =>
        /\ power \in seen[c]
        /\ "stopped" \in seen[c] /\ power = "running" => "restarted" \in seen[c]

\* The stages that each kind goes through, and what it knows in them.
StageFits ==
    \A c \in BoxCalls :
        /\ cmd[c].at \in {"checks", "starts", "ready"} => cmd[c].kind \in {"start", "restart"}
        /\ cmd[c].at \in {"checks", "starts", "ready"} /\ cmd[c].kind = "restart" =>
               "stopped" \in seen[c]
        /\ cmd[c].at = "stops" => cmd[c].kind \in {"stop", "restart", "delete"}
        /\ cmd[c].at \in {"escalates", "verifies"} => cmd[c].kind \in {"restart", "delete"}
        /\ cmd[c].at = "escalates" => cmd[c].kind = "restart" /\ cmd[c].grace = "failed"
        /\ cmd[c].at = "destroys" => cmd[c].kind = "delete"
        /\ cmd[c].at = "queues" => cmd[c].kind = "delete"
        /\ cmd[c].at = "asks" => cmd[c].kind \in {"checkpoint", "rollback"}

\* The task that is polled is one that the kind asks for, and a success was seen.
TaskFits ==
    \A c \in BoxCalls :
        /\ pveTask[c].status = "runs" => pveTask[c].does # "nothing"
        /\ cmd[c].at = "polls" =>
            /\ pveTask[c].does = "start" => cmd[c].kind \in {"start", "restart"}
            /\ pveTask[c].does = "start" /\ cmd[c].kind = "restart" => "stopped" \in seen[c]
            /\ pveTask[c].does \in {"shutdown", "stop"} =>
                   cmd[c].kind \in {"stop", "restart", "delete"}
            /\ pveTask[c].does = "destroy" => cmd[c].kind = "delete"
            /\ pveTask[c].does \in {"checkpoint", "rollback"} => cmd[c].kind = pveTask[c].does
            /\ pveTask[c].does \notin {"nothing", "force_destroy"}
            /\ pveTask[c].status = "ok" =>
                /\ pveTask[c].does \in {"shutdown", "stop"} => "stopped" \in seen[c]
                /\ pveTask[c].does = "destroy" => "gone" \in seen[c]
                /\ pveTask[c].does = "rollback" => "restored" \in seen[c]

\* Only a command that is over has a result.
ResultAtEnd == \A c \in BoxCalls : cmd[c].result # "none" => cmd[c].at = "done"

CommandInv ==
    CommandShape /\ BoxSeen /\ StageFits /\ TaskFits /\ ResultAtEnd /\ ReportsHappened /\ GraceGiven

\* One command takes a step.
CommandMoves(c, at, misses, grace, result) ==
    /\ cmd' \in [BoxCalls -> Commands]
    /\ \A d \in BoxCalls : d # c => cmd'[d] = cmd[d]
    /\ cmd'[c].at = at
    /\ cmd'[c].kind = cmd[c].kind
    /\ cmd'[c].force <=> cmd[c].force
    /\ cmd'[c].misses = misses
    /\ cmd'[c].grace = grace
    /\ cmd'[c].result = result

LEMMA LeadsMoves ==
    ASSUME CommandShape, NEW c \in BoxCalls, NEW at \in CommandStages, Leads(c, at)
    PROVE  CommandMoves(c, at, cmd[c].misses, cmd[c].grace, cmd[c].result)
BY DEF CommandShape, Leads, CommandMoves, Commands

LEMMA ReportMoves ==
    ASSUME CommandShape, NEW c \in BoxCalls, NEW result \in {"ok", "failed", "queued"},
           CommandReports(c, result)
    PROVE  CommandMoves(c, "done", cmd[c].misses, cmd[c].grace, result)
<1>1. cmd \in [BoxCalls -> Commands] /\ "done" \in CommandStages
    BY DEF CommandShape, CommandStages
<1>2. cmd' = [cmd EXCEPT ![c] = [cmd[c] EXCEPT !.at = "done", !.result = result]]
    BY <1>1 DEF CommandReports
<1>3. QED  BY <1>1, <1>2 DEF CommandMoves, Commands

\* What the box becomes is seen by the commands under way.
BoxNoticed ==
    /\ power' \in {"running", "stopped", "gone"}
    /\ seen' \in [BoxCalls -> SUBSET {"running", "stopped", "restarted", "gone", "restored"}]
    /\ \A d \in BoxCalls :
        /\ seen[d] \subseteq seen'[d]
        /\ Active(d) =>
            /\ power' \in seen'[d]
            /\ "stopped" \in seen'[d] /\ power' = "running" => "restarted" \in seen'[d]

LEMMA BecomesNoticed ==
    ASSUME CommandShape, BoxSeen, NEW new \in {"running", "stopped", "gone"}, Becomes(new)
    PROVE  BoxNoticed /\ power' = new
<1>1. power' = new
    BY DEF Becomes
<1>2. \A d \in BoxCalls : seen'[d] = IF Active(d) THEN Notes(seen[d], new) ELSE seen[d]
    BY DEF Becomes
<1>3. \A d \in BoxCalls :
          seen[d] \in SUBSET {"running", "stopped", "restarted", "gone", "restored"}
    BY DEF CommandShape
<1>4. \A d \in BoxCalls :
          seen'[d] \in SUBSET {"running", "stopped", "restarted", "gone", "restored"}
    BY <1>2, <1>3 DEF Notes
<1>5. seen' \in [BoxCalls -> SUBSET {"running", "stopped", "restarted", "gone", "restored"}]
    BY <1>4 DEF Becomes
<1>6. ASSUME NEW d \in BoxCalls
      PROVE  /\ seen[d] \subseteq seen'[d]
             /\ Active(d) =>
                 /\ new \in seen'[d]
                 /\ "stopped" \in seen'[d] /\ new = "running" => "restarted" \in seen'[d]
    <2>1. Active(d) => new \in seen'[d] /\ seen[d] \subseteq seen'[d]
        BY <1>2 DEF Notes
    <2>2. ~Active(d) => seen'[d] = seen[d]
        BY <1>2
    <2>3. Active(d) /\ "stopped" \in seen'[d] /\ new = "running" => "restarted" \in seen'[d]
        <3> SUFFICES ASSUME Active(d), "stopped" \in seen'[d], new = "running"
                     PROVE  "restarted" \in seen'[d]
            OBVIOUS
        <3>1. CASE "stopped" \in seen[d]
            BY <1>2, <3>1 DEF Notes
        <3>2. CASE "stopped" \notin seen[d]
            <4>1. seen'[d] = seen[d] \cup {new}
                BY <1>2, <3>2 DEF Notes
            <4>2. QED  BY <3>2, <4>1
        <3>3. QED  BY <3>1, <3>2
    <2>4. QED  BY <2>1, <2>2, <2>3
<1>7. QED  BY <1>1, <1>5, <1>6 DEF BoxNoticed

\* What a task that ends well has done is seen.
LEMMA SuccessNoticed ==
    ASSUME CommandShape, BoxSeen, TaskFits, NEW c \in BoxCalls, TaskSucceeds(c)
    PROVE  /\ BoxNoticed
           /\ Active(c) =>
               /\ pveTask[c].does \in {"shutdown", "stop"} => "stopped" \in seen'[c]
               /\ pveTask[c].does \in {"destroy", "force_destroy"} => "gone" \in seen'[c]
               /\ pveTask[c].does = "rollback" => "restored" \in seen'[c]
<1>1. /\ pveTask[c].does \in TaskWishes /\ power \in {"running", "stopped", "gone"}
      /\ \A d \in BoxCalls :
             seen[d] \in SUBSET {"running", "stopped", "restarted", "gone", "restored"}
      /\ seen \in [BoxCalls -> SUBSET {"running", "stopped", "restarted", "gone", "restored"}]
    BY DEF CommandShape, TaskFits, TaskSucceeds, PveTasks
<1>2. CASE pveTask[c].does = "start"
    <2>1. Becomes("running")
        BY <1>2 DEF TaskSucceeds
    <2>2. QED  BY <1>2, <2>1, BecomesNoticed
<1>3. CASE pveTask[c].does \in {"shutdown", "stop"}
    <2>1. Becomes("stopped")
        BY <1>3 DEF TaskSucceeds
    <2>2. BoxNoticed /\ power' = "stopped"
        BY <2>1, BecomesNoticed
    <2>3. QED  BY <1>3, <2>2 DEF BoxNoticed
<1>4. CASE pveTask[c].does \in {"destroy", "force_destroy"}
    <2>1. Becomes("gone")
        BY <1>4 DEF TaskSucceeds
    <2>2. BoxNoticed /\ power' = "gone"
        BY <2>1, BecomesNoticed
    <2>3. QED  BY <1>4, <2>2 DEF BoxNoticed
<1>5. CASE pveTask[c].does = "checkpoint"
    <2>1. UNCHANGED <<power, seen>>
        BY <1>5 DEF TaskSucceeds
    <2>2. QED  BY <1>1, <1>5, <2>1 DEF BoxNoticed, BoxSeen
<1>6. CASE pveTask[c].does = "rollback"
    <2>1. power' \in {"running", "stopped"}
        BY <1>6 DEF TaskSucceeds
    <2>2. /\ \A d \in BoxCalls :
              seen'[d] = IF Active(d)
                         THEN Notes(Notes(seen[d], "stopped"), power') \cup {"restored"}
                         ELSE seen[d]
          /\ DOMAIN seen' = BoxCalls /\ seen' = [d \in BoxCalls |-> seen'[d]]
        BY <1>6 DEF TaskSucceeds
    <2>3. ASSUME NEW d \in BoxCalls
          PROVE  /\ seen'[d] \in SUBSET {"running", "stopped", "restarted", "gone", "restored"}
                 /\ seen[d] \subseteq seen'[d]
                 /\ Active(d) =>
                     /\ power' \in seen'[d] /\ "restored" \in seen'[d]
                     /\ "stopped" \in seen'[d] /\ power' = "running" => "restarted" \in seen'[d]
        BY <1>1, <2>1, <2>2 DEF Notes
    <2>4. seen' \in [BoxCalls -> SUBSET {"running", "stopped", "restarted", "gone", "restored"}]
        BY <2>2, <2>3
    <2>5. QED  BY <1>6, <2>1, <2>3, <2>4 DEF BoxNoticed
<1>7. QED  BY <1>1, <1>2, <1>3, <1>4, <1>5, <1>6 DEF TaskWishes

\* The box changes by itself.
LEMMA PowersOffKeeps ==
    ASSUME CommandInv, GuestPowersOff
    PROVE  CommandInv'
<1>1. BoxNoticed /\ UNCHANGED <<cmd, pveTask>>
    BY BecomesNoticed DEF CommandInv, GuestPowersOff
<1>2. CommandShape'  BY <1>1 DEF CommandInv, CommandShape, BoxNoticed
<1>3. BoxSeen'  BY <1>1 DEF CommandInv, BoxSeen, BoxNoticed, Active
<1>4. StageFits'  BY <1>1 DEF CommandInv, StageFits, BoxNoticed
<1>5. TaskFits'  BY <1>1 DEF CommandInv, TaskFits, BoxNoticed
<1>6. ResultAtEnd'  BY <1>1 DEF CommandInv, ResultAtEnd
<1>7. ReportsHappened'  BY <1>1 DEF CommandInv, ReportsHappened, BoxNoticed
<1>8. GraceGiven'  BY <1>1 DEF CommandInv, GraceGiven
<1>9. QED  BY <1>2, <1>3, <1>4, <1>5, <1>6, <1>7, <1>8 DEF CommandInv

\* A task of PVE ends.
LEMMA TaskEndKeeps ==
    ASSUME CommandInv, NEW c \in BoxCalls, TaskFails(c) \/ TaskSucceeds(c)
    PROVE  CommandInv'
<1>1. PICK status \in {"ok", "failed"} :
          /\ pveTask' = [pveTask EXCEPT ![c].status = status]
          /\ status = "failed" => UNCHANGED <<power, seen>>
          /\ status = "ok" => TaskSucceeds(c)
    BY DEF TaskFails, TaskSucceeds
<1>2. /\ pveTask' \in [BoxCalls -> PveTasks]
      /\ \A d \in BoxCalls : d # c => pveTask'[d] = pveTask[d]
      /\ pveTask'[c].does = pveTask[c].does /\ pveTask'[c].status = status
    BY <1>1 DEF CommandInv, CommandShape, PveTasks
<1>3. UNCHANGED cmd
    BY DEF TaskFails, TaskSucceeds
<1>4. /\ BoxNoticed
      /\ status = "ok" /\ Active(c) =>
          /\ pveTask[c].does \in {"shutdown", "stop"} => "stopped" \in seen'[c]
          /\ pveTask[c].does \in {"destroy", "force_destroy"} => "gone" \in seen'[c]
          /\ pveTask[c].does = "rollback" => "restored" \in seen'[c]
    <2>1. CASE status = "ok"
        BY <1>1, <2>1, SuccessNoticed DEF CommandInv
    <2>2. CASE status = "failed"
        BY <1>1, <2>2 DEF CommandInv, CommandShape, BoxSeen, BoxNoticed
    <2>3. QED  BY <2>1, <2>2
<1>5. CommandShape'  BY <1>2, <1>3, <1>4 DEF CommandInv, CommandShape, BoxNoticed
<1>6. BoxSeen'  BY <1>3, <1>4 DEF CommandInv, BoxSeen, BoxNoticed, Active
<1>7. StageFits'  BY <1>3, <1>4 DEF CommandInv, StageFits, BoxNoticed
<1>8. TaskFits'
    <2>1. ASSUME NEW d \in BoxCalls, d # c
          PROVE  pveTask'[d] = pveTask[d] /\ cmd'[d] = cmd[d] /\ seen[d] \subseteq seen'[d]
        BY <1>2, <1>3, <1>4, <2>1 DEF BoxNoticed
    <2>2. cmd'[c] = cmd[c] /\ seen[c] \subseteq seen'[c]
        BY <1>3, <1>4 DEF BoxNoticed
    <2>3. pveTask[c].does # "nothing"
        BY DEF CommandInv, TaskFits, TaskFails, TaskSucceeds
    <2>4. QED  BY <1>2, <1>4, <2>1, <2>2, <2>3 DEF CommandInv, TaskFits, Active
<1>9. ResultAtEnd'  BY <1>3 DEF CommandInv, ResultAtEnd
<1>10. ReportsHappened'  BY <1>3, <1>4 DEF CommandInv, ReportsHappened, BoxNoticed
<1>11. GraceGiven'  BY <1>2, <1>3 DEF CommandInv, GraceGiven
<1>12. QED  BY <1>5, <1>6, <1>7, <1>8, <1>9, <1>10, <1>11 DEF CommandInv

\* What is left to show of a step of one command that changes neither box nor task.
CommandFits(c, at, grace, result) ==
    /\ at \notin {"idle", "done"} => Active(c)
    /\ result # "none" => at = "done"
    /\ at \in {"checks", "starts", "ready"} => cmd[c].kind \in {"start", "restart"}
    /\ at \in {"checks", "starts", "ready"} /\ cmd[c].kind = "restart" => "stopped" \in seen[c]
    /\ at = "stops" => cmd[c].kind \in {"stop", "restart", "delete"}
    /\ at = "verifies" => cmd[c].kind \in {"restart", "delete"}
    /\ at = "escalates" => cmd[c].kind = "restart" /\ grace = "failed"
    /\ at \in {"destroys", "queues"} => cmd[c].kind = "delete"
    /\ at = "asks" => cmd[c].kind \in {"checkpoint", "rollback"}
    /\ at = "polls" => cmd[c].at = "polls"
    /\ cmd[c].grace = "failed" => grace = "failed"
    /\ result = "ok" =>
        CASE cmd[c].kind = "start"    -> "running" \in seen[c]
          [] cmd[c].kind = "stop"     -> "stopped" \in seen[c]
          [] cmd[c].kind = "restart"  -> "restarted" \in seen[c]
          [] cmd[c].kind = "delete"   -> "gone" \in seen[c]
          [] cmd[c].kind = "rollback" -> "restored" \in seen[c]
          [] OTHER                    -> TRUE

LEMMA MoveKeeps ==
    ASSUME CommandInv, NEW c \in BoxCalls, NEW at, NEW misses, NEW grace, NEW result,
           CommandMoves(c, at, misses, grace, result), CommandFits(c, at, grace, result),
           UNCHANGED <<power, pveTask, seen>>
    PROVE  CommandInv'
<1> USE DEF CommandMoves, CommandFits
<1>1. CommandShape'  BY DEF CommandInv, CommandShape
<1>2. BoxSeen'  BY DEF CommandInv, BoxSeen, Active
<1>3. StageFits'  BY DEF CommandInv, StageFits
<1>4. TaskFits'  BY DEF CommandInv, TaskFits
<1>5. ResultAtEnd'  BY DEF CommandInv, ResultAtEnd
<1>6. ReportsHappened'
    <2>1. ASSUME NEW d \in BoxCalls, d # c
          PROVE  cmd'[d] = cmd[d] /\ seen'[d] = seen[d]
        BY <2>1
    <2>2. QED  BY <2>1 DEF CommandInv, ReportsHappened
<1>7. GraceGiven'  BY DEF CommandInv, GraceGiven
<1>8. QED  BY <1>1, <1>2, <1>3, <1>4, <1>5, <1>6, <1>7 DEF CommandInv

\* A command begins with what the box is.
LEMMA BeginsKeeps ==
    ASSUME BoxCommandsAssumption, CommandInv, NEW c \in BoxCalls, Begins(c)
    PROVE  CommandInv'
<1> DEFINE at ==
        CASE cmd[c].kind = "start"   -> "checks"
          [] cmd[c].kind = "restart" -> IF power = "stopped" THEN "checks" ELSE "stops"
          [] cmd[c].kind = "stop"    -> "stops"
          [] cmd[c].kind = "delete"  -> IF cmd[c].force THEN "queues"
                                        ELSE IF power = "stopped" THEN "destroys" ELSE "stops"
          [] OTHER                   -> "asks"
<1>1. /\ cmd[c].at = "idle" /\ power # "gone" /\ UNCHANGED <<power, pveTask>>
      /\ Leads(c, at)
    BY DEF Begins
<1>2. /\ seen' \in [BoxCalls -> SUBSET {"running", "stopped", "restarted", "gone", "restored"}]
      /\ \A d \in BoxCalls : d # c => seen'[d] = seen[d]
      /\ seen'[c] = {power}
    BY DEF Begins, CommandInv, CommandShape
<1>3. cmd[c].kind \in {"start", "stop", "restart", "delete", "checkpoint", "rollback"}
    BY DEF CommandInv, CommandShape, Commands, BoxCommandsAssumption
<1>4. /\ at \in {"checks", "stops", "queues", "destroys", "asks"}
      /\ at = "checks" => cmd[c].kind \in {"start", "restart"}
      /\ at = "checks" /\ cmd[c].kind = "restart" => power = "stopped"
      /\ at = "stops" => cmd[c].kind \in {"stop", "restart", "delete"}
      /\ at \in {"destroys", "queues"} => cmd[c].kind = "delete"
      /\ at = "asks" => cmd[c].kind \in {"checkpoint", "rollback"}
    BY <1>3
<1> HIDE DEF at
<1>5. CommandMoves(c, at, cmd[c].misses, cmd[c].grace, cmd[c].result)
    BY <1>1, <1>4, LeadsMoves DEF CommandInv, CommandStages
<1>6. cmd[c].result = "none"
    BY <1>1 DEF CommandInv, ResultAtEnd
<1> USE DEF CommandMoves
<1>7. CommandShape'  BY <1>1, <1>2, <1>5 DEF CommandInv, CommandShape
<1>8. BoxSeen'  BY <1>1, <1>2, <1>5 DEF CommandInv, BoxSeen, Active
<1>9. StageFits'  BY <1>1, <1>2, <1>4, <1>5 DEF CommandInv, StageFits
<1>10. TaskFits'  BY <1>1, <1>2, <1>4, <1>5 DEF CommandInv, TaskFits
<1>11. ResultAtEnd'  BY <1>5, <1>6 DEF CommandInv, ResultAtEnd
<1>12. ReportsHappened'
    <2>1. ASSUME NEW d \in BoxCalls, d # c
          PROVE  cmd'[d] = cmd[d] /\ seen'[d] = seen[d]
        BY <1>2, <1>5, <2>1
    <2>2. cmd'[c].result = "none"
        BY <1>5, <1>6
    <2>3. QED  BY <2>1, <2>2 DEF CommandInv, ReportsHappened
<1>13. GraceGiven'  BY <1>1, <1>5 DEF CommandInv, GraceGiven
<1>14. QED  BY <1>7, <1>8, <1>9, <1>10, <1>11, <1>12, <1>13 DEF CommandInv

\* A command asks for the task of its stage.
LEMMA AsksKeeps ==
    ASSUME CommandInv, NEW c \in BoxCalls, Asks(c)
    PROVE  CommandInv'
<1>1. /\ Wish(c) # "nothing" /\ UNCHANGED <<power, seen>>
      /\ pveTask' = [pveTask EXCEPT ![c] = [does |-> Wish(c), status |-> "runs"]]
    BY DEF Asks
<1>2. /\ cmd[c].at \in {"starts", "stops", "escalates", "destroys", "queues", "asks"}
      /\ cmd[c].at = "starts" => Wish(c) = "start"
      /\ cmd[c].at = "stops" => Wish(c) \in {"stop", "shutdown"}
      /\ cmd[c].at = "stops" /\ Wish(c) = "stop" => cmd[c].force
      /\ cmd[c].at = "escalates" => Wish(c) = "stop"
      /\ cmd[c].at = "destroys" => Wish(c) = "destroy"
      /\ cmd[c].at = "queues" => Wish(c) = "force_destroy"
      /\ cmd[c].at = "asks" => Wish(c) = cmd[c].kind
    BY <1>1 DEF Wish
<1>3. Wish(c) \in TaskWishes
    BY <1>2 DEF CommandInv, StageFits, TaskWishes
<1>4. /\ pveTask' \in [BoxCalls -> PveTasks]
      /\ \A d \in BoxCalls : d # c => pveTask'[d] = pveTask[d]
      /\ pveTask'[c].does = Wish(c) /\ pveTask'[c].status = "runs"
    BY <1>1, <1>3 DEF CommandInv, CommandShape, PveTasks
<1>5. PICK at \in {"polls", "done"}, result \in {cmd[c].result, "queued"} :
          /\ CommandMoves(c, at, cmd[c].misses, cmd[c].grace, result)
          /\ at = "done" <=> cmd[c].at = "queues"
          /\ at = "polls" => result = cmd[c].result
          /\ at = "done" => result = "queued"
    <2>1. CASE cmd[c].at = "queues"
        BY <2>1, ReportMoves DEF CommandInv, Asks
    <2>2. CASE cmd[c].at # "queues"
        BY <2>2, LeadsMoves DEF CommandInv, Asks, CommandStages
    <2>3. QED  BY <2>1, <2>2
<1>6. cmd[c].result = "none"
    BY <1>2 DEF CommandInv, ResultAtEnd
<1> HIDE DEF Wish
<1> USE DEF CommandMoves
<1>7. CommandShape'  BY <1>1, <1>4, <1>5 DEF CommandInv, CommandShape
<1>8. BoxSeen'  BY <1>1, <1>2, <1>5 DEF CommandInv, BoxSeen, Active
<1>9. StageFits'  BY <1>1, <1>5 DEF CommandInv, StageFits
<1>10. TaskFits'
    <2>1. ASSUME NEW d \in BoxCalls, d # c
          PROVE  pveTask'[d] = pveTask[d] /\ cmd'[d] = cmd[d] /\ seen'[d] = seen[d]
        BY <1>1, <1>4, <1>5, <2>1
    <2>2. /\ pveTask'[c].does = Wish(c) /\ Wish(c) # "nothing" /\ pveTask'[c].status = "runs"
          /\ cmd'[c].kind = cmd[c].kind /\ seen'[c] = seen[c]
          /\ cmd'[c].at = "polls" => cmd[c].at # "queues"
        BY <1>1, <1>4, <1>5
    <2>3. cmd'[c].at = "polls" =>
            /\ Wish(c) = "start" => cmd[c].kind \in {"start", "restart"}
            /\ Wish(c) = "start" /\ cmd[c].kind = "restart" => "stopped" \in seen[c]
            /\ Wish(c) \in {"shutdown", "stop"} => cmd[c].kind \in {"stop", "restart", "delete"}
            /\ Wish(c) = "destroy" => cmd[c].kind = "delete"
            /\ Wish(c) \in {"checkpoint", "rollback"} => cmd[c].kind = Wish(c)
            /\ Wish(c) \notin {"nothing", "force_destroy"}
        BY <1>1, <1>2, <2>2 DEF CommandInv, StageFits
    <2>4. QED  BY <2>1, <2>2, <2>3 DEF CommandInv, TaskFits
<1>11. ResultAtEnd'  BY <1>5, <1>6 DEF CommandInv, ResultAtEnd
<1>12. ReportsHappened'
    <2>1. ASSUME NEW d \in BoxCalls, d # c
          PROVE  cmd'[d] = cmd[d] /\ seen'[d] = seen[d]
        BY <1>1, <1>5, <2>1
    <2>2. cmd'[c].result # "ok"
        BY <1>5, <1>6
    <2>3. QED  BY <2>1, <2>2 DEF CommandInv, ReportsHappened
<1>13. GraceGiven'
    <2>1. ASSUME NEW d \in BoxCalls, d # c
          PROVE  cmd'[d] = cmd[d] /\ pveTask'[d] = pveTask[d]
        BY <1>4, <1>5, <2>1
    <2>2. Wish(c) = "stop" /\ ~cmd[c].force => cmd[c].grace = "failed"
        BY <1>2 DEF CommandInv, StageFits
    <2>3. QED  BY <1>4, <1>5, <2>1, <2>2 DEF CommandInv, GraceGiven
<1>14. QED  BY <1>7, <1>8, <1>9, <1>10, <1>11, <1>12, <1>13 DEF CommandInv

\* A task that ended well leads on.
LEMMA PollEndsKeeps ==
    ASSUME BoxCommandsAssumption, CommandInv, NEW c \in BoxCalls, PollEnds(c)
    PROVE  CommandInv'
<1>1. /\ cmd[c].at = "polls" /\ pveTask[c].status = "ok"
      /\ UNCHANGED <<power, pveTask, seen>>
    BY DEF PollEnds
<1> DEFINE at == AfterTask(c)
           result == IF at = "done" THEN "ok" ELSE cmd[c].result
<1>2. /\ pveTask[c].does \in {"start", "shutdown", "stop", "destroy", "checkpoint", "rollback"}
      /\ cmd[c].kind \in {"start", "stop", "restart", "delete", "checkpoint", "rollback"}
      /\ cmd[c].result = "none" /\ cmd[c] \in Commands /\ cmd \in [BoxCalls -> Commands]
      /\ 0 \in 0 .. MaxMisses
    BY <1>1 DEF CommandInv, CommandShape, TaskFits, ResultAtEnd, Commands, PveTasks, TaskWishes,
       BoxCommandsAssumption
<1>3. /\ at \in {"verifies", "ready", "done"}
      /\ at = "verifies" => /\ pveTask[c].does \in {"shutdown", "stop"}
                            /\ cmd[c].kind \in {"restart", "delete"}
      /\ at = "ready" => pveTask[c].does = "start"
      /\ at = "done" => /\ pveTask[c].does # "start"
                        /\ pveTask[c].does \in {"shutdown", "stop"} =>
                               cmd[c].kind \notin {"restart", "delete"}
    BY DEF AfterTask
<1>4. cmd' = [cmd EXCEPT ![c].at = at, ![c].misses = 0, ![c].result = result]
    BY DEF PollEnds, CommandInv, CommandShape
<1>5. result \in {"none", "ok"} /\ (result = "ok" <=> at = "done")
    BY <1>2
<1> HIDE DEF at, result
<1>6. CommandMoves(c, at, 0, cmd[c].grace, result)
    BY <1>2, <1>3, <1>4, <1>5 DEF CommandMoves, Commands, CommandStages
<1>7. CommandFits(c, at, cmd[c].grace, result)
    <2>1. Active(c)
        BY <1>1 DEF Active
    <2>2. at = "ready" => cmd[c].kind \in {"start", "restart"}
        BY <1>1, <1>3 DEF CommandInv, TaskFits
    <2>3. at = "ready" /\ cmd[c].kind = "restart" => "stopped" \in seen[c]
        BY <1>1, <1>3 DEF CommandInv, TaskFits
    <2>4. at = "done" =>
            CASE cmd[c].kind = "start"    -> "running" \in seen[c]
              [] cmd[c].kind = "stop"     -> "stopped" \in seen[c]
              [] cmd[c].kind = "restart"  -> "restarted" \in seen[c]
              [] cmd[c].kind = "delete"   -> "gone" \in seen[c]
              [] cmd[c].kind = "rollback" -> "restored" \in seen[c]
              [] OTHER                    -> TRUE
        <3>1. /\ pveTask[c].does \in {"shutdown", "stop"} =>
                     "stopped" \in seen[c] /\ cmd[c].kind \in {"stop", "restart", "delete"}
              /\ pveTask[c].does = "destroy" => "gone" \in seen[c] /\ cmd[c].kind = "delete"
              /\ pveTask[c].does = "rollback" => "restored" \in seen[c] /\ cmd[c].kind = "rollback"
              /\ pveTask[c].does = "checkpoint" => cmd[c].kind = "checkpoint"
            BY <1>1 DEF CommandInv, TaskFits
        <3>2. QED  BY <1>2, <1>3, <3>1
    <2>5. QED  BY <1>3, <1>5, <2>1, <2>2, <2>3, <2>4 DEF CommandFits
<1>8. QED  BY <1>1, <1>6, <1>7, MoveKeeps

\* A task that failed ends the command, or shows that the graceful shutdown did.
LEMMA PollFailsKeeps ==
    ASSUME BoxCommandsAssumption, CommandInv, NEW c \in BoxCalls, PollFails(c)
    PROVE  CommandInv'
<1>1. cmd[c].at = "polls" /\ UNCHANGED <<power, pveTask, seen>> /\ Active(c)
    BY DEF PollFails, Active
<1>2. /\ cmd[c].result = "none" /\ cmd[c] \in Commands /\ cmd \in [BoxCalls -> Commands]
      /\ 0 \in 0 .. MaxMisses
    BY <1>1 DEF CommandInv, CommandShape, ResultAtEnd, BoxCommandsAssumption
<1>3. CASE pveTask[c].does = "shutdown" /\ cmd[c].kind = "restart"
    <2>1. PICK at \in {"verifies", "escalates"} :
              cmd' = [cmd EXCEPT ![c].at = at, ![c].misses = 0, ![c].grace = "failed"]
        BY <1>3 DEF PollFails
    <2>2. CommandMoves(c, at, 0, "failed", "none")
        BY <1>2, <2>1 DEF CommandMoves, Commands, CommandStages
    <2>3. CommandFits(c, at, "failed", "none")
        BY <1>1, <1>3 DEF CommandFits
    <2>4. QED  BY <1>1, <2>2, <2>3, MoveKeeps
<1>4. CASE ~(pveTask[c].does = "shutdown" /\ cmd[c].kind = "restart")
    <2>1. CommandMoves(c, "done", cmd[c].misses, cmd[c].grace, "failed")
        BY <1>4, ReportMoves DEF PollFails, CommandInv
    <2>2. CommandFits(c, "done", cmd[c].grace, "failed")
        BY <1>1 DEF CommandFits
    <2>3. QED  BY <1>1, <2>1, <2>2, MoveKeeps
<1>5. QED  BY <1>3, <1>4

\* The rest of a command's steps.
LEMMA CommandStepKeeps ==
    ASSUME BoxCommandsAssumption, CommandInv, NEW c \in BoxCalls, CommandStep(c)
    PROVE  CommandInv'
<1>0. /\ cmd[c] \in Commands /\ cmd \in [BoxCalls -> Commands]
      /\ CommandShape /\ MaxMisses \in Nat
    BY DEF CommandInv, CommandShape, BoxCommandsAssumption
<1>1. CASE Begins(c)  BY <1>1, BeginsKeeps
<1>2. CASE Asks(c)  BY <1>2, AsksKeeps
<1>3. CASE PollEnds(c)  BY <1>3, PollEndsKeeps
<1>4. CASE PollFails(c)  BY <1>4, PollFailsKeeps
<1>5. CASE ChecksState(c)
    <2>1. PICK at \in {"ready", "starts"} : Leads(c, at)
        BY <1>5 DEF ChecksState
    <2>2. CommandMoves(c, at, cmd[c].misses, cmd[c].grace, cmd[c].result)
        BY <1>0, <2>1, LeadsMoves DEF CommandStages
    <2>3. cmd[c].at = "checks" /\ UNCHANGED <<power, pveTask, seen>>
        BY <1>5 DEF ChecksState
    <2>4. CommandFits(c, at, cmd[c].grace, cmd[c].result)
        BY <2>3 DEF CommandFits, CommandInv, StageFits, ResultAtEnd, Active
    <2>5. QED  BY <2>2, <2>3, <2>4, MoveKeeps
<1>6. CASE AskFails(c) \/ PollGivesUp(c) \/ NotReady(c)
    <2>1. CommandMoves(c, "done", cmd[c].misses, cmd[c].grace, "failed")
        BY <1>0, <1>6, ReportMoves DEF AskFails, PollGivesUp, NotReady
    <2>2. UNCHANGED <<power, pveTask, seen>>
        BY <1>6 DEF AskFails, PollGivesUp, NotReady
    <2>3. CommandFits(c, "done", cmd[c].grace, "failed")
        BY DEF CommandFits
    <2>4. QED  BY <2>1, <2>2, <2>3, MoveKeeps
<1>7. CASE PollMissed(c) \/ PollRuns(c)
    <2>1. PICK misses \in 0 .. MaxMisses : cmd' = [cmd EXCEPT ![c].misses = misses]
        BY <1>0, <1>7 DEF PollMissed, PollRuns, Commands
    <2>2. cmd[c].at = "polls" /\ UNCHANGED <<power, pveTask, seen>>
        BY <1>7 DEF PollMissed, PollRuns
    <2>3. CommandMoves(c, "polls", misses, cmd[c].grace, cmd[c].result)
        BY <1>0, <2>1, <2>2 DEF CommandMoves, Commands
    <2>4. CommandFits(c, "polls", cmd[c].grace, cmd[c].result)
        BY <2>2 DEF CommandFits, CommandInv, ResultAtEnd, Active
    <2>5. QED  BY <2>2, <2>3, <2>4, MoveKeeps
<1>8. CASE Verifies(c)
    <2>1. cmd[c].at = "verifies" /\ UNCHANGED <<power, pveTask, seen>> /\ Active(c)
        BY <1>8 DEF Verifies, Active
    <2>2. CASE power # "stopped"
        <3>1. CommandMoves(c, "done", cmd[c].misses, cmd[c].grace, "failed")
            BY <1>0, <1>8, <2>2, ReportMoves DEF Verifies
        <3>2. CommandFits(c, "done", cmd[c].grace, "failed")
            BY DEF CommandFits
        <3>3. QED  BY <2>1, <3>1, <3>2, MoveKeeps
    <2>3. CASE power = "stopped"
        <3>1. PICK at \in {"checks", "destroys"} :
                  Leads(c, at) /\ (at = "checks" <=> cmd[c].kind = "restart")
            BY <1>8, <2>3 DEF Verifies
        <3>2. CommandMoves(c, at, cmd[c].misses, cmd[c].grace, cmd[c].result)
            BY <1>0, <3>1, LeadsMoves DEF CommandStages
        <3>3. "stopped" \in seen[c] /\ cmd[c].kind \in {"restart", "delete"}
            BY <2>1, <2>3 DEF CommandInv, BoxSeen, StageFits
        <3>4. CommandFits(c, at, cmd[c].grace, cmd[c].result)
            BY <2>1, <3>1, <3>3 DEF CommandFits, CommandInv, ResultAtEnd
        <3>5. QED  BY <2>1, <3>2, <3>4, MoveKeeps
    <2>4. QED  BY <2>2, <2>3
<1>9. CASE Ready(c)
    <2>1. CommandMoves(c, "done", cmd[c].misses, cmd[c].grace, "ok")
        BY <1>0, <1>9, ReportMoves DEF Ready
    <2>2. /\ cmd[c].at = "ready" /\ power = "running" /\ Active(c)
          /\ UNCHANGED <<power, pveTask, seen>>
        BY <1>9 DEF Ready, Active
    <2>3. /\ cmd[c].kind \in {"start", "restart"} /\ "running" \in seen[c]
          /\ cmd[c].kind = "restart" => "restarted" \in seen[c]
        BY <2>2 DEF CommandInv, BoxSeen, StageFits
    <2>4. CommandFits(c, "done", cmd[c].grace, "ok")
        BY <2>2, <2>3 DEF CommandFits
    <2>5. QED  BY <2>1, <2>2, <2>4, MoveKeeps
<1>10. QED
    BY <1>1, <1>2, <1>3, <1>4, <1>5, <1>6, <1>7, <1>8, <1>9 DEF CommandStep

LEMMA CommandNextKeeps ==
    ASSUME BoxCommandsAssumption, CommandInv, [CommandNext]_commandVars
    PROVE  CommandInv'
<1>1. CASE GuestPowersOff  BY <1>1, PowersOffKeeps
<1>2. ASSUME NEW c \in BoxCalls, TaskFails(c) \/ TaskSucceeds(c)
      PROVE  CommandInv'
    BY <1>2, TaskEndKeeps
<1>3. ASSUME NEW c \in BoxCalls, CommandStep(c)
      PROVE  CommandInv'
    BY <1>3, CommandStepKeeps
<1>4. CASE UNCHANGED commandVars
    BY <1>4 DEF commandVars, CommandInv, CommandShape, BoxSeen, Active, StageFits, TaskFits,
       ResultAtEnd, ReportsHappened, GraceGiven
<1>5. QED  BY <1>1, <1>2, <1>3, <1>4 DEF CommandNext

LEMMA CommandInitHolds ==
    ASSUME BoxCommandsAssumption, CommandInit
    PROVE  CommandInv
<1> USE DEF CommandInit
<1>1. CommandShape
    BY DEF CommandShape, Commands, CommandStages, PveTasks, NoTask, BoxCommandsAssumption
<1>2. \A c \in BoxCalls : cmd[c].at = "idle" /\ cmd[c].result = "none" /\ pveTask[c] = NoTask
    OBVIOUS
<1>3. BoxSeen /\ StageFits /\ TaskFits /\ ResultAtEnd /\ ReportsHappened /\ GraceGiven
    BY <1>2 DEF BoxSeen, Active, StageFits, TaskFits, ResultAtEnd, ReportsHappened, GraceGiven,
       NoTask
<1>4. QED  BY <1>1, <1>3 DEF CommandInv

\* The invariant of the commands on a box.
THEOREM CommandInvariant == ASSUME BoxCommandsAssumption PROVE CommandSpec => []CommandInv
<1>1. CommandInit => CommandInv
    BY CommandInitHolds
<1>2. CommandInv /\ [CommandNext]_commandVars => CommandInv'
    BY CommandNextKeeps
<1>3. QED  BY <1>1, <1>2, PTL DEF CommandSpec

LEMMA CommandTold == CommandInv => ReportsHappened /\ GraceGiven /\ CommandTypeOK
<1> SUFFICES ASSUME CommandInv
             PROVE  ReportsHappened /\ GraceGiven /\ CommandTypeOK
    OBVIOUS
<1>1. ASSUME NEW c \in BoxCalls
      PROVE  /\ cmd[c].at \in CommandStages /\ cmd[c].misses \in 0 .. MaxMisses
             /\ pveTask[c].status \in {"none", "runs", "ok", "failed"}
             /\ seen[c] \subseteq {"running", "stopped", "restarted", "gone", "restored"}
    BY DEF CommandInv, CommandShape, Commands, PveTasks
<1>2. QED  BY <1>1 DEF CommandInv, CommandShape, CommandTypeOK, CommandStages

-----------------------------------------------------------------------------
(***************************************************************************)
(* The inventory                                                           *)
(***************************************************************************)

DaemonStages ==
    {"off", "looks", "spawns", "starts", "checks", "reads", "scans", "merges", "probes",
     "publishes", "fails"}
RowKinds == {"none", "running", "stopped", "deleting", "disconnected"}
DaemonStates ==
    [at : DaemonStages, exe : Nat, rows : [Boxes -> RowKinds], left : SUBSET Boxes,
     over : SUBSET Boxes]
Deletions == [task : {"none", "runs", "ended"}, tries : Nat, told : BOOLEAN]

InventoryShape ==
    /\ vessel \in [Boxes -> {"running", "stopped", "gone"}]
    /\ deletion \in [Boxes -> Deletions]
    /\ mark \in [Boxes -> Nat]
    /\ snapshot \in [written : BOOLEAN, rows : [Boxes -> RowKinds], failed : BOOLEAN]
    /\ daemon \in [Daemons -> DaemonStates]
    /\ exe \in Nat

\* A mark names a deletion that was asked for.
MarkNamesDeletion ==
    \A b \in Boxes :
        /\ mark[b] <= deletion[b].tries
        /\ deletion[b].task # "none" => deletion[b].tries >= 1

\* A mark that was found to be over is not that of a first deletion that runs.
OverJudged ==
    \A d \in Daemons : \A b \in daemon[d].over :
        /\ deletion[b].tries >= 1
        /\ deletion[b].tries >= 2 \/ deletion[b].task = "ended"

\* The lock has one holder.
HoldsLock(d) == daemon[d].at \notin {"off", "spawns", "starts"}
LockExclusive == \A d, e \in Daemons : HoldsLock(d) /\ HoldsLock(e) => d = e

\* What the present refresh says to run has run since it began: what it has listed,
\* and from its first write on what every command sees.
RowsRan ==
    \A d \in Daemons :
        /\ daemon[d].at \in {"reads", "scans", "merges"} =>
               \A b \in Boxes : /\ daemon[d].rows[b] = "running" => b \in ran
                                /\ daemon[d].rows[b] # "disconnected"
        /\ daemon[d].at \in {"probes", "publishes"} =>
               \A b \in Boxes : snapshot.rows[b] \in {"running", "disconnected"} => b \in ran

InventoryInv ==
    /\ InventoryShape /\ MarkNamesDeletion /\ OverJudged /\ LockExclusive /\ RowsRan
    /\ DeletionShown

\* One daemon takes a step.
DaemonBecomes(d, at, rows, left, over) ==
    /\ daemon' \in [Daemons -> DaemonStates]
    /\ \A e \in Daemons : e # d => daemon'[e] = daemon[e]
    /\ daemon'[d].at = at
    /\ daemon'[d].rows = rows
    /\ daemon'[d].left = left
    /\ daemon'[d].over = over

LEMMA MovesDaemon ==
    ASSUME InventoryShape, NEW d \in Daemons, NEW at \in DaemonStages, Moves(d, at)
    PROVE  DaemonBecomes(d, at, daemon[d].rows, daemon[d].left, daemon[d].over)
BY DEF InventoryShape, Moves, DaemonBecomes, DaemonStates

LEMMA GoesOff ==
    ASSUME InventoryShape, NEW d \in Daemons, daemon' = [daemon EXCEPT ![d] = OffDaemon]
    PROVE  DaemonBecomes(d, "off", NoRows, {}, {})
<1>1. OffDaemon \in DaemonStates
    BY DEF OffDaemon, DaemonStates, NoRows, DaemonStages, RowKinds
<1>2. /\ OffDaemon.at = "off" /\ OffDaemon.rows = NoRows /\ OffDaemon.left = {}
      /\ OffDaemon.over = {}
    BY DEF OffDaemon
<1>3. QED  BY <1>1, <1>2 DEF InventoryShape, DaemonBecomes

\* A step of a daemon that writes nothing: the lock passes from nobody or stays, and
\* what it knows comes from what it knew.
LEMMA DaemonMoveKeeps ==
    ASSUME InventoryInv, NEW d \in Daemons, NEW at, NEW rows, NEW left, NEW over,
           DaemonBecomes(d, at, rows, left, over),
           UNCHANGED <<vessel, deletion, mark, snapshot, ran>>, exe' \in Nat,
           at \notin {"off", "spawns", "starts"} =>
               HoldsLock(d) \/ \A e \in Daemons : ~HoldsLock(e),
           at \in {"reads", "scans", "merges"} =>
               \A b \in Boxes : /\ rows[b] = "running" => b \in ran
                                /\ rows[b] # "disconnected",
           at \in {"probes", "publishes"} => daemon[d].at \in {"probes", "publishes"},
           \A b \in over : /\ deletion[b].tries >= 1
                           /\ deletion[b].tries >= 2 \/ deletion[b].task = "ended"
    PROVE  InventoryInv'
<1> USE DEF DaemonBecomes
<1>1. InventoryShape'  BY DEF InventoryInv, InventoryShape
<1>2. MarkNamesDeletion'  BY DEF InventoryInv, MarkNamesDeletion
<1>3. OverJudged'  BY DEF InventoryInv, OverJudged
<1>4. LockExclusive'  BY DEF InventoryInv, LockExclusive, HoldsLock
<1>5. RowsRan'  BY DEF InventoryInv, RowsRan
<1>6. DeletionShown'  BY DEF InventoryInv, DeletionShown
<1>7. QED  BY <1>1, <1>2, <1>3, <1>4, <1>5, <1>6 DEF InventoryInv

\* Boxes and deletions change while the daemons go on.
LEMMA WorldKeeps ==
    ASSUME InventoryInv, NEW b \in Boxes,
           PowerTurns(b) \/ QueuesDelete(b) \/ MarksDeleting(b) \/ DeletionEnds(b)
    PROVE  InventoryInv'
<1>1. UNCHANGED <<snapshot, daemon, exe>>
    BY DEF PowerTurns, QueuesDelete, MarksDeleting, DeletionEnds
<1>2. InventoryShape
    BY DEF InventoryInv
<1>3. ran \subseteq ran'
    BY DEF PowerTurns, QueuesDelete, MarksDeleting, DeletionEnds
<1>4. LockExclusive'  BY <1>1 DEF InventoryInv, LockExclusive, HoldsLock
<1>5. RowsRan'  BY <1>1, <1>3 DEF InventoryInv, RowsRan
<1>6. vessel' \in [Boxes -> {"running", "stopped", "gone"}]
    BY <1>2 DEF InventoryShape, PowerTurns, QueuesDelete, MarksDeleting, DeletionEnds
<1>7. deletion' \in [Boxes -> Deletions] /\ mark' \in [Boxes -> Nat]
    <2>1. CASE PowerTurns(b)  BY <1>2, <2>1 DEF InventoryShape, PowerTurns
    <2>2. CASE QueuesDelete(b)
        BY <1>2, <2>2 DEF InventoryShape, Deletions, QueuesDelete
    <2>3. CASE MarksDeleting(b)
        BY <1>2, <2>3 DEF InventoryShape, Deletions, MarksDeleting
    <2>4. CASE DeletionEnds(b)
        BY <1>2, <2>4 DEF InventoryShape, Deletions, DeletionEnds
    <2>5. QED  BY <2>1, <2>2, <2>3, <2>4
<1>8. InventoryShape'  BY <1>1, <1>2, <1>6, <1>7 DEF InventoryShape
<1>9. \A x \in Boxes :
          /\ x # b => deletion'[x] = deletion[x] /\ mark'[x] = mark[x]
          /\ deletion[x] \in Deletions /\ deletion'[x] \in Deletions
          /\ mark[x] \in Nat /\ mark'[x] \in Nat
    BY <1>2, <1>7 DEF InventoryShape, PowerTurns, QueuesDelete, MarksDeleting, DeletionEnds
<1>10. \/ deletion'[b] = deletion[b] /\ mark'[b] = mark[b]
       \/ /\ deletion'[b].task = "runs" /\ deletion'[b].tries = deletion[b].tries + 1
          /\ ~deletion'[b].told /\ mark'[b] = mark[b]
       \/ /\ deletion'[b].task = deletion[b].task /\ deletion'[b].tries = deletion[b].tries
          /\ mark'[b] = deletion[b].tries
       \/ /\ deletion'[b].task = "ended" /\ deletion'[b].tries = deletion[b].tries
          /\ deletion[b].task = "runs" /\ mark'[b] = mark[b]
    <2>1. CASE PowerTurns(b)  BY <2>1 DEF PowerTurns
    <2>2. CASE QueuesDelete(b)
        BY <1>2, <2>2 DEF QueuesDelete, InventoryShape, Deletions
    <2>3. CASE MarksDeleting(b)
        BY <1>2, <2>3 DEF MarksDeleting, InventoryShape, Deletions
    <2>4. CASE DeletionEnds(b)
        BY <1>2, <2>4 DEF DeletionEnds, InventoryShape, Deletions
    <2>5. QED  BY <2>1, <2>2, <2>3, <2>4
<1>11. \A x \in Boxes : deletion[x].tries \in Nat /\ deletion'[x].tries \in Nat
    BY <1>9 DEF Deletions
<1>12. MarkNamesDeletion'  BY <1>9, <1>10, <1>11 DEF InventoryInv, MarkNamesDeletion
<1>13. OverJudged'
    <2>1. \A d \in Daemons : daemon[d].over \subseteq Boxes
        BY <1>2 DEF InventoryShape, DaemonStates
    <2>2. QED  BY <1>1, <1>9, <1>10, <1>11, <2>1 DEF InventoryInv, OverJudged
<1>14. DeletionShown'
    <2>1. deletion'[b].task = "runs" /\ deletion'[b].told /\ deletion'[b].tries = 1 => mark'[b] = 1
        <3>1. deletion'[b] = deletion[b] \/ deletion'[b] # deletion[b]
            OBVIOUS
        <3>2. CASE MarksDeleting(b)
            BY <1>2, <3>2 DEF MarksDeleting, InventoryShape, Deletions
        <3>3. CASE QueuesDelete(b)
            BY <1>2, <3>3 DEF QueuesDelete, InventoryShape, Deletions
        <3>4. CASE DeletionEnds(b)
            BY <1>2, <3>4 DEF DeletionEnds, InventoryShape, Deletions
        <3>5. CASE PowerTurns(b)
            BY <3>5 DEF PowerTurns, InventoryInv, DeletionShown
        <3>6. QED  BY <3>2, <3>3, <3>4, <3>5
    <2>2. QED  BY <1>9, <2>1 DEF InventoryInv, DeletionShown
<1>15. QED  BY <1>4, <1>5, <1>8, <1>12, <1>13, <1>14 DEF InventoryInv

\* A box is dealt with, and its row may change.
LEMMA ScannedDaemon ==
    ASSUME InventoryShape, NEW d \in Daemons, NEW b \in Boxes, NEW row \in RowKinds,
           daemon[d].at = "scans", Scanned(d, b, row)
    PROVE  \E at \in {"scans", "merges"}, left \in SUBSET Boxes :
               DaemonBecomes(d, at, [daemon[d].rows EXCEPT ![b] = row], left, {})
<1> DEFINE next == daemon[d].left \ {b}
           at == IF next = {} THEN "merges" ELSE "scans"
<1>1. daemon[d] \in DaemonStates /\ next \in SUBSET Boxes /\ at \in {"scans", "merges"}
    BY DEF InventoryShape, DaemonStates
<1>2. daemon' = [daemon EXCEPT ![d].at = at, ![d].left = next, ![d].over = {}, ![d].rows[b] = row]
    BY DEF Scanned
<1> HIDE DEF next, at
<1>3. DaemonBecomes(d, at, [daemon[d].rows EXCEPT ![b] = row], next, {})
    BY <1>1, <1>2 DEF InventoryShape, DaemonBecomes, DaemonStates, DaemonStages
<1>4. QED  BY <1>1, <1>3

\* The rows of a box that was dealt with are as true as those before.
LEMMA ScanKeeps ==
    ASSUME InventoryInv, NEW d \in Daemons, NEW b \in Boxes,
           PassesBox(d, b) \/ ReadsMarkRunning(d, b)
    PROVE  InventoryInv'
<1>1. /\ daemon[d].at = "scans" /\ UNCHANGED <<vessel, deletion, mark, snapshot, exe, ran>>
      /\ daemon[d] \in DaemonStates /\ exe \in Nat
    BY DEF PassesBox, ReadsMarkRunning, InventoryInv, InventoryShape
<1>2. PICK row \in RowKinds :
          Scanned(d, b, row) /\ (row = "deleting" \/ row = daemon[d].rows[b])
    <2>1. daemon[d].rows[b] \in RowKinds
        BY <1>1 DEF DaemonStates
    <2>2. CASE PassesBox(d, b)
        BY <2>1, <2>2 DEF PassesBox
    <2>3. CASE ReadsMarkRunning(d, b)
        <3>1. CASE daemon[d].rows[b] = "none"
            BY <2>1, <2>3, <3>1 DEF ReadsMarkRunning
        <3>2. CASE daemon[d].rows[b] # "none"
            <4>1. Scanned(d, b, "deleting")
                BY <2>3, <3>2 DEF ReadsMarkRunning
            <4>2. QED  BY <4>1 DEF RowKinds
        <3>3. QED  BY <3>1, <3>2
    <2>4. QED  BY <2>2, <2>3
<1>3. PICK at \in {"scans", "merges"}, left \in SUBSET Boxes :
          DaemonBecomes(d, at, [daemon[d].rows EXCEPT ![b] = row], left, {})
    BY <1>1, <1>2, ScannedDaemon DEF InventoryInv
<1> DEFINE rows == [daemon[d].rows EXCEPT ![b] = row]
<1>4. \A x \in Boxes : (rows[x] = "running" => x \in ran) /\ rows[x] # "disconnected"
    BY <1>1, <1>2 DEF InventoryInv, RowsRan, DaemonStates
<1> HIDE DEF rows
<1>5. HoldsLock(d)
    BY <1>1 DEF HoldsLock
<1>6. DaemonBecomes(d, at, rows, left, {})
    BY <1>3 DEF rows
<1>7. QED  BY <1>1, <1>4, <1>5, <1>6, DaemonMoveKeeps

\* What a box's configuration and tasks say is added to its row.
LEMMA ReadKeeps ==
    ASSUME InventoryInv, NEW d \in Daemons, NEW b \in Boxes,
           ReadsBox(d, b) \/ TasksUnread(d, b)
    PROVE  InventoryInv'
<1>1. /\ daemon[d].at = "reads" /\ UNCHANGED <<vessel, deletion, mark, snapshot, exe, ran>>
      /\ daemon[d] \in DaemonStates /\ daemon \in [Daemons -> DaemonStates] /\ exe \in Nat
    BY DEF ReadsBox, TasksUnread, InventoryInv, InventoryShape
<1>2. HoldsLock(d)
    BY <1>1 DEF HoldsLock
<1>3. \A x \in daemon[d].over : /\ deletion[x].tries >= 1
                                /\ deletion[x].tries >= 2 \/ deletion[x].task = "ended"
    BY DEF InventoryInv, OverJudged
<1>4. \A x \in Boxes : /\ daemon[d].rows[x] = "running" => x \in ran
                       /\ daemon[d].rows[x] # "disconnected"
    BY <1>1 DEF InventoryInv, RowsRan
<1>5. CASE Moves(d, "fails")
    <2>1. DaemonBecomes(d, "fails", daemon[d].rows, daemon[d].left, daemon[d].over)
        BY <1>5, MovesDaemon DEF InventoryInv, DaemonStages
    <2>2. QED  BY <1>1, <1>2, <1>3, <2>1, DaemonMoveKeeps
<1>6. CASE ~Moves(d, "fails")
    <2> DEFINE next == daemon[d].left \ {b}
               at == IF next = {} THEN "scans" ELSE "reads"
               left == IF next = {} THEN Boxes ELSE next
    <2>1. at \in {"scans", "reads"} /\ left \in SUBSET Boxes
        BY <1>1 DEF DaemonStates
    <2>2. PICK rows :
              /\ \A x \in Boxes : rows[x] \in {"deleting", daemon[d].rows[x]}
              /\ DaemonBecomes(d, at, rows, left, daemon[d].over)
        <3>1. daemon[d].rows \in [Boxes -> RowKinds]
            BY <1>1 DEF DaemonStates
        <3>2. CASE TasksUnread(d, b)
            <4>1. daemon' = [daemon EXCEPT ![d].at = at, ![d].left = left]
                BY <3>2 DEF TasksUnread
            <4> HIDE DEF next, at, left
            <4>2. DaemonBecomes(d, at, daemon[d].rows, left, daemon[d].over)
                BY <1>1, <2>1, <4>1 DEF DaemonBecomes, DaemonStates, DaemonStages
            <4>3. QED  BY <3>1, <4>2
        <3>3. CASE ReadsBox(d, b)
            <4> DEFINE row == IF daemon[d].rows[b] # "none" /\ deletion[b].task = "runs"
                              THEN "deleting" ELSE daemon[d].rows[b]
                       rows == [daemon[d].rows EXCEPT ![b] = row]
            <4>1. daemon' = [daemon EXCEPT ![d].at = at, ![d].left = left, ![d].rows[b] = row]
                BY <1>1, <1>6, <3>3 DEF ReadsBox, DaemonStates
            <4>2. row \in RowKinds /\ row \in {"deleting", daemon[d].rows[b]}
                BY <3>1 DEF RowKinds
            <4> HIDE DEF row, next, at, left
            <4>3. DaemonBecomes(d, at, rows, left, daemon[d].over)
                BY <1>1, <2>1, <4>1, <4>2 DEF DaemonBecomes, DaemonStates, DaemonStages
            <4>4. \A x \in Boxes : rows[x] \in {"deleting", daemon[d].rows[x]}
                BY <3>1, <4>2
            <4> HIDE DEF rows
            <4>5. QED  BY <4>3, <4>4
        <3>4. QED  BY <3>2, <3>3
    <2> HIDE DEF next, at, left
    <2>3. \A x \in Boxes : (rows[x] = "running" => x \in ran) /\ rows[x] # "disconnected"
        BY <1>4, <2>2
    <2>4. QED  BY <1>1, <1>2, <1>3, <2>1, <2>2, <2>3, DaemonMoveKeeps
<1>7. QED  BY <1>5, <1>6

\* A mark's deletion is over; the mark may be another by the time it is removed.
LEMMA MarkKeeps ==
    ASSUME InventoryInv, NEW d \in Daemons, NEW b \in Boxes,
           ReadsMarkEnded(d, b) \/ RemovesMark(d, b)
    PROVE  InventoryInv'
<1>1. /\ daemon[d].at = "scans" /\ HoldsLock(d)
      /\ UNCHANGED <<vessel, deletion, snapshot, exe, ran>>
      /\ daemon[d] \in DaemonStates /\ daemon \in [Daemons -> DaemonStates] /\ exe \in Nat
    BY DEF ReadsMarkEnded, RemovesMark, InventoryInv, InventoryShape, HoldsLock
<1>2. \A x \in Boxes : /\ daemon[d].rows[x] = "running" => x \in ran
                       /\ daemon[d].rows[x] # "disconnected"
    BY <1>1 DEF InventoryInv, RowsRan
<1>3. CASE ReadsMarkEnded(d, b)
    <2>1. DaemonBecomes(d, "scans", daemon[d].rows, daemon[d].left, {b})
        BY <1>1, <1>3 DEF ReadsMarkEnded, DaemonBecomes, DaemonStates
    <2>2. deletion[b].tries \in Nat /\ mark[b] \in Nat
        BY DEF InventoryInv, InventoryShape, Deletions
    <2>3. /\ deletion[b].tries >= 1
          /\ deletion[b].tries >= 2 \/ deletion[b].task = "ended"
        BY <1>3, <2>2 DEF ReadsMarkEnded, MarkEnded, InventoryInv, MarkNamesDeletion
    <2>4. UNCHANGED mark
        BY <1>3 DEF ReadsMarkEnded
    <2>5. QED  BY <1>1, <1>2, <2>1, <2>3, <2>4, DaemonMoveKeeps
<1>4. CASE RemovesMark(d, b)
    <2>1. daemon[d].rows[b] \in RowKinds /\ daemon[d].over = {b}
        BY <1>1, <1>4 DEF RemovesMark, DaemonStates
    <2>2. PICK at \in {"scans", "merges"}, left \in SUBSET Boxes :
              DaemonBecomes(d, at, [daemon[d].rows EXCEPT ![b] = daemon[d].rows[b]], left, {})
        BY <1>1, <1>4, <2>1, ScannedDaemon DEF RemovesMark, InventoryInv
    <2>3. [daemon[d].rows EXCEPT ![b] = daemon[d].rows[b]] = daemon[d].rows
        BY <1>1 DEF DaemonStates
    <2>4. DaemonBecomes(d, at, daemon[d].rows, left, {})
        BY <2>2, <2>3
    <2>5. /\ mark' \in [Boxes -> Nat] /\ mark'[b] = 0
          /\ \A x \in Boxes : x # b => mark'[x] = mark[x]
        BY <1>4 DEF RemovesMark, InventoryInv, InventoryShape
    <2>6. deletion[b].tries \in Nat
        BY DEF InventoryInv, InventoryShape, Deletions
    <2>7. deletion[b].tries >= 2 \/ deletion[b].task = "ended"
        BY <2>1 DEF InventoryInv, OverJudged
    <2> USE DEF DaemonBecomes
    <2>8. InventoryShape'  BY <1>1, <2>4, <2>5 DEF InventoryInv, InventoryShape
    <2>9. MarkNamesDeletion'
        BY <1>1, <2>5, <2>6 DEF InventoryInv, MarkNamesDeletion
    <2>10. OverJudged'  BY <1>1, <2>4 DEF InventoryInv, OverJudged
    <2>11. LockExclusive'  BY <1>1, <2>4 DEF InventoryInv, LockExclusive, HoldsLock
    <2>12. RowsRan'  BY <1>1, <1>2, <2>4 DEF InventoryInv, RowsRan
    <2>13. DeletionShown'
        BY <1>1, <2>5, <2>6, <2>7 DEF InventoryInv, DeletionShown
    <2>14. QED  BY <2>8, <2>9, <2>10, <2>11, <2>12, <2>13 DEF InventoryInv
<1>5. QED  BY <1>3, <1>4

\* A refresh begins with the containers as they are.
LEMMA ListsKeeps ==
    ASSUME InventoryInv, NEW d \in Daemons, Lists(d)
    PROVE  InventoryInv'
<1> DEFINE rows == [b \in Boxes |-> IF vessel[b] = "gone" THEN "none" ELSE vessel[b]]
<1>1. /\ daemon[d].at = "checks" /\ HoldsLock(d)
      /\ UNCHANGED <<vessel, deletion, mark, snapshot, exe>>
      /\ ran' = {b \in Boxes : vessel[b] = "running"}
      /\ daemon \in [Daemons -> DaemonStates] /\ daemon[d] \in DaemonStates
    BY DEF Lists, InventoryInv, InventoryShape, HoldsLock
<1>2. /\ rows \in [Boxes -> RowKinds]
      /\ \A b \in Boxes : (rows[b] = "running" => b \in ran') /\ rows[b] # "disconnected"
    BY <1>1 DEF InventoryInv, InventoryShape, RowKinds
<1>3. daemon' = [daemon EXCEPT ![d].at = "reads", ![d].left = Boxes, ![d].rows = rows]
    BY DEF Lists
<1> HIDE DEF rows
<1>4. DaemonBecomes(d, "reads", rows, Boxes, daemon[d].over)
    BY <1>1, <1>2, <1>3 DEF DaemonBecomes, DaemonStates, DaemonStages
<1>5. \A e \in Daemons : e # d => ~HoldsLock(e)
    BY <1>1 DEF InventoryInv, LockExclusive
<1> USE DEF DaemonBecomes
<1>6. InventoryShape'  BY <1>1, <1>4 DEF InventoryInv, InventoryShape
<1>7. MarkNamesDeletion'  BY <1>1 DEF InventoryInv, MarkNamesDeletion
<1>8. OverJudged'  BY <1>1, <1>4 DEF InventoryInv, OverJudged
<1>9. LockExclusive'  BY <1>1, <1>4 DEF InventoryInv, LockExclusive, HoldsLock
<1>10. RowsRan'  BY <1>2, <1>4, <1>5 DEF RowsRan, HoldsLock
<1>11. DeletionShown'  BY <1>1 DEF InventoryInv, DeletionShown
<1>12. QED  BY <1>6, <1>7, <1>8, <1>9, <1>10, <1>11 DEF InventoryInv

\* A daemon writes the file.
LEMMA WriteKeeps ==
    ASSUME InventoryInv, NEW d \in Daemons, Merges(d) \/ Publishes(d) \/ Fails(d)
    PROVE  InventoryInv'
<1>1. /\ HoldsLock(d) /\ UNCHANGED <<vessel, deletion, mark, exe, ran>>
      /\ daemon \in [Daemons -> DaemonStates] /\ daemon[d] \in DaemonStates
      /\ daemon[d].rows \in [Boxes -> RowKinds]
    BY DEF Merges, Publishes, Fails, InventoryInv, InventoryShape, HoldsLock, DaemonStates
<1>2. PICK at \in {"probes", "checks"}, left \in SUBSET Boxes :
          /\ DaemonBecomes(d, at, daemon[d].rows, left, daemon[d].over)
          /\ at = "probes" <=> Merges(d)
    <2>1. CASE Merges(d)
        <3>1. DaemonBecomes(d, "probes", daemon[d].rows, Boxes, daemon[d].over)
            BY <1>1, <2>1 DEF Merges, DaemonBecomes, DaemonStates, DaemonStages
        <3>2. QED  BY <2>1, <3>1
    <2>2. CASE Publishes(d) \/ Fails(d)
        <3>1. DaemonBecomes(d, "checks", daemon[d].rows, daemon[d].left, daemon[d].over)
            BY <2>2, MovesDaemon DEF Publishes, Fails, InventoryInv, DaemonStages
        <3>2. ~Merges(d) /\ daemon[d].left \in SUBSET Boxes
            BY <1>1, <2>2 DEF Publishes, Fails, Merges, DaemonStates
        <3>3. QED  BY <3>1, <3>2
    <2>3. QED  BY <2>1, <2>2
<1>3. snapshot' \in [written : BOOLEAN, rows : [Boxes -> RowKinds], failed : BOOLEAN]
    <2>1. [b \in Boxes |-> Keeps(daemon[d].rows[b], snapshot.rows[b])] \in [Boxes -> RowKinds]
        BY <1>1 DEF Keeps, InventoryInv, InventoryShape
    <2>2. CASE Merges(d)  BY <2>1, <2>2 DEF Merges
    <2>3. CASE Publishes(d)  BY <1>1, <2>3 DEF Publishes
    <2>4. CASE Fails(d)  BY <2>4 DEF Fails, InventoryInv, InventoryShape
    <2>5. QED  BY <2>2, <2>3, <2>4
<1>4. at = "probes" =>
          \A b \in Boxes : snapshot'.rows[b] \in {"running", "disconnected"} => b \in ran
    <2> SUFFICES ASSUME Merges(d), NEW b \in Boxes,
                        snapshot'.rows[b] \in {"running", "disconnected"}
                 PROVE  b \in ran
        BY <1>2
    <2>1. snapshot'.rows[b] = Keeps(daemon[d].rows[b], snapshot.rows[b])
        BY DEF Merges
    <2>2. (daemon[d].rows[b] = "running" => b \in ran) /\ daemon[d].rows[b] # "disconnected"
        BY DEF Merges, InventoryInv, RowsRan
    <2>3. QED  BY <2>1, <2>2 DEF Keeps
<1>5. \A e \in Daemons : e # d => ~HoldsLock(e)
    BY <1>1 DEF InventoryInv, LockExclusive
<1> USE DEF DaemonBecomes
<1>6. InventoryShape'  BY <1>1, <1>2, <1>3 DEF InventoryInv, InventoryShape
<1>7. MarkNamesDeletion'  BY <1>1 DEF InventoryInv, MarkNamesDeletion
<1>8. OverJudged'  BY <1>1, <1>2 DEF InventoryInv, OverJudged
<1>9. LockExclusive'  BY <1>1, <1>2 DEF InventoryInv, LockExclusive, HoldsLock
<1>10. RowsRan'  BY <1>1, <1>2, <1>4, <1>5 DEF RowsRan, HoldsLock
<1>11. DeletionShown'  BY <1>1 DEF InventoryInv, DeletionShown
<1>12. QED  BY <1>6, <1>7, <1>8, <1>9, <1>10, <1>11 DEF InventoryInv

\* The agents are probed; what commands see is left alone until all have been.
LEMMA ProbesKeeps ==
    ASSUME InventoryInv, NEW d \in Daemons, NEW b \in Boxes, Probes(d, b)
    PROVE  InventoryInv'
<1>1. /\ daemon[d].at = "probes" /\ HoldsLock(d)
      /\ UNCHANGED <<vessel, deletion, mark, snapshot, exe, ran>>
      /\ daemon \in [Daemons -> DaemonStates] /\ daemon[d] \in DaemonStates /\ exe \in Nat
    BY DEF Probes, InventoryInv, InventoryShape, HoldsLock
<1> DEFINE next == daemon[d].left \ {b}
           at == IF next = {} THEN "publishes" ELSE "probes"
<1>2. at \in {"publishes", "probes"} /\ next \in SUBSET Boxes
    BY <1>1 DEF DaemonStates
<1>3. PICK row \in RowKinds :
          daemon' = [daemon EXCEPT ![d].at = at, ![d].left = next, ![d].rows[b] = row]
    <2>1. daemon[d].rows[b] \in RowKinds
        BY <1>1 DEF DaemonStates
    <2>2. QED  BY <2>1 DEF Probes, RowKinds
<1> HIDE DEF next, at
<1>4. PICK rows : DaemonBecomes(d, at, rows, next, daemon[d].over)
    <2>1. DaemonBecomes(d, at, [daemon[d].rows EXCEPT ![b] = row], next, daemon[d].over)
        BY <1>1, <1>2, <1>3 DEF DaemonBecomes, DaemonStates, DaemonStages
    <2>2. QED  BY <2>1
<1>5. \A x \in daemon[d].over : /\ deletion[x].tries >= 1
                                /\ deletion[x].tries >= 2 \/ deletion[x].task = "ended"
    BY DEF InventoryInv, OverJudged
<1>6. QED  BY <1>1, <1>2, <1>4, <1>5, DaemonMoveKeeps

\* A daemon comes, finds itself outdated, fails, or goes.
LEMMA LifeKeeps ==
    ASSUME InventoryInv, NEW d \in Daemons,
           \/ LooksForDaemon(d) \/ DropsLock(d) \/ Spawns(d) \/ Starts(d)
           \/ DaemonOutdated(d) \/ RequestFails(d) \/ DaemonKilled(d)
    PROVE  InventoryInv'
<1>1. /\ UNCHANGED <<vessel, deletion, mark, snapshot, exe, ran>>
      /\ daemon \in [Daemons -> DaemonStates] /\ daemon[d] \in DaemonStates /\ exe \in Nat
      /\ InventoryShape
    BY DEF LooksForDaemon, DropsLock, Spawns, Starts, DaemonOutdated, RequestFails,
       DaemonKilled, InventoryInv, InventoryShape
<1>2. \A x \in daemon[d].over : /\ deletion[x].tries >= 1
                                /\ deletion[x].tries >= 2 \/ deletion[x].task = "ended"
    BY DEF InventoryInv, OverJudged
<1>3. CASE DaemonOutdated(d) \/ DaemonKilled(d) \/ (Starts(d) /\ LockHeld)
    <2>1. DaemonBecomes(d, "off", NoRows, {}, {})
        BY <1>1, <1>3, GoesOff DEF DaemonOutdated, DaemonKilled, Starts
    <2>2. QED  BY <1>1, <2>1, DaemonMoveKeeps
<1>4. CASE LooksForDaemon(d) \/ DropsLock(d) \/ RequestFails(d)
    <2>1. PICK at \in {"looks", "spawns", "fails"} :
              /\ Moves(d, at)
              /\ at = "looks" => ~LockHeld
              /\ at = "fails" => daemon[d].at \in {"checks", "reads"}
        BY <1>4 DEF LooksForDaemon, DropsLock, RequestFails
    <2>2. DaemonBecomes(d, at, daemon[d].rows, daemon[d].left, daemon[d].over)
        BY <1>1, <2>1, MovesDaemon DEF DaemonStages
    <2>3. at # "spawns" => HoldsLock(d) \/ \A e \in Daemons : ~HoldsLock(e)
        BY <2>1 DEF LockHeld, HoldsLock
    <2>4. QED  BY <1>1, <1>2, <2>1, <2>2, <2>3, DaemonMoveKeeps
<1>5. CASE Spawns(d)
    <2>1. DaemonBecomes(d, "starts", daemon[d].rows, daemon[d].left, daemon[d].over)
        BY <1>1, <1>5 DEF Spawns, DaemonBecomes, DaemonStates, DaemonStages
    <2>2. QED  BY <1>1, <1>2, <2>1, DaemonMoveKeeps
<1>6. CASE Starts(d) /\ ~LockHeld
    <2>1. DaemonBecomes(d, "checks", daemon[d].rows, daemon[d].left, daemon[d].over)
        BY <1>1, <1>6 DEF Starts, DaemonBecomes, DaemonStates, DaemonStages
    <2>2. \A e \in Daemons : ~HoldsLock(e)
        BY <1>6 DEF LockHeld, HoldsLock
    <2>3. QED  BY <1>1, <1>2, <2>1, <2>2, DaemonMoveKeeps
<1>7. QED  BY <1>3, <1>4, <1>5, <1>6

LEMMA InventoryNextKeeps ==
    ASSUME InventoryInv, [InventoryNext]_inventoryVars
    PROVE  InventoryInv'
<1>1. ASSUME NEW b \in Boxes,
             PowerTurns(b) \/ QueuesDelete(b) \/ MarksDeleting(b) \/ DeletionEnds(b)
      PROVE  InventoryInv'
    BY <1>1, WorldKeeps
<1>2. CASE ExecutableReplaced
    <2>1. exe' \in Nat /\ UNCHANGED <<vessel, deletion, mark, snapshot, daemon, ran>>
        BY <1>2 DEF ExecutableReplaced, InventoryInv, InventoryShape
    <2>2. QED
        BY <2>1 DEF InventoryInv, InventoryShape, MarkNamesDeletion, OverJudged, LockExclusive,
           HoldsLock, RowsRan, DeletionShown
<1>3. ASSUME NEW d \in Daemons,
             LooksForDaemon(d) \/ RequestFails(d) \/ DaemonKilled(d)
      PROVE  InventoryInv'
    BY <1>3, LifeKeeps
<1>4. ASSUME NEW d \in Daemons, DaemonStep(d)
      PROVE  InventoryInv'
    <2>1. CASE DropsLock(d) \/ Spawns(d) \/ Starts(d) \/ DaemonOutdated(d)
        BY <2>1, LifeKeeps
    <2>2. CASE Lists(d)  BY <2>2, ListsKeeps
    <2>3. CASE Merges(d) \/ Publishes(d) \/ Fails(d)  BY <2>3, WriteKeeps
    <2>4. ASSUME NEW b \in Boxes,
                 \/ ReadsBox(d, b) \/ PassesBox(d, b) \/ ReadsMarkEnded(d, b)
                 \/ RemovesMark(d, b) \/ ReadsMarkRunning(d, b) \/ Probes(d, b)
          PROVE  InventoryInv'
        BY <2>4, ReadKeeps, ScanKeeps, MarkKeeps, ProbesKeeps
    <2>5. QED  BY <1>4, <2>1, <2>2, <2>3, <2>4 DEF DaemonStep
<1>5. ASSUME NEW d \in Daemons, NEW b \in Boxes, TasksUnread(d, b)
      PROVE  InventoryInv'
    BY <1>5, ReadKeeps
<1>6. CASE UNCHANGED inventoryVars
    BY <1>6 DEF inventoryVars, InventoryInv, InventoryShape, MarkNamesDeletion, OverJudged,
       LockExclusive, HoldsLock, RowsRan, DeletionShown
<1>7. QED  BY <1>1, <1>2, <1>3, <1>4, <1>5, <1>6 DEF InventoryNext

LEMMA InventoryInitHolds ==
    ASSUME InventoryInit
    PROVE  InventoryInv
<1> USE DEF InventoryInit
<1>1. OffDaemon \in DaemonStates /\ NoRows \in [Boxes -> RowKinds]
    BY DEF OffDaemon, DaemonStates, NoRows, DaemonStages, RowKinds
<1>2. \A d \in Daemons : daemon[d].at = "off" /\ daemon[d].over = {}
    BY DEF OffDaemon
<1>3. \A b \in Boxes : mark[b] = 0 /\ deletion[b].task = "none" /\ deletion[b].tries = 0
    OBVIOUS
<1>4. InventoryShape
    BY <1>1 DEF InventoryShape, Deletions
<1>5. /\ MarkNamesDeletion /\ OverJudged /\ LockExclusive /\ RowsRan /\ DeletionShown
    BY <1>2, <1>3 DEF MarkNamesDeletion, OverJudged, LockExclusive, HoldsLock, RowsRan,
       DeletionShown
<1>6. QED  BY <1>4, <1>5 DEF InventoryInv

\* The invariant of the inventory.
THEOREM InventoryInvariant == InventorySpec => []InventoryInv
<1>1. InventoryInit => InventoryInv
    BY InventoryInitHolds
<1>2. InventoryInv /\ [InventoryNext]_inventoryVars => InventoryInv'
    BY InventoryNextKeeps
<1>3. QED  BY <1>1, <1>2, PTL DEF InventorySpec

\* What commands see of a box is true: of it as running, since the present refresh
\* began; and of a first deletion, as long as its task runs.
LEMMA InventoryTold == InventoryInv => FreshStateShown /\ DeletionShown /\ InventoryTypeOK
<1> SUFFICES ASSUME InventoryInv
             PROVE  FreshStateShown /\ DeletionShown /\ InventoryTypeOK
    OBVIOUS
<1>1. FreshStateShown
    BY DEF InventoryInv, RowsRan, FreshStateShown
<1>2. InventoryTypeOK
    <2>1. ASSUME NEW b \in Boxes
          PROVE  /\ vessel[b] \in {"running", "stopped", "gone"}
                 /\ mark[b] \in 0 .. deletion[b].tries
                 /\ snapshot.rows[b] \in RowKinds
        BY DEF InventoryInv, InventoryShape, Deletions, MarkNamesDeletion
    <2>2. ASSUME NEW d \in Daemons
          PROVE  daemon[d].at \in DaemonStages
        BY DEF InventoryInv, InventoryShape, DaemonStates
    <2>3. QED  BY <2>1, <2>2 DEF InventoryTypeOK, RowKinds, DaemonStages
<1>3. QED  BY <1>1, <1>2 DEF InventoryInv

-----------------------------------------------------------------------------
(***************************************************************************)
(* Access tokens of the relay                                              *)
(***************************************************************************)

VisitStages == {"new", "failed", "asked", "shown", "holds", "open", "refused", "confirmed"}
KeyNumbers == 0..2
Pendings == 0..1
AccessTokens == [key : KeyNumbers, expires : Int, issued : Nat]
VisitStates ==
    [kind : VisitorKinds, at : VisitStages, token : AccessTokens, pending : Pendings,
     refusedBy : KeyNumbers, refusedAt : Nat, late : Nat]

AccessShape ==
    /\ time \in 0..MaxTime /\ blindFor \in 0..time
    /\ clockSets \in 0..MaxSettings /\ clockError \in Int
    /\ clockError <= clockSets /\ -clockSets <= clockError
    /\ servedKey \in 1..2 /\ heldKey \in 1..2 /\ seesBox \in BOOLEAN
    /\ freeSlots \in Nat
    /\ visit \in [Visitors -> VisitStates]

\* While PVE shows the box, nothing has passed since it did not.
SeenNow == seesBox => blindFor = 0

\* PVE has just shown the box: while the answer is on its way at most one part passes.
JustShown == \A c \in Visitors : visit[c].at = "shown" => blindFor <= visit[c].pending

\* The expiry of a credential is a lifetime after its issue by the relay's clock, give
\* or take the changes of that clock, and at its issue the box was shown at most a part
\* before.
CredentialTimed(token) ==
    /\ token.issued <= time
    /\ token.expires - token.issued - Lifetime - clockError <= clockSets
    /\ -clockSets <= token.expires - token.issued - Lifetime - clockError
    /\ blindFor <= time - token.issued + 1
CredentialsTimed ==
    \A c \in Visitors :
        (visit[c].kind = "pve" /\ visit[c].at \in {"holds", "open"}) => CredentialTimed(visit[c].token)

\* A check is confirmed by the key that signs its token.
ConfirmedByKey ==
    \A c \in Visitors : visit[c].at = "confirmed" => visit[c].token.key = visit[c].refusedBy

AccessInv ==
    /\ AccessShape /\ SeenNow /\ JustShown /\ CredentialsTimed /\ ConfirmedByKey
    /\ IssuersCounted /\ EntryFollowsVisibility /\ RefusedForReason

\* The slots that are taken: by those that were before, and by the visitor or not.
Issuers == {c \in Visitors : AtIssuer(c)}

LEMMA IssuersFinite == IsFiniteSet(Issuers) /\ Cardinality(Issuers) \in Nat
<1>1. Issuers \in SUBSET Visitors
    BY DEF Issuers
<1>2. IsFiniteSet(Issuers)
    BY <1>1, VisitorsAssumption, FS_Subset
<1>3. QED  BY <1>2, FS_CardinalityType

LEMMA IssuersChange ==
    ASSUME NEW c \in Visitors,
           \A d \in Visitors : d # c => (AtIssuer(d)' <=> AtIssuer(d)),
           IssuersCounted, freeSlots \in Int,
           freeSlots' = freeSlots
               + (IF AtIssuer(c) THEN 1 ELSE 0) - (IF AtIssuer(c)' THEN 1 ELSE 0)
    PROVE  IssuersCounted'
<1>1. freeSlots + Cardinality(Issuers) = IssueSlots
    BY DEF IssuersCounted, Issuers
<1>2. SUFFICES freeSlots' + Cardinality(Issuers') = IssueSlots
    BY DEF IssuersCounted, Issuers
<1>3. CASE AtIssuer(c) <=> AtIssuer(c)'
    <2>1. Issuers' = Issuers
        BY <1>3 DEF Issuers
    <2>2. freeSlots' = freeSlots
        BY <1>3
    <2>3. QED  BY <1>1, <2>1, <2>2
<1>4. CASE AtIssuer(c) /\ ~AtIssuer(c)'
    <2>1. Issuers' = Issuers \ {c} /\ c \in Issuers
        BY <1>4 DEF Issuers
    <2>2. Cardinality(Issuers') = Cardinality(Issuers) - 1
        BY <2>1, IssuersFinite, FS_RemoveElement
    <2>3. freeSlots' = freeSlots + 1
        BY <1>4
    <2>4. QED  BY <1>1, <2>2, <2>3, IssuersFinite
<1>5. CASE ~AtIssuer(c) /\ AtIssuer(c)'
    <2>1. Issuers' = Issuers \cup {c} /\ c \notin Issuers
        BY <1>5 DEF Issuers
    <2>2. Cardinality(Issuers') = Cardinality(Issuers) + 1
        BY <2>1, IssuersFinite, FS_AddElement
    <2>3. freeSlots' = freeSlots - 1
        BY <1>5
    <2>4. QED  BY <1>1, <2>2, <2>3, IssuersFinite
<1>6. QED  BY <1>3, <1>4, <1>5

\* What a visitor's step has to respect.
LEMMA VisitKeeps ==
    ASSUME AccessInv, NEW c \in Visitors, NEW w \in VisitStates, Visits(c, w),
           w.kind = visit[c].kind,
           UNCHANGED <<time, siteAccess, blindFor>>,
           freeSlots' = freeSlots + (IF AtIssuer(c) THEN 1 ELSE 0)
                                  - (IF w.at \in {"asked", "shown"} THEN 1 ELSE 0),
           freeSlots' \in Nat,
           w.at = "shown" => blindFor <= w.pending,
           w.kind = "pve" /\ w.at \in {"holds", "open"} => CredentialTimed(w.token),
           w.kind = "pve" /\ w.at = "open" => w.late <= Lifetime + clockSets,
           w.at = "refused" =>
               \/ w.token.key # w.refusedBy
               \/ w.kind = "pve" /\ (clockSets > 0 \/ w.refusedAt - w.token.issued >= Lifetime),
           w.at = "confirmed" => w.token.key = w.refusedBy
    PROVE  AccessInv'
<1> USE DEF siteAccess
<1>1. /\ visit' \in [Visitors -> VisitStates] /\ visit'[c] = w
      /\ \A d \in Visitors : d # c => visit'[d] = visit[d]
    BY DEF AccessInv, AccessShape, Visits
<1>3. AccessShape'
    BY <1>1 DEF AccessInv, AccessShape
<1>4. SeenNow' /\ JustShown'
    BY <1>1 DEF AccessInv, SeenNow, JustShown
<1>5. CredentialsTimed'
    <2>1. ASSUME NEW d \in Visitors, visit'[d].kind = "pve", visit'[d].at \in {"holds", "open"}
          PROVE  CredentialTimed(visit'[d].token)
        BY <1>1, <2>1 DEF AccessInv, CredentialsTimed
    <2>2. QED  BY <2>1 DEF CredentialsTimed, CredentialTimed
<1>6. ConfirmedByKey'
    BY <1>1 DEF AccessInv, ConfirmedByKey
<1>7. IssuersCounted'
    <2>1. \A d \in Visitors : d # c => (AtIssuer(d)' <=> AtIssuer(d))
        BY <1>1 DEF AtIssuer
    <2>2. AtIssuer(c)' <=> w.at \in {"asked", "shown"}
        BY <1>1 DEF AtIssuer
    <2>3. IssuersCounted /\ freeSlots \in Int
        BY DEF AccessInv, AccessShape
    <2>4. freeSlots' = freeSlots + (IF AtIssuer(c) THEN 1 ELSE 0)
                                 - (IF AtIssuer(c)' THEN 1 ELSE 0)
        BY <2>2
    <2>5. QED  BY <2>1, <2>3, <2>4, IssuersChange
<1>8. EntryFollowsVisibility'
    BY <1>1 DEF AccessInv, EntryFollowsVisibility
<1>9. RefusedForReason'
    BY <1>1 DEF AccessInv, RefusedForReason
<1>10. QED  BY <1>3, <1>4, <1>5, <1>6, <1>7, <1>8, <1>9 DEF AccessInv

\* The parts of a visitor's state, and what the values it is given are.
LEMMA VisitTyped ==
    ASSUME AccessShape, NEW c \in Visitors
    PROVE  /\ visit[c] \in VisitStates
           /\ visit[c].kind \in {"pve", "key", "check"}
           /\ visit[c].at \in VisitStages
           /\ visit[c].token \in AccessTokens /\ visit[c].pending \in 0..1
           /\ visit[c].token.expires \in Int /\ visit[c].token.issued \in Nat
BY VisitorKindsAssumption DEF AccessShape, VisitStates, AccessTokens, Pendings

LEMMA AccessValues ==
    ASSUME AccessShape
    PROVE  /\ VisitStages =
                  {"new", "failed", "asked", "shown", "holds", "open", "refused", "confirmed"}
           /\ 0 \in Pendings /\ 1 \in Pendings /\ servedKey \in KeyNumbers /\ heldKey \in KeyNumbers
           /\ time \in Nat /\ blindFor \in Nat /\ clockSets \in Nat /\ clockError \in Int
           /\ clockError <= clockSets /\ -clockSets <= clockError /\ freeSlots \in Nat
           /\ 0 \in Nat
BY BoundsAssumption DEF AccessShape, Pendings, KeyNumbers, VisitStages

\* The request for a credential.
LEMMA RequestKeeps ==
    ASSUME AccessInv, NEW c \in Visitors,
           RequestRefused(c) \/ RequestsAccess(c) \/ PveShowsBox(c) \/ IssuerFails(c)
    PROVE  AccessInv'
<1>1. AccessShape /\ freeSlots \in Nat
    BY DEF AccessInv, AccessShape
<1>2. CASE RequestRefused(c) \/ (RequestsAccess(c) /\ freeSlots = 0)
    <2> DEFINE w == [visit[c] EXCEPT !.at = "failed"]
    <2>1. /\ Visits(c, w) /\ UNCHANGED <<time, siteAccess, blindFor>>
          /\ freeSlots' = freeSlots /\ ~AtIssuer(c)
        BY <1>2 DEF RequestRefused, RequestsAccess, OnlyVisit, AtIssuer
    <2>2. w \in VisitStates /\ w.at = "failed" /\ w.kind = visit[c].kind
        BY <1>1, VisitTyped, AccessValues DEF VisitStates
    <2> HIDE DEF w
    <2>3. QED  BY <1>1, <2>1, <2>2, VisitKeeps
<1>3. CASE RequestsAccess(c) /\ freeSlots # 0
    <2> DEFINE w == [visit[c] EXCEPT !.at = "asked"]
    <2>1. /\ Visits(c, w) /\ UNCHANGED <<time, siteAccess, blindFor>>
          /\ freeSlots' = freeSlots - 1 /\ ~AtIssuer(c)
        BY <1>3 DEF RequestsAccess, AtIssuer
    <2>2. w \in VisitStates /\ w.at = "asked" /\ w.kind = visit[c].kind
        BY <1>1, VisitTyped, AccessValues DEF VisitStates
    <2> HIDE DEF w
    <2>3. freeSlots' \in Nat
        BY <1>1, <1>3, <2>1
    <2>4. QED  BY <1>1, <2>1, <2>2, <2>3, VisitKeeps
<1>4. CASE PveShowsBox(c)
    <2> DEFINE w == [visit[c] EXCEPT !.at = "shown"]
    <2>1. /\ Visits(c, w) /\ UNCHANGED <<time, siteAccess, blindFor>>
          /\ freeSlots' = freeSlots /\ AtIssuer(c) /\ seesBox
        BY <1>4 DEF PveShowsBox, OnlyVisit, AtIssuer
    <2>2. /\ w \in VisitStates /\ w.at = "shown" /\ w.kind = visit[c].kind
          /\ w.pending = visit[c].pending
        BY <1>1, VisitTyped, AccessValues DEF VisitStates
    <2> HIDE DEF w
    <2>3. blindFor <= w.pending
        BY <1>1, <2>1, <2>2, VisitTyped DEF AccessInv, SeenNow
    <2>4. QED  BY <1>1, <2>1, <2>2, <2>3, VisitKeeps
<1>5. CASE IssuerFails(c)
    <2> DEFINE w == [visit[c] EXCEPT !.at = "failed", !.pending = 0]
    <2>1. /\ Visits(c, w) /\ UNCHANGED <<time, siteAccess, blindFor>>
          /\ freeSlots' = freeSlots + 1 /\ AtIssuer(c)
        BY <1>5 DEF IssuerFails, GivesSlotBack
    <2>2. w \in VisitStates /\ w.at = "failed" /\ w.kind = visit[c].kind
        BY <1>1, VisitTyped, AccessValues DEF VisitStates
    <2> HIDE DEF w
    <2>3. QED  BY <1>1, <2>1, <2>2, VisitKeeps
<1>6. QED  BY <1>2, <1>3, <1>4, <1>5

LEMMA IssuesKeeps ==
    ASSUME AccessInv, NEW c \in Visitors, IssuesCredential(c)
    PROVE  AccessInv'
<1> DEFINE token == [key |-> servedKey, expires |-> Clock + Lifetime, issued |-> time]
           w == [visit[c] EXCEPT !.at = "holds", !.pending = 0, !.token = token]
<1>1. AccessShape
    BY DEF AccessInv
<1>2. blindFor <= visit[c].pending
    BY DEF AccessInv, JustShown, IssuesCredential
<1>3. token \in AccessTokens
    BY <1>1, AccessValues, LifetimeAssumption DEF AccessTokens, Clock
<1>4. CredentialTimed(token)
    <2>1. token.expires = time + clockError + Lifetime /\ token.issued = time
        BY DEF Clock
    <2>2. QED  BY <1>1, <1>2, <2>1, AccessValues, VisitTyped, LifetimeAssumption DEF CredentialTimed
<1>5. /\ Visits(c, w) /\ UNCHANGED <<time, siteAccess, blindFor>>
      /\ freeSlots' = freeSlots + 1 /\ AtIssuer(c)
    BY DEF IssuesCredential, GivesSlotBack, AtIssuer
<1> HIDE DEF token
<1>6. w \in VisitStates /\ w.at = "holds" /\ w.kind = visit[c].kind /\ w.token = token
    BY <1>1, <1>3, VisitTyped, AccessValues DEF VisitStates
<1> HIDE DEF w
<1>7. QED  BY <1>1, <1>4, <1>5, <1>6, AccessValues, VisitKeeps

\* A visitor that is at no issuer, before and after.
LEMMA EntryKeeps ==
    ASSUME AccessInv, NEW c \in Visitors,
           ReadsKey(c) \/ Enters(c) \/ EntryFails(c) \/ ChecksKey(c) \/ EntryBreaks(c)
    PROVE  AccessInv'
<1> DEFINE v == visit[c]
<1>1. AccessShape
    BY DEF AccessInv
<1>2. v.at \in {"new", "holds", "open"} /\ ~AtIssuer(c)
      /\ UNCHANGED <<time, siteAccess, blindFor>> /\ freeSlots' = freeSlots
    BY DEF ReadsKey, Enters, EntryFails, ChecksKey, EntryBreaks, AtIssuer, OnlyVisit
<1>3. ASSUME NEW w \in VisitStates, Visits(c, w), w.kind = v.kind,
             w.at \in {"failed", "holds", "open", "refused", "confirmed"},
             w.kind = "pve" /\ w.at \in {"holds", "open"} => CredentialTimed(w.token),
             w.kind = "pve" /\ w.at = "open" => w.late <= Lifetime + clockSets,
             w.at = "refused" =>
                 \/ w.token.key # w.refusedBy
                 \/ w.kind = "pve" /\ (clockSets > 0 \/ w.refusedAt - w.token.issued >= Lifetime),
             w.at = "confirmed" => w.token.key = w.refusedBy
      PROVE  AccessInv'
    <2>0. freeSlots' \in Nat
        BY <1>1, <1>2, AccessValues
    <2>1. freeSlots' = freeSlots + (IF AtIssuer(c) THEN 1 ELSE 0)
                                 - (IF w.at \in {"asked", "shown"} THEN 1 ELSE 0)
        BY <1>1, <1>2, <1>3, AccessValues
    <2>2. w.at = "shown" => blindFor <= w.pending
        BY <1>3
    <2>3. QED  BY <1>2, <1>3, <2>1, <2>2, <2>0, VisitKeeps
<1>4. v.kind = "pve" /\ v.at \in {"holds", "open"} => CredentialTimed(v.token)
    BY DEF AccessInv, CredentialsTimed
<1>5. ASSUME OnlyVisit(c, [v EXCEPT !.at = "failed"])
      PROVE  AccessInv'
    <2> DEFINE w == [v EXCEPT !.at = "failed"]
    <2>1. w \in VisitStates /\ w.at = "failed" /\ w.kind = v.kind
        BY <1>1, VisitTyped, AccessValues DEF VisitStates
    <2>2. Visits(c, w)
        BY <1>5 DEF OnlyVisit
    <2> HIDE DEF w
    <2>3. QED  BY <1>3, <2>1, <2>2
<1>6. CASE /\ ReadsKey(c)
           /\ OnlyVisit(c, [v EXCEPT !.at = "holds", !.token = [Blank EXCEPT !.key = heldKey]])
    <2> DEFINE token == [Blank EXCEPT !.key = heldKey]
               w == [v EXCEPT !.at = "holds", !.token = token]
    <2>1. token \in AccessTokens
        BY <1>1, AccessValues, BoundsAssumption, LifetimeAssumption
        DEF Blank, AccessTokens, Forever
    <2>2. Visits(c, w)
        BY <1>6 DEF OnlyVisit
    <2> HIDE DEF token
    <2>3. w \in VisitStates /\ w.at = "holds" /\ w.kind = v.kind
        BY <1>1, <2>1, VisitTyped, AccessValues DEF VisitStates
    <2>4. v.kind # "pve"
        BY <1>6 DEF ReadsKey
    <2> HIDE DEF w
    <2>5. QED  BY <1>3, <2>2, <2>3, <2>4
<1>7. CASE Enters(c) /\ Authorised(c)
    <2> DEFINE w == [v EXCEPT !.at = "open", !.late = blindFor]
    <2>1. /\ w \in VisitStates /\ w.at = "open" /\ w.kind = v.kind /\ w.token = v.token
          /\ w.late = blindFor
        BY <1>1, VisitTyped, AccessValues DEF VisitStates
    <2>2. Visits(c, w) /\ v.at = "holds"
        BY <1>7 DEF Enters, OnlyVisit
    <2>3. v.kind = "pve" => blindFor <= Lifetime + clockSets
        BY <1>1, <1>4, <1>7, <2>2, AccessValues, VisitTyped, LifetimeAssumption
        DEF Authorised, Clock, CredentialTimed
    <2> HIDE DEF w
    <2>4. QED  BY <1>3, <1>4, <2>1, <2>2, <2>3
<1>8. CASE Enters(c) /\ ~Authorised(c)
    <2> DEFINE w == [v EXCEPT !.at = "refused", !.refusedBy = servedKey, !.refusedAt = time]
    <2>1. /\ w \in VisitStates /\ w.at = "refused" /\ w.kind = v.kind /\ w.token = v.token
          /\ w.refusedBy = servedKey /\ w.refusedAt = time
        BY <1>1, VisitTyped, AccessValues DEF VisitStates
    <2>2. Visits(c, w) /\ v.at = "holds"
        BY <1>8 DEF Enters, OnlyVisit
    <2>3. \/ v.token.key # servedKey
          \/ v.kind = "pve" /\ (clockSets > 0 \/ time - v.token.issued >= Lifetime)
        BY <1>1, <1>4, <1>8, <2>2, AccessValues, VisitTyped, LifetimeAssumption
        DEF Authorised, Clock, CredentialTimed
    <2> HIDE DEF w
    <2>4. QED  BY <1>3, <2>1, <2>2, <2>3
<1>9. CASE ChecksKey(c)
    <2> DEFINE at == IF Authorised(c) THEN "confirmed" ELSE "refused"
               w == [v EXCEPT !.at = at, !.refusedBy = servedKey]
    <2>1. at \in {"confirmed", "refused"} /\ at \in VisitStages
        BY DEF VisitStages
    <2>2. Visits(c, w) /\ v.kind = "check"
        BY <1>9 DEF ChecksKey, OnlyVisit
    <2>3. at = "confirmed" <=> v.token.key = servedKey
        BY <2>2 DEF Authorised
    <2> HIDE DEF at
    <2>4. /\ w \in VisitStates /\ w.at = at /\ w.kind = v.kind /\ w.token = v.token
          /\ w.refusedBy = servedKey
        BY <1>1, <2>1, VisitTyped, AccessValues DEF VisitStates
    <2> HIDE DEF w
    <2>5. QED  BY <1>3, <2>1, <2>2, <2>3, <2>4
<1>10. CASE EntryBreaks(c)
    <2> DEFINE w == [v EXCEPT !.at = "holds", !.late = 0]
    <2>1. w \in VisitStates /\ w.at = "holds" /\ w.kind = v.kind /\ w.token = v.token
        BY <1>1, VisitTyped, AccessValues DEF VisitStates
    <2>2. Visits(c, w) /\ v.at = "open"
        BY <1>10 DEF EntryBreaks, OnlyVisit
    <2> HIDE DEF w
    <2>3. QED  BY <1>3, <1>4, <2>1, <2>2
<1>11. QED  BY <1>5, <1>6, <1>7, <1>8, <1>9, <1>10 DEF ReadsKey, EntryFails

\* What happens around the visitors.
LEMMA PartPassesKeeps ==
    ASSUME AccessInv, PartPasses
    PROVE  AccessInv'
<1>1. /\ time \in 0..MaxTime /\ time' = time + 1 /\ time < MaxTime
      /\ blindFor \in 0..time /\ blindFor' \in 0..time' /\ blindFor' <= blindFor + 1
      /\ clockSets \in Nat /\ clockError \in Int
      /\ UNCHANGED <<clockError, clockSets, servedKey, heldKey, seesBox, freeSlots>>
      /\ (seesBox => blindFor' = 0)
    BY BoundsAssumption DEF AccessInv, AccessShape, PartPasses, siteAccess
<1>2. visit \in [Visitors -> VisitStates]
    BY DEF AccessInv, AccessShape
<1>3. \A c \in Visitors : visit'[c] = [visit[c] EXCEPT !.pending = IF AtIssuer(c) THEN 1 ELSE 0]
    BY DEF PartPasses
<1>4. ASSUME NEW c \in Visitors
      PROVE  /\ visit'[c] \in VisitStates
             /\ visit'[c].kind = visit[c].kind /\ visit'[c].at = visit[c].at
             /\ visit'[c].token = visit[c].token /\ visit'[c].refusedBy = visit[c].refusedBy
             /\ visit'[c].refusedAt = visit[c].refusedAt /\ visit'[c].late = visit[c].late
             /\ visit'[c].pending = IF AtIssuer(c) THEN 1 ELSE 0
    <2> DEFINE pending == IF AtIssuer(c) THEN 1 ELSE 0
    <2>1. pending \in Pendings
        BY DEF Pendings
    <2>2. visit'[c] = [visit[c] EXCEPT !.pending = pending]
        BY <1>3
    <2> HIDE DEF pending
    <2>3. /\ visit'[c] \in VisitStates
          /\ visit'[c].kind = visit[c].kind /\ visit'[c].at = visit[c].at
          /\ visit'[c].token = visit[c].token /\ visit'[c].refusedBy = visit[c].refusedBy
          /\ visit'[c].refusedAt = visit[c].refusedAt /\ visit'[c].late = visit[c].late
          /\ visit'[c].pending = pending
        BY <1>2, <2>1, <2>2 DEF VisitStates
    <2>4. QED  BY <2>3 DEF pending
<1>5. visit' \in [Visitors -> VisitStates]
    <2>1. visit' = [c \in Visitors |-> visit'[c]]
        BY DEF PartPasses
    <2>2. QED  BY <1>4, <2>1
<1>6. \A c \in Visitors : AtIssuer(c) => visit[c].pending = 0
    BY DEF PartPasses
<1>7. AccessShape'
    BY <1>1, <1>5, BoundsAssumption DEF AccessInv, AccessShape
<1>8. JustShown'
    BY <1>1, <1>4, <1>6 DEF AccessInv, JustShown, AtIssuer
<1>9. CredentialsTimed'
    <2>1. ASSUME NEW c \in Visitors, visit[c].kind = "pve", visit[c].at \in {"holds", "open"}
          PROVE  CredentialTimed(visit[c].token)'
        <3>1. CredentialTimed(visit[c].token)
            BY <2>1 DEF AccessInv, CredentialsTimed
        <3>2. visit[c].token.expires \in Int /\ visit[c].token.issued \in Nat
            BY <1>2 DEF VisitStates, AccessTokens
        <3>3. visit'[c].token = visit[c].token
            BY <1>4
        <3>4. QED  BY <1>1, <3>1, <3>2, <3>3 DEF CredentialTimed
    <2>2. QED  BY <1>4, <2>1 DEF CredentialsTimed
<1>10. ConfirmedByKey' /\ EntryFollowsVisibility' /\ RefusedForReason'
    BY <1>1, <1>4 DEF AccessInv, ConfirmedByKey, EntryFollowsVisibility, RefusedForReason
<1>11. IssuersCounted'
    <2>1. \A c \in Visitors : AtIssuer(c)' <=> AtIssuer(c)
        BY <1>4 DEF AtIssuer
    <2>2. {c \in Visitors : AtIssuer(c)}' = {c \in Visitors : AtIssuer(c)}
        BY <2>1
    <2>3. QED  BY <1>1, <2>2 DEF AccessInv, IssuersCounted
<1>12. SeenNow'
    BY <1>1 DEF SeenNow
<1>13. QED  BY <1>7, <1>8, <1>9, <1>10, <1>11, <1>12 DEF AccessInv

LEMMA SiteKeeps ==
    ASSUME AccessInv, ClockSet \/ VisibilityChanges \/ KeyFileReplaced \/ UNCHANGED accessVars
    PROVE  AccessInv'
<1>1. /\ time \in Nat /\ time <= MaxTime /\ blindFor \in 0..time
      /\ clockSets \in Nat /\ clockSets <= MaxSettings
      /\ clockError \in Int /\ clockError <= clockSets /\ -clockSets <= clockError
      /\ servedKey \in 1..2 /\ heldKey \in 1..2 /\ seesBox \in BOOLEAN
      /\ freeSlots \in Nat /\ visit \in [Visitors -> VisitStates]
    BY BoundsAssumption DEF AccessInv, AccessShape
<1>2. /\ UNCHANGED <<time, servedKey, freeSlots, visit>>
      /\ clockError' \in Int
      /\ \/ clockSets' = clockSets /\ clockError' = clockError
         \/ /\ clockSets' = clockSets + 1 /\ clockSets < MaxSettings
            /\ clockError' = clockError + 1 \/ clockError' = clockError - 1
    <2>1. CASE ClockSet
        <3>1. PICK step \in {-1, 1} : clockError' = clockError + step
            BY <2>1 DEF ClockSet
        <3>2. clockError' = clockError + 1 \/ clockError' = clockError - 1
            BY <1>1, <3>1
        <3>3. QED  BY <1>1, <2>1, <3>2 DEF ClockSet
    <2>2. CASE VisibilityChanges
        BY <1>1, <2>2 DEF VisibilityChanges
    <2>3. CASE KeyFileReplaced
        BY <1>1, <2>3 DEF KeyFileReplaced
    <2>4. CASE UNCHANGED accessVars
        BY <1>1, <2>4 DEF accessVars, siteAccess
    <2>5. QED  BY <2>1, <2>2, <2>3, <2>4
<1>3. blindFor' = blindFor \/ blindFor' = 0
    BY DEF ClockSet, VisibilityChanges, KeyFileReplaced, accessVars, siteAccess
<1>4. seesBox' \in BOOLEAN /\ heldKey' \in 1..2
    <2>1. 2 \in 1..2
        OBVIOUS
    <2>2. QED  BY Zenon, <1>1, <2>1 DEF ClockSet, VisibilityChanges, KeyFileReplaced, accessVars, siteAccess
<1>5. SeenNow'
    BY DEF ClockSet, VisibilityChanges, KeyFileReplaced, accessVars, siteAccess, AccessInv, SeenNow
<1>6. /\ clockSets' \in Nat /\ clockSets' <= MaxSettings /\ clockSets <= clockSets'
      /\ clockError' <= clockSets' /\ -clockSets' <= clockError'
      /\ clockError' - clockError <= clockSets' - clockSets
      /\ clockError - clockError' <= clockSets' - clockSets
    BY <1>1, <1>2, BoundsAssumption
<1>7. AccessShape'
    <2>1. time' \in 0..MaxTime /\ blindFor' \in 0..time'
        BY <1>1, <1>2, <1>3, BoundsAssumption
    <2>2. clockSets' \in 0..MaxSettings
        BY <1>6, BoundsAssumption
    <2>3. servedKey' \in 1..2 /\ freeSlots' \in Nat /\ visit' \in [Visitors -> VisitStates]
        BY <1>1, <1>2
    <2>4. QED  BY <1>2, <1>4, <1>6, <2>1, <2>2, <2>3 DEF AccessShape
<1>8. \A c \in Visitors : /\ visit[c].token.expires \in Int /\ visit[c].token.issued \in Nat
                          /\ visit[c].pending \in 0..1
    BY <1>1 DEF VisitStates, AccessTokens, Pendings
<1>9. JustShown'
    BY <1>1, <1>2, <1>3, <1>8 DEF AccessInv, JustShown
<1>10. CredentialsTimed'
    <2>1. ASSUME NEW c \in Visitors, CredentialTimed(visit[c].token)
          PROVE  CredentialTimed(visit[c].token)'
        <3> DEFINE token == visit[c].token
        <3>1. token.expires \in Int /\ token.issued \in Nat /\ visit' = visit
            BY <1>2, <1>8
        <3> HIDE DEF token
        <3>2. CredentialTimed(token)
            BY <2>1 DEF token
        <3>3. /\ token.issued <= time' /\ blindFor' <= time' - token.issued + 1
            BY <1>1, <1>2, <1>3, <3>1, <3>2 DEF CredentialTimed
        <3>4. /\ token.expires - token.issued - Lifetime - clockError' <= clockSets'
              /\ -clockSets' <= token.expires - token.issued - Lifetime - clockError'
            BY <1>1, <1>2, <1>6, <3>1, <3>2, LifetimeAssumption DEF CredentialTimed
        <3>5. QED  BY <3>1, <3>3, <3>4 DEF CredentialTimed, token
    <2>2. QED  BY <1>2, <2>1 DEF AccessInv, CredentialsTimed
<1>11. ConfirmedByKey' /\ IssuersCounted'
    BY <1>2 DEF AccessInv, ConfirmedByKey, IssuersCounted, AtIssuer
<1>12. EntryFollowsVisibility' /\ RefusedForReason'
    <2>1. \A c \in Visitors : visit[c].late \in Nat
        BY <1>1 DEF VisitStates
    <2>2. EntryFollowsVisibility'
        BY <1>1, <1>2, <1>6, <2>1, LifetimeAssumption DEF AccessInv, EntryFollowsVisibility
    <2>3. RefusedForReason'
        BY <1>1, <1>2, <1>6 DEF AccessInv, RefusedForReason
    <2>4. QED  BY <2>2, <2>3
<1>13. QED  BY <1>5, <1>7, <1>9, <1>10, <1>11, <1>12 DEF AccessInv

LEMMA RelayRestartedKeeps ==
    ASSUME AccessInv, RelayRestarted
    PROVE  AccessInv'
<1>1. visit \in [Visitors -> VisitStates]
    BY DEF AccessInv, AccessShape
<1>2. ASSUME NEW c \in Visitors
      PROVE  /\ visit'[c] \in VisitStates
             /\ visit'[c].kind = visit[c].kind
             /\ visit'[c].token = visit[c].token /\ visit'[c].refusedBy = visit[c].refusedBy
             /\ visit'[c].refusedAt = visit[c].refusedAt
             /\ visit'[c].at = IF AtIssuer(c) THEN "failed"
                               ELSE IF visit[c].at = "open" THEN "holds" ELSE visit[c].at
    <2>1. visit'[c] = IF AtIssuer(c) THEN [visit[c] EXCEPT !.at = "failed", !.pending = 0]
                      ELSE IF visit[c].at = "open" THEN [visit[c] EXCEPT !.at = "holds", !.late = 0]
                      ELSE visit[c]
        BY DEF RelayRestarted
    <2>2. visit[c] \in VisitStates
        BY <1>1
    <2>2a. /\ "failed" \in VisitStages /\ "holds" \in VisitStages
          /\ 0 \in Pendings /\ 0 \in Nat
        BY DEF VisitStages, Pendings
    <2>3. CASE AtIssuer(c)
        BY <2>1, <2>2, <2>3, <2>2a DEF VisitStates
    <2>4. CASE ~AtIssuer(c) /\ visit[c].at = "open"
        BY <2>1, <2>2, <2>4, <2>2a DEF VisitStates
    <2>5. CASE ~AtIssuer(c) /\ visit[c].at # "open"
        BY <2>1, <2>2, <2>5
    <2>6. QED  BY <2>3, <2>4, <2>5
<1>3. visit' \in [Visitors -> VisitStates]
    <2>1. visit' = [c \in Visitors |-> visit'[c]]
        BY DEF RelayRestarted
    <2>2. QED  BY <1>2, <2>1
<1>4. /\ UNCHANGED <<time, clockError, clockSets, heldKey, seesBox, blindFor>>
      /\ freeSlots' = IssueSlots
    BY DEF RelayRestarted
<1>4a. servedKey' \in 1..2
    <2>1. servedKey' \in {servedKey, 2}
        BY DEF RelayRestarted
    <2>2. servedKey \in 1..2
        BY DEF AccessInv, AccessShape
    <2>3. QED  BY <2>1, <2>2
<1>5. AccessShape'
    BY <1>3, <1>4, <1>4a, IssueSlotsAssumption DEF AccessInv, AccessShape
<1>6. \A c \in Visitors : visit'[c].at \notin {"asked", "shown", "open"}
    BY <1>2 DEF AtIssuer
<1>7. JustShown' /\ EntryFollowsVisibility'
    BY <1>6 DEF JustShown, EntryFollowsVisibility
<1>8. CredentialsTimed'
    <2>1. ASSUME NEW c \in Visitors, visit'[c].kind = "pve", visit'[c].at \in {"holds", "open"}
          PROVE  CredentialTimed(visit[c].token)
        <3>1. visit[c].at \in {"holds", "open"} /\ visit[c].kind = "pve"
            BY <1>2, <2>1
        <3>2. QED  BY <3>1 DEF AccessInv, CredentialsTimed
    <2>2. QED  BY <1>2, <1>4, <2>1 DEF CredentialsTimed, CredentialTimed
<1>9. ConfirmedByKey' /\ RefusedForReason'
    BY <1>2, <1>4 DEF AccessInv, ConfirmedByKey, RefusedForReason, AtIssuer
<1>10. IssuersCounted'
    <2>1. {c \in Visitors : AtIssuer(c)}' = {}
        BY <1>6 DEF AtIssuer
    <2>2. QED  BY <1>4, <2>1, FS_EmptySet, IssueSlotsAssumption DEF IssuersCounted
<1>11. SeenNow'
    BY <1>4 DEF AccessInv, SeenNow
<1>12. QED  BY <1>5, <1>7, <1>8, <1>9, <1>10, <1>11 DEF AccessInv

LEMMA AccessNextKeeps == AccessInv /\ [AccessNext]_accessVars => AccessInv'
<1> SUFFICES ASSUME AccessInv, [AccessNext]_accessVars
             PROVE  AccessInv'
    OBVIOUS
<1>1. ASSUME NEW c \in Visitors, VisitorStep(c)
      PROVE  AccessInv'
    BY <1>1, RequestKeeps, IssuesKeeps, EntryKeeps DEF VisitorStep
<1>2. QED  BY <1>1, PartPassesKeeps, SiteKeeps, RelayRestartedKeeps DEF AccessNext

LEMMA AccessInitHolds == AccessInit => AccessInv
<1> SUFFICES ASSUME AccessInit
             PROVE  AccessInv
    OBVIOUS
<1> USE DEF AccessInit
<1>1. ASSUME NEW k \in VisitorKinds
      PROVE  NewVisit(k) \in VisitStates /\ NewVisit(k).at = "new"
    <2>1. Blank \in AccessTokens
        BY BoundsAssumption, LifetimeAssumption DEF Blank, AccessTokens, Forever, KeyNumbers
    <2>2. "new" \in VisitStages /\ 0 \in Pendings /\ 0 \in KeyNumbers
        BY DEF VisitStages, Pendings, KeyNumbers
    <2>3. QED  BY <2>1, <2>2 DEF NewVisit, VisitStates
<1>2. visit \in [Visitors -> VisitStates] /\ \A c \in Visitors : visit[c].at = "new"
    BY <1>1
<1>3. AccessShape
    BY <1>2, BoundsAssumption, IssueSlotsAssumption DEF AccessShape
<1>4. JustShown /\ CredentialsTimed /\ ConfirmedByKey /\ EntryFollowsVisibility /\ RefusedForReason
    BY <1>2 DEF JustShown, CredentialsTimed, ConfirmedByKey, EntryFollowsVisibility, RefusedForReason
<1>5. IssuersCounted
    <2>1. {c \in Visitors : AtIssuer(c)} = {}
        BY <1>2 DEF AtIssuer
    <2>2. QED  BY <2>1, FS_EmptySet, IssueSlotsAssumption DEF IssuersCounted
<1>6. SeenNow
    BY DEF SeenNow
<1>7. QED  BY <1>3, <1>4, <1>5, <1>6 DEF AccessInv

\* The invariant of the access tokens.
THEOREM AccessInvariant == AccessSpec => []AccessInv
<1>1. AccessInit => AccessInv
    BY AccessInitHolds
<1>2. AccessInv /\ [AccessNext]_accessVars => AccessInv'
    BY AccessNextKeeps
<1>3. QED  BY <1>1, <1>2, PTL DEF AccessSpec

\* Whom PVE shows the box may enter for the credential's time and no longer, nobody is
\* refused before, and every request gives its slot back.
LEMMA AccessTold ==
    AccessInv => /\ AccessTypeOK
                 /\ IssuersCounted /\ EntryFollowsVisibility /\ RefusedForReason /\ CheckMeansKey
<1> SUFFICES ASSUME AccessInv
             PROVE  AccessTypeOK /\ CheckMeansKey
    BY DEF AccessInv
<1>1. AccessTypeOK
    <2>1. freeSlots \in 0..IssueSlots
        <3>1. freeSlots \in Nat
            BY DEF AccessInv, AccessShape
        <3>2. Cardinality(Issuers) \in Nat /\ freeSlots + Cardinality(Issuers) = IssueSlots
            BY IssuersFinite DEF AccessInv, IssuersCounted, Issuers
        <3>3. QED  BY <3>1, <3>2, IssueSlotsAssumption
    <2>2. \A c \in Visitors : visit[c].pending \in 0..1 /\ visit[c].token.expires \in Int
        BY DEF AccessInv, AccessShape, VisitStates, AccessTokens, Pendings
    <2>3. QED  BY <2>1, <2>2, BoundsAssumption DEF AccessInv, AccessShape, AccessTypeOK
<1>2. CheckMeansKey
    BY DEF AccessInv, ConfirmedByKey, RefusedForReason, CheckMeansKey
<1>3. QED  BY <1>1, <1>2

-----------------------------------------------------------------------------
(***************************************************************************)
(* The recipe checkout                                                     *)
(***************************************************************************)

EarlyStages == {"idle", "lock", "takeover", "held", "sync", "clones", "checks_out", "marks", "discovers"}
Working == {"sync", "clones", "checks_out", "marks", "discovers", "applies"}
CacheStages == EarlyStages \cup Working \cup {"done", "refused", "killed"}
CallStates ==
    [at : CacheStages, kind : {"apply", "sync", "list"}, tries : Nat, robbed : BOOLEAN,
     rev : Revs, ran : SUBSET Revs]
Caches ==
    [tree : {"absent", "good", "broken"}, head : Revs, fetched : Revs, marked : Revs,
     fresh : BOOLEAN]

CacheShape ==
    /\ tip \in Revs /\ kills \in 0 .. MaxKills
    /\ cache \in Caches /\ autoSync \in BOOLEAN
    /\ lockfile \in RecipeCalls \cup {NoCall}
    /\ cacheCall \in [RecipeCalls -> CallStates]

\* Ansible has read nothing for a call that has not come to its application.
RanLater == \A c \in RecipeCalls : Stands(c, EarlyStages) => cacheCall[c].ran = {}

\* As long as no live lock file was renamed away: who works has the lock and the lock
\* belongs to one who works or was killed, an application has the checkout it found,
\* and read no other.
NoneRobbed == \A c \in RecipeCalls : ~cacheCall[c].robbed
LockKept ==
    \A c \in RecipeCalls :
        /\ Stands(c, Working) => lockfile = c
        /\ lockfile = c => Stands(c, Working \cup {"killed"})
CheckoutKept ==
    \A c \in RecipeCalls :
        /\ Stands(c, {"applies"}) => cache.tree = "good" /\ cache.head = cacheCall[c].rev
        /\ cacheCall[c].ran \subseteq {cacheCall[c].rev}

CacheInv == CacheShape /\ RanLater /\ (NoneRobbed => LockKept /\ CheckoutKept)

\* One call takes a step.
CallBecomes(c, at, rev, read) ==
    /\ cacheCall' \in [RecipeCalls -> CallStates]
    /\ \A d \in RecipeCalls : d # c => cacheCall'[d] = cacheCall[d]
    /\ cacheCall'[c].robbed <=> cacheCall[c].robbed
    /\ cacheCall'[c].at = at
    /\ cacheCall'[c].rev = rev
    /\ cacheCall'[c].ran = read

LEMMA CallMoves ==
    ASSUME CacheShape, NEW c \in RecipeCalls, NEW at \in CacheStages, To(c, at)
    PROVE  CallBecomes(c, at, cacheCall[c].rev, cacheCall[c].ran)
BY DEF CacheShape, To, CallBecomes, CallStates

\* What the step of a call has to respect.
LEMMA CallKeeps ==
    ASSUME CacheInv, NEW c \in RecipeCalls, NEW at, NEW rev, NEW read,
           CallBecomes(c, at, rev, read),
           tip' = tip, autoSync' = autoSync, kills' \in 0 .. MaxKills, cache' \in Caches,
           lockfile' \in {lockfile, c, NoCall},
           at \in EarlyStages => read = {},
           NoneRobbed =>
               /\ read \subseteq {rev}
               /\ at \in Working => lockfile' = c
               /\ lockfile' = c => at \in Working \cup {"killed"}
               /\ at = "applies" => cache'.tree = "good" /\ cache'.head = rev
               /\ \A d \in RecipeCalls : d # c /\ Stands(d, Working) =>
                      lockfile' = lockfile /\ cache'.tree = cache.tree /\ cache'.head = cache.head
    PROVE  CacheInv'
<1>1. NoCall \notin RecipeCalls
    BY RecipeCacheAssumption
<1>2. CacheShape'
    BY DEF CacheInv, CacheShape, CallBecomes
<1>3. RanLater'
    BY DEF CacheInv, RanLater, CallBecomes, Stands
<1>4. ASSUME NoneRobbed'
      PROVE  NoneRobbed
    BY <1>4 DEF NoneRobbed, CallBecomes
<1>5. ASSUME NoneRobbed
      PROVE  LockKept'
    <2>1. LockKept
        BY <1>5 DEF CacheInv
    <2>2. ASSUME NEW d \in RecipeCalls, Stands(d, Working)'
          PROVE  lockfile' = d
        <3>1. CASE d = c
            BY <1>5, <2>2, <3>1 DEF CallBecomes, Stands
        <3>2. CASE d # c
            <4>1. Stands(d, Working)
                BY <2>2, <3>2 DEF CallBecomes, Stands
            <4>2. QED  BY <1>5, <2>1, <3>2, <4>1 DEF LockKept
        <3>3. QED  BY <3>1, <3>2
    <2>3. ASSUME NEW d \in RecipeCalls, lockfile' = d
          PROVE  Stands(d, Working \cup {"killed"})'
        <3>1. CASE d = c
            BY <1>5, <2>3, <3>1 DEF CallBecomes, Stands
        <3>2. CASE d # c
            <4>1. lockfile = d
                BY <1>1, <2>3, <3>2
            <4>2. QED  BY <2>1, <3>2, <4>1 DEF LockKept, CallBecomes, Stands
        <3>3. QED  BY <3>1, <3>2
    <2>4. QED  BY <2>2, <2>3 DEF LockKept
<1>6. ASSUME NoneRobbed
      PROVE  CheckoutKept'
    <2>1. CheckoutKept
        BY <1>6 DEF CacheInv
    <2>2. ASSUME NEW d \in RecipeCalls, d # c
          PROVE  /\ Stands(d, {"applies"})' =>
                        cache'.tree = "good" /\ cache'.head = cacheCall'[d].rev
                 /\ cacheCall'[d].ran \subseteq {cacheCall'[d].rev}
        <3>1. cacheCall'[d] = cacheCall[d]
            BY <2>2 DEF CallBecomes
        <3>2. Stands(d, {"applies"}) => Stands(d, Working)
            BY DEF Stands, Working
        <3>3. QED  BY <1>6, <2>1, <2>2, <3>1, <3>2 DEF CheckoutKept, Stands
    <2>3. /\ Stands(c, {"applies"})' => cache'.tree = "good" /\ cache'.head = cacheCall'[c].rev
          /\ cacheCall'[c].ran \subseteq {cacheCall'[c].rev}
        BY <1>6 DEF CallBecomes, Stands
    <2>4. QED  BY <2>2, <2>3 DEF CheckoutKept
<1>7. QED  BY <1>2, <1>3, <1>4, <1>5, <1>6 DEF CacheInv

\* A call takes the lock, or cannot.
LEMMA LocksKeeps ==
    ASSUME CacheInv, NEW c \in RecipeCalls, Locks(c)
    PROVE  CacheInv'
<1>1. CacheShape /\ NoCall \notin RecipeCalls
    BY RecipeCacheAssumption DEF CacheInv
<1>2. cacheCall[c].ran = {} /\ ~Stands(c, Working) /\ ~Stands(c, Working \cup {"killed"})
    BY DEF CacheInv, RanLater, Locks, Stands, EarlyStages, Working
<1>3. NoneRobbed => lockfile # c
    BY <1>2 DEF CacheInv, LockKept
<1>4. UNCHANGED <<tip, cache, autoSync, kills>> /\ cache \in Caches /\ kills \in 0 .. MaxKills
    BY <1>1 DEF Locks, fixed, CacheShape
<1>5. CASE lockfile = NoCall /\ lockfile' = c
           /\ cacheCall' = [cacheCall EXCEPT ![c].at = "sync", ![c].tries = 0]
    <2>1. "sync" \in CacheStages /\ "sync" \in Working
        BY DEF CacheStages, Working
    <2>2. CallBecomes(c, "sync", cacheCall[c].rev, cacheCall[c].ran)
        BY <1>1, <1>5, <2>1 DEF CacheShape, CallBecomes, CallStates
    <2>3. NoneRobbed => \A d \in RecipeCalls : ~Stands(d, Working)
        BY <1>1, <1>5 DEF CacheInv, LockKept
    <2>4. QED  BY <1>1, <1>2, <1>4, <1>5, <2>1, <2>2, <2>3, CallKeeps
<1>6. ASSUME NEW at \in {"held", "takeover"}, To(c, at), UNCHANGED lockfile
      PROVE  CacheInv'
    <2>1. at \in CacheStages /\ at \notin Working
        BY <1>6 DEF CacheStages, EarlyStages, Working
    <2>2. CallBecomes(c, at, cacheCall[c].rev, cacheCall[c].ran)
        BY <1>1, <1>6, <2>1, CallMoves
    <2>3. at # "applies"
        BY <1>6
    <2>4. QED  BY <1>2, <1>3, <1>4, <1>6, <2>1, <2>2, <2>3, CallKeeps
<1>7. QED  BY <1>5, <1>6 DEF Locks, To

\* A stale lock file is renamed away; so may be a live one, whose owner is robbed.
LEMMA TakesOverKeeps ==
    ASSUME CacheInv, NEW c \in RecipeCalls, TakesOver(c)
    PROVE  CacheInv'
<1>1. CacheShape /\ NoCall \notin RecipeCalls
    BY RecipeCacheAssumption DEF CacheInv
<1>2. /\ UNCHANGED <<tip, cache, autoSync, kills>> /\ lockfile' = NoCall
      /\ cacheCall[c].at = "takeover"
    BY DEF TakesOver, fixed, Stands
<1>3. /\ cacheCall'[c] \in CallStates /\ cacheCall'[c].at \in {"lock", "held"}
      /\ cacheCall'[c].ran = cacheCall[c].ran
    <2>1. CASE cacheCall[c].tries = 0
        <3>1. cacheCall'[c] = [cacheCall[c] EXCEPT !.tries = 1, !.at = "lock"]
            BY <2>1 DEF TakesOver
        <3>2. "lock" \in CacheStages /\ 1 \in Nat /\ cacheCall[c] \in CallStates
            BY <1>1 DEF CacheStages, EarlyStages, CacheShape
        <3>3. QED  BY <3>1, <3>2 DEF CallStates
    <2>2. CASE cacheCall[c].tries # 0
        <3>1. cacheCall'[c] = [cacheCall[c] EXCEPT !.at = "held"]
            BY <2>2 DEF TakesOver
        <3>2. "held" \in CacheStages
            BY DEF CacheStages, EarlyStages
        <3>3. QED  BY <1>1, <3>1, <3>2 DEF CacheShape, CallStates
    <2>3. QED  BY <2>1, <2>2
<1>4. ASSUME NEW d \in RecipeCalls, d # c
      PROVE  /\ cacheCall'[d] \in CallStates /\ cacheCall'[d].at = cacheCall[d].at
             /\ cacheCall'[d].ran = cacheCall[d].ran
             /\ d = lockfile /\ ~Stands(d, {"killed"}) => cacheCall'[d].robbed
             /\ ~(d = lockfile /\ ~Stands(d, {"killed"})) => cacheCall'[d] = cacheCall[d]
    <2>1. CASE d = lockfile /\ ~Stands(d, {"killed"})
        <3>1. cacheCall'[d] = [cacheCall[d] EXCEPT !.robbed = TRUE]
            BY <1>4, <2>1 DEF TakesOver
        <3>2. cacheCall[d] \in CallStates /\ TRUE \in BOOLEAN
            BY <1>1 DEF CacheShape
        <3>3. /\ cacheCall'[d] \in CallStates /\ cacheCall'[d].at = cacheCall[d].at
              /\ cacheCall'[d].ran = cacheCall[d].ran /\ cacheCall'[d].robbed
            BY <3>1, <3>2 DEF CallStates
        <3>4. QED  BY <2>1, <3>3
    <2>2. CASE ~(d = lockfile /\ ~Stands(d, {"killed"}))
        <3>1. cacheCall'[d] = cacheCall[d]
            BY <1>4, <2>2 DEF TakesOver
        <3>2. QED  BY <1>1, <2>2, <3>1 DEF CacheShape
    <2>3. QED  BY <2>1, <2>2
<1>5. cacheCall' \in [RecipeCalls -> CallStates]
    <2>1. cacheCall' = [d \in RecipeCalls |-> cacheCall'[d]]
        BY DEF TakesOver
    <2>2. QED  BY <1>3, <1>4, <2>1
<1>6. CacheShape'
    BY <1>1, <1>2, <1>5 DEF CacheShape
<1>7. RanLater'
    BY <1>2, <1>3, <1>4 DEF CacheInv, RanLater, Stands, EarlyStages
<1>8. ASSUME NoneRobbed'
      PROVE  LockKept' /\ CheckoutKept'
    <2>1. \A d \in RecipeCalls : d # c =>
              cacheCall'[d] = cacheCall[d] /\ ~(d = lockfile /\ ~Stands(d, {"killed"}))
        BY <1>4, <1>8 DEF NoneRobbed
    <2>2. cacheCall'[c].robbed <=> cacheCall[c].robbed
        <3>1. CASE cacheCall[c].tries = 0
            BY <1>1, <3>1 DEF TakesOver, CacheShape, CallStates
        <3>2. CASE cacheCall[c].tries # 0
            BY <1>1, <3>2 DEF TakesOver, CacheShape, CallStates
        <3>3. QED  BY <3>1, <3>2
    <2>3. NoneRobbed
        BY <1>8, <2>1, <2>2 DEF NoneRobbed
    <2>4. LockKept /\ CheckoutKept
        BY <2>3 DEF CacheInv
    <2>5. \A d \in RecipeCalls : ~Stands(d, Working)'
        <3>1. ~Stands(c, Working)'
            BY <1>3 DEF Stands, Working
        <3>2. ASSUME NEW d \in RecipeCalls, d # c, Stands(d, Working)
              PROVE  FALSE
            <4>1. d = lockfile
                BY <2>4, <3>2 DEF LockKept
            <4>2. ~Stands(d, {"killed"})
                BY <3>2 DEF Stands, Working
            <4>3. QED  BY <2>1, <3>2, <4>1, <4>2
        <3>3. QED  BY <2>1, <3>1, <3>2 DEF Stands
    <2>6. LockKept'
        BY <1>1, <1>2, <2>5 DEF LockKept
    <2>7. \A d \in RecipeCalls : cacheCall'[d].ran \subseteq {cacheCall'[d].rev}
        <3>1. cacheCall[c].ran = {}
            BY <1>2 DEF CacheInv, RanLater, Stands, EarlyStages
        <3>2. QED  BY <1>3, <2>1, <2>4, <3>1 DEF CheckoutKept
    <2>8. CheckoutKept'
        BY <2>5, <2>7 DEF CheckoutKept, Stands, Working
    <2>9. QED  BY <2>6, <2>8
<1>9. QED  BY <1>6, <1>7, <1>8 DEF CacheInv

\* Who works is alone with the checkout.
LEMMA WorksAlone ==
    ASSUME CacheInv, NoneRobbed, NEW c \in RecipeCalls, Stands(c, Working)
    PROVE  lockfile = c /\ \A d \in RecipeCalls : d # c => ~Stands(d, Working)
BY DEF CacheInv, LockKept

LEMMA SyncKeeps ==
    ASSUME CacheInv, NEW c \in RecipeCalls,
           SyncBegins(c) \/ CheckoutBegins(c) \/ CheckoutEnds(c) \/ Marks(c)
    PROVE  CacheInv'
<1>1. CacheShape /\ Stands(c, Working) /\ cacheCall[c].ran = {}
    BY DEF CacheInv, RanLater, SyncBegins, CheckoutBegins, CheckoutEnds, Marks, Stands, EarlyStages,
       Working
<1>2. UNCHANGED <<tip, lockfile, autoSync, kills>> /\ kills \in 0 .. MaxKills
    BY <1>1 DEF SyncBegins, CheckoutBegins, CheckoutEnds, Marks, fixed, CacheShape
<1>3. cache' \in Caches
    BY <1>1 DEF SyncBegins, CheckoutBegins, CheckoutEnds, Marks, Caches, CacheShape
<1>4. PICK at \in {"discovers", "clones", "checks_out", "marks"} : To(c, at)
    BY DEF SyncBegins, CheckoutBegins, CheckoutEnds, Marks
<1>5. at \in CacheStages /\ at \in Working /\ at # "applies"
    BY <1>4 DEF CacheStages, Working
<1>6. CallBecomes(c, at, cacheCall[c].rev, cacheCall[c].ran)
    BY <1>1, <1>4, <1>5, CallMoves
<1>7. QED  BY <1>1, <1>2, <1>3, <1>5, <1>6, WorksAlone, CallKeeps

LEMMA ReleasesKeeps ==
    ASSUME CacheInv, NEW c \in RecipeCalls, Stands(c, Working), NEW at \in {"done", "refused"},
           Releases(c, at), UNCHANGED <<tip, cache, fixed>>
    PROVE  CacheInv'
<1>1. CacheShape /\ NoCall \notin RecipeCalls /\ RanLater
    BY RecipeCacheAssumption DEF CacheInv
<1>2. at \in CacheStages /\ at \notin Working /\ at \notin EarlyStages /\ at # "applies"
    BY DEF CacheStages, Working, EarlyStages
<1>3. CallBecomes(c, at, cacheCall[c].rev, cacheCall[c].ran)
    BY <1>1, <1>2, CallMoves DEF Releases
<1>4. UNCHANGED <<tip, cache, autoSync, kills>> /\ lockfile' = NoCall
      /\ cache \in Caches /\ kills \in 0 .. MaxKills
    BY <1>1 DEF fixed, Releases, CacheShape
<1>5. NoneRobbed => cacheCall[c].ran \subseteq {cacheCall[c].rev}
    BY DEF CacheInv, CheckoutKept
<1>6. QED  BY <1>1, <1>2, <1>3, <1>4, <1>5, WorksAlone, CallKeeps

LEMMA DiscoversKeeps ==
    ASSUME CacheInv, NEW c \in RecipeCalls, Discovers(c)
    PROVE  CacheInv'
<1>1. CacheShape /\ Stands(c, Working) /\ cacheCall[c].ran = {}
    BY DEF CacheInv, RanLater, Discovers, Stands, EarlyStages, Working
<1>2. CASE cacheCall[c].kind = "apply"
    <2>1. /\ cacheCall' = [cacheCall EXCEPT ![c].rev = cache.head, ![c].at = "applies"]
          /\ UNCHANGED <<tip, cache, lockfile, autoSync, kills>>
          /\ cache.tree = "good"
        BY <1>2 DEF Discovers, fixed
    <2>2. cache \in Caches /\ cache.head \in Revs /\ kills \in 0 .. MaxKills
        BY <1>1 DEF CacheShape, Caches
    <2>3. "applies" \in CacheStages /\ "applies" \in Working /\ "applies" \notin EarlyStages
        BY DEF CacheStages, Working, EarlyStages
    <2>4. CallBecomes(c, "applies", cache.head, cacheCall[c].ran)
        BY <1>1, <2>1, <2>2, <2>3 DEF CacheShape, CallBecomes, CallStates
    <2>5. QED  BY <1>1, <2>1, <2>2, <2>3, <2>4, WorksAlone, CallKeeps
<1>3. CASE cacheCall[c].kind # "apply"
    BY <1>1, <1>3, ReleasesKeeps DEF Discovers
<1>4. QED  BY <1>2, <1>3

LEMMA AnsibleReadsKeeps ==
    ASSUME CacheInv, NEW c \in RecipeCalls, AnsibleReads(c)
    PROVE  CacheInv'
<1> DEFINE revision == IF cache.tree = "good" THEN cache.head ELSE 0
           read == cacheCall[c].ran \cup {revision}
<1>1. CacheShape /\ Stands(c, Working) /\ cacheCall[c].at = "applies"
    BY DEF CacheInv, AnsibleReads, Stands, Working
<1>2. /\ cacheCall' = [cacheCall EXCEPT ![c].ran = read]
      /\ UNCHANGED <<tip, cache, lockfile, autoSync, kills>>
      /\ cache \in Caches /\ kills \in 0 .. MaxKills
    BY <1>1 DEF AnsibleReads, fixed, CacheShape
<1>3. revision \in Revs
    BY <1>1, RecipeCacheAssumption DEF CacheShape, Caches, Revs
<1>4. NoneRobbed => /\ cache.tree = "good" /\ cache.head = cacheCall[c].rev
                    /\ read \subseteq {cacheCall[c].rev}
    BY <1>1 DEF CacheInv, CheckoutKept, Stands
<1> HIDE DEF revision
<1>5. read \subseteq Revs
    BY <1>1, <1>3 DEF CacheShape, CallStates
<1> HIDE DEF read
<1>6. CallBecomes(c, "applies", cacheCall[c].rev, read)
    BY <1>1, <1>2, <1>5 DEF CacheShape, CallBecomes, CallStates
<1>7. "applies" \notin EarlyStages /\ "applies" \in Working
    BY DEF EarlyStages, Working
<1>8. QED  BY <1>1, <1>2, <1>4, <1>6, <1>7, WorksAlone, CallKeeps

LEMMA CallKilledKeeps ==
    ASSUME CacheInv, NEW c \in RecipeCalls, CallKilled(c)
    PROVE  CacheInv'
<1>1. CacheShape
    BY DEF CacheInv
<1>2. "killed" \in CacheStages /\ "killed" \notin Working /\ "killed" \notin EarlyStages
    BY DEF CacheStages, Working, EarlyStages
<1>3. CallBecomes(c, "killed", cacheCall[c].rev, cacheCall[c].ran)
    BY <1>1, <1>2, CallMoves DEF CallKilled
<1>4. UNCHANGED <<tip, cache, lockfile, autoSync>> /\ cache \in Caches /\ kills' \in 0 .. MaxKills
    BY <1>1, RecipeCacheAssumption DEF CallKilled, CacheShape
<1>5. NoneRobbed => cacheCall[c].ran \subseteq {cacheCall[c].rev}
    BY DEF CacheInv, CheckoutKept
<1>6. QED  BY <1>2, <1>3, <1>4, <1>5, CallKeeps

LEMMA UpstreamKeeps ==
    ASSUME CacheInv, UpstreamMoves \/ TtlEnds \/ UserRemovesCache \/ UNCHANGED cacheVars
    PROVE  CacheInv'
<1>1. CacheShape
    BY DEF CacheInv
<1>2. UNCHANGED <<lockfile, cacheCall, autoSync, kills>>
    BY DEF UpstreamMoves, TtlEnds, UserRemovesCache, cacheVars, fixed
<1>3. tip' \in Revs
    BY <1>1, RecipeCacheAssumption
    DEF UpstreamMoves, TtlEnds, UserRemovesCache, cacheVars, CacheShape, Revs
<1>4. cache' \in Caches
    <2>1. 0 \in Revs
        BY RecipeCacheAssumption DEF Revs
    <2>2. CASE UNCHANGED cache
        BY <1>1, <2>2 DEF CacheShape
    <2>3. CASE TtlEnds
        BY <1>1, <2>3 DEF TtlEnds, CacheShape, Caches
    <2>4. CASE cache' = Absent
        BY <2>1, <2>4 DEF Caches, Absent
    <2>5. QED  BY <2>2, <2>3, <2>4 DEF UpstreamMoves, UserRemovesCache, cacheVars
<1>5. CacheShape' /\ RanLater'
    BY <1>1, <1>2, <1>3, <1>4 DEF CacheShape, CacheInv, RanLater, Stands
<1>6. ASSUME NoneRobbed'
      PROVE  LockKept' /\ CheckoutKept'
    <2>1. NoneRobbed /\ LockKept /\ CheckoutKept
        BY <1>2, <1>6 DEF NoneRobbed, CacheInv
    <2>2. LockKept'
        BY <1>2, <2>1 DEF LockKept, Stands
    <2>3. \/ cache'.tree = cache.tree /\ cache'.head = cache.head
          \/ lockfile = NoCall
        BY <1>1 DEF UpstreamMoves, TtlEnds, UserRemovesCache, cacheVars, CacheShape, Caches
    <2>4. lockfile = NoCall => \A c \in RecipeCalls : ~Stands(c, {"applies"})
        BY <2>1, RecipeCacheAssumption DEF LockKept, Stands, Working
    <2>5. CheckoutKept'
        BY <1>2, <2>1, <2>3, <2>4 DEF CheckoutKept, Stands
    <2>6. QED  BY <2>2, <2>5
<1>7. QED  BY <1>5, <1>6 DEF CacheInv

LEMMA CacheNextKeeps == CacheInv /\ [CacheNext]_cacheVars => CacheInv'
<1> SUFFICES ASSUME CacheInv, [CacheNext]_cacheVars
             PROVE  CacheInv'
    OBVIOUS
<1>1. ASSUME NEW c \in RecipeCalls, Refused(c) \/ ApplyReturns(c)
      PROVE  CacheInv'
    <2>1. Stands(c, Working)
        BY <1>1 DEF Refused, ApplyReturns, Stands, Working
    <2>2. QED  BY <1>1, <2>1, ReleasesKeeps DEF Refused, ApplyReturns
<1>2. QED
    BY <1>1, LocksKeeps, TakesOverKeeps, SyncKeeps, DiscoversKeeps, AnsibleReadsKeeps,
       CallKilledKeeps, UpstreamKeeps DEF CacheNext

LEMMA CacheInitHolds == CacheInit => CacheInv
<1> SUFFICES ASSUME CacheInit
             PROVE  CacheInv
    OBVIOUS
<1> USE DEF CacheInit
<1>1. 0 \in Revs /\ 1 \in Revs /\ 0 \in 0 .. MaxKills
    BY RecipeCacheAssumption DEF Revs
<1>2. cache \in Caches
    <2>1. Absent \in Caches
        BY <1>1 DEF Caches, Absent
    <2>2. cache # Absent => cache \in Caches
        BY <1>1 DEF Caches
    <2>3. QED  BY <2>1, <2>2
<1>3. "idle" \in CacheStages /\ "idle" \notin Working
    BY DEF CacheStages, EarlyStages, Working
<1>4. cacheCall \in [RecipeCalls -> CallStates]
    <2>1. {} \in SUBSET Revs /\ 0 \in Nat /\ FALSE \in BOOLEAN
        OBVIOUS
    <2>2. [at : {"idle"}, kind : {"apply", "sync", "list"}, tries : {0}, robbed : {FALSE},
           rev : {0}, ran : {{}}] \subseteq CallStates
        BY <1>1, <1>3, <2>1 DEF CallStates
    <2>3. QED  BY <2>2
<1>5. \A c \in RecipeCalls : cacheCall[c].at = "idle" /\ cacheCall[c].ran = {}
    OBVIOUS
<1>6. QED
    BY <1>1, <1>2, <1>3, <1>4, <1>5, RecipeCacheAssumption
    DEF CacheInv, CacheShape, RanLater, LockKept, CheckoutKept, Stands

\* The invariant of the recipe checkout.
THEOREM CacheInvariant == CacheSpec => []CacheInv
<1>1. CacheInit => CacheInv
    BY CacheInitHolds
<1>2. CacheInv /\ [CacheNext]_cacheVars => CacheInv'
    BY CacheNextKeeps
<1>3. QED  BY <1>1, <1>2, PTL DEF CacheSpec

\* Ansible read the revision that is recorded, from a whole checkout, unless a live lock
\* file was renamed away.
LEMMA CacheTold == CacheInv => CheckoutApplied /\ CacheTypeOK
BY DEF CacheInv, CheckoutKept, NoneRobbed, CheckoutApplied, CacheTypeOK, CacheShape, CallStates,
   Caches, CacheStages, EarlyStages, Working, Stands

-----------------------------------------------------------------------------
(***************************************************************************)
(* Applications of recipes                                                 *)
(***************************************************************************)

RunStages ==
    {"finds_box", "plays", "stops", "recovers", "removes", "records", "writes", "done", "killed"}
Records ==
    [id : [of : SUBSET Applications, number : 0 .. RecipeCount], by : Applications,
     result : {"success", "failed"}]
RunStates ==
    [at : RunStages, tries : Nat, outcome : {"none", "applied", "failed"}, done : Nat,
     base : SUBSET Records, current : BOOLEAN, told : BOOLEAN,
     result : {"none", "applied", "failed"}, broken : BOOLEAN]

ApplyShape ==
    /\ run \in [Applications -> RunStates]
    /\ asked \subseteq Applications /\ checkpoints \subseteq Applications
    /\ metadata \subseteq Records
    /\ settings \in [policy : {"never", "auto", "always"}, rollback : BOOLEAN, able : BOOLEAN,
                    shared : BOOLEAN]
    /\ breaks \in 0 .. MaxBreaks

\* How far an application is: what its stage says of its outcome, of the recipes it has
\* recorded and of its attempts.
ProgressSound(c) ==
    /\ In(c, {"finds_box", "plays"}) => run[c].outcome = "none"
    /\ In(c, {"stops", "removes", "records", "writes", "done"}) => run[c].outcome # "none"
    /\ In(c, {"recovers"}) => run[c].outcome = "failed"
    /\ run[c].outcome # "applied" => run[c].done = 0
    /\ In(c, {"stops"}) => run[c].done = 0
    /\ In(c, {"records", "writes"}) => run[c].done < RecipeCount
    /\ In(c, {"removes"}) /\ run[c].outcome = "applied" => run[c].done = RecipeCount
    /\ run[c].done <= RecipeCount
    /\ run[c].tries <= 3
    /\ In(c, {"writes"}) => run[c].tries < 3

\* What it has recorded stays noted, and the update that PVE would take starts from all
\* that is there.
RecordSound(c) ==
    /\ \A i \in 1 .. run[c].done : Noted(c, i)
    /\ In(c, {"writes"}) /\ run[c].current => run[c].base = metadata
    /\ run[c].result = "applied" =>
           In(c, {"done"}) /\ run[c].done = RecipeCount /\ c \notin checkpoints

\* Its checkpoint is named before the end, or will still be removed or named.
CheckpointSound(c) ==
    /\ In(c, {"finds_box"}) => c \notin checkpoints
    /\ c \in checkpoints /\ run[c].outcome = "failed" /\ In(c, {"records", "writes", "done"}) =>
           run[c].told
    /\ c \in checkpoints /\ run[c].outcome = "applied" /\ In(c, {"done"}) =>
           run[c].told \/ run[c].done + 1 < RecipeCount

BridgeSound(c) ==
    c \in asked => In(c, {"plays", "stops", "killed"}) \/ (run[c].broken /\ run[c].outcome = "failed")

RunSound(c) == ProgressSound(c) /\ RecordSound(c) /\ CheckpointSound(c) /\ BridgeSound(c)

ApplyInv == ApplyShape /\ \A c \in Applications : RunSound(c)

\* The state of one application, and what becomes of it.
RunBecomes(c, at, tries, outcome, done, told, result) ==
    /\ run' \in [Applications -> RunStates]
    /\ run'[c].at = at
    /\ run'[c].tries = tries
    /\ run'[c].outcome = outcome
    /\ run'[c].done = done
    /\ run'[c].told <=> told
    /\ run'[c].result = result
    /\ run[c].broken => run'[c].broken

\* What the others have is left alone, but for the digests that a write outdates and the
\* records that one of the same id replaces.
RestStays(c) ==
    /\ \A d \in Applications : \A i \in Nat : d # c /\ Noted(d, i) => Noted(d, i)'
    /\ \A d \in Applications : d # c =>
          /\ run'[d].at = run[d].at
          /\ run'[d].tries = run[d].tries
          /\ run'[d].outcome = run[d].outcome
          /\ run'[d].done = run[d].done
          /\ run'[d].base = run[d].base
          /\ run'[d].told <=> run[d].told
          /\ run'[d].result = run[d].result
          /\ run[d].broken => run'[d].broken
          /\ run'[d].current => run[d].current /\ metadata' = metadata
          /\ d \in asked' <=> d \in asked
          /\ d \in checkpoints' <=> d \in checkpoints

LEMMA NotedStays ==
    ASSUME UNCHANGED <<metadata, settings>>, NEW d \in Applications, NEW i \in Nat
    PROVE  Noted(d, i)' <=> Noted(d, i)
BY DEF Noted, Id

LEMMA RestKeeps ==
    ASSUME ApplyInv, NEW c \in Applications, ApplyShape', RestStays(c), RunSound(c)'
    PROVE  ApplyInv'
<1>1. ASSUME NEW d \in Applications, d # c
      PROVE  RunSound(d)'
    <2>1. RunSound(d)
        BY DEF ApplyInv
    <2>2. ProgressSound(d)'
        BY <1>1, <2>1 DEF RunSound, ProgressSound, RestStays, In
    <2>3. RecordSound(d)'
        <3>1. ASSUME NEW i \in 1 .. run'[d].done
              PROVE  Noted(d, i)'
            <4>1. Noted(d, i) /\ i \in Nat
                BY <1>1, <2>1, <3>1 DEF RunSound, RecordSound, RestStays
            <4>2. QED  BY <1>1, <4>1 DEF RestStays
        <3>2. /\ In(d, {"writes"})' /\ run'[d].current => run'[d].base = metadata'
              /\ run'[d].result = "applied" =>
                     In(d, {"done"})' /\ run'[d].done = RecipeCount /\ d \notin checkpoints'
            BY <1>1, <2>1 DEF RunSound, RecordSound, RestStays, In
        <3>3. QED  BY <3>1, <3>2 DEF RecordSound
    <2>4. CheckpointSound(d)' /\ BridgeSound(d)'
        BY <1>1, <2>1 DEF RunSound, CheckpointSound, BridgeSound, RestStays, In
    <2>5. QED  BY <2>2, <2>3, <2>4 DEF RunSound
<1>2. QED  BY <1>1 DEF ApplyInv

LEMMA ApplyTyped ==
    ASSUME ApplyInv, NEW c \in Applications
    PROVE  /\ ApplyShape /\ RunSound(c) /\ run[c] \in RunStates
           /\ run[c].done \in Nat /\ run[c].tries \in Nat
           /\ RecipeCount \in Nat /\ RecipeCount > 0
           /\ RunStages = {"finds_box", "plays", "stops", "recovers", "removes", "records",
                           "writes", "done", "killed"}
BY RecipeApplyAssumption DEF ApplyInv, ApplyShape, RunStates, RunStages

\* The checkpoint before the first play.
LEMMA CheckpointKeeps ==
    ASSUME ApplyInv, NEW c \in Applications,
           WithoutCheckpoint(c) \/ TakesCheckpoint(c) \/ CheckpointFails(c)
    PROVE  ApplyInv'
<1>1. /\ ApplyShape /\ RunSound(c) /\ run[c] \in RunStates
      /\ run[c].done \in Nat /\ run[c].tries \in Nat
      /\ RecipeCount \in Nat /\ RecipeCount > 0
    BY ApplyTyped
<1>2. run[c].at = "finds_box" /\ UNCHANGED <<asked, metadata, settings, breaks>>
    BY DEF WithoutCheckpoint, TakesCheckpoint, CheckpointFails, In
<1>3. /\ checkpoints' = checkpoints \/ checkpoints' = checkpoints \cup {c}
      /\ \A d \in Applications : d # c => run'[d] = run[d] /\ (d \in checkpoints' <=> d \in checkpoints)
    BY <1>1 DEF ApplyShape, WithoutCheckpoint, TakesCheckpoint, CheckpointFails, Puts
<1>4. \/ RunBecomes(c, "plays", run[c].tries, run[c].outcome, run[c].done, run[c].told, run[c].result)
      \/ /\ RunBecomes(c, "records", run[c].tries, "failed", run[c].done, c \in checkpoints', run[c].result)
    <2>1. c \notin checkpoints
        BY <1>1, <1>2 DEF RunSound, CheckpointSound, In
    <2>2. CASE WithoutCheckpoint(c) \/ TakesCheckpoint(c)
        BY <1>1, <2>2, ApplyTyped
        DEF ApplyShape, WithoutCheckpoint, TakesCheckpoint, Puts, RunBecomes, RunStates
    <2>3. CASE CheckpointFails(c)
        <3>1. PICK left \in {{}, {c}} :
                  /\ checkpoints' = checkpoints \cup left
                  /\ run' = [run EXCEPT ![c].at = "records", ![c].outcome = "failed",
                                        ![c].told = left # {}]
            BY <2>3 DEF CheckpointFails
        <3>2. PICK told \in BOOLEAN : told <=> left # {}
            OBVIOUS
        <3>3. run' = [run EXCEPT ![c].at = "records", ![c].outcome = "failed", ![c].told = told]
            BY <3>1, <3>2
        <3>4. RunBecomes(c, "records", run[c].tries, "failed", run[c].done, told, run[c].result)
            BY <1>1, <3>3, ApplyTyped DEF ApplyShape, RunBecomes, RunStates
        <3>5. told <=> c \in checkpoints'
            BY <2>1, <3>1, <3>2
        <3>6. QED  BY <3>4, <3>5 DEF RunBecomes
    <2>4. QED  BY <2>2, <2>3
<1>5. ApplyShape'
    BY <1>1, <1>2, <1>3, <1>4 DEF ApplyShape, RunBecomes
<1>6. RestStays(c)
    BY <1>2, <1>3, NotedStays DEF RestStays
<1>7. RunSound(c)'
    BY <1>1, <1>2, <1>3, <1>4, NotedStays
    DEF RunSound, ProgressSound, RecordSound, CheckpointSound, BridgeSound, In, RunBecomes
<1>8. QED  BY <1>5, <1>6, <1>7, RestKeeps

\* The plays, and the bridge that serves them.
LEMMA PlaysKeeps ==
    ASSUME ApplyInv, NEW c \in Applications,
           \/ TaskAsked(c) \/ TaskRun(c) \/ AnsibleExits(c)
           \/ BridgeBreaks(c) \/ BridgeStopped(c) \/ RunKilled(c)
    PROVE  ApplyInv'
<1>1. /\ ApplyShape /\ RunSound(c) /\ run[c] \in RunStates
      /\ run[c].done \in Nat /\ run[c].tries \in Nat
      /\ RecipeCount \in Nat /\ RecipeCount > 0
    BY ApplyTyped
<1>2. UNCHANGED <<checkpoints, metadata, settings>> /\ breaks' \in 0 .. MaxBreaks
    BY <1>1, RecipeApplyAssumption
    DEF TaskAsked, TaskRun, AnsibleExits, BridgeBreaks, BridgeStopped, RunKilled, ApplyShape
<1>3. CASE TaskAsked(c) \/ TaskRun(c)
    <2>1. /\ UNCHANGED run /\ asked' \subseteq Applications
          /\ \A d \in Applications : d # c => (d \in asked' <=> d \in asked)
          /\ c \in asked' => c \in asked \/ In(c, {"plays"})
        BY <1>1, <1>3 DEF TaskAsked, TaskRun, ApplyShape
    <2>2. ApplyShape'
        BY <1>1, <1>2, <2>1 DEF ApplyShape
    <2>3. RestStays(c)
        BY <1>1, <1>2, <2>1, NotedStays DEF RestStays
    <2>4. RunSound(c)'
        BY <1>1, <1>2, <2>1, NotedStays
        DEF RunSound, ProgressSound, RecordSound, CheckpointSound, BridgeSound, In
    <2>5. QED  BY <2>2, <2>3, <2>4, RestKeeps
<1>4. ASSUME NEW at \in RunStages, NEW outcome \in {"none", "applied", "failed"},
             RunBecomes(c, at, run[c].tries, outcome, run[c].done, run[c].told, run[c].result),
             \A d \in Applications : d # c => run'[d] = run[d],
             UNCHANGED asked,
             \/ /\ In(c, {"plays"}) /\ at = "stops" /\ outcome \in {"applied", "failed"}
             \/ /\ In(c, {"plays", "stops"}) /\ at = run[c].at /\ outcome = run[c].outcome
             \/ /\ In(c, {"stops"}) /\ run[c].broken /\ at = "recovers" /\ outcome = "failed"
             \/ /\ In(c, {"stops"}) /\ c \notin asked /\ outcome = run[c].outcome
                /\ at = IF outcome = "applied" THEN "records" ELSE "recovers"
             \/ at = "killed" /\ outcome = run[c].outcome /\ ~In(c, {"done"})
      PROVE  ApplyInv'
    <2>1. ApplyShape'
        BY <1>1, <1>2, <1>4 DEF ApplyShape, RunBecomes
    <2>2. RestStays(c)
        BY <1>1, <1>2, <1>4, NotedStays DEF RestStays
    <2>3. ProgressSound(c)'
        BY <1>1, <1>2, <1>4 DEF RunSound, ProgressSound, In, RunBecomes
    <2>4. RecordSound(c)' /\ CheckpointSound(c)' /\ BridgeSound(c)'
        BY <1>1, <1>2, <1>4, NotedStays
        DEF RunSound, ProgressSound, RecordSound, CheckpointSound, BridgeSound, In, RunBecomes
    <2>5. QED  BY <2>1, <2>2, <2>3, <2>4, RestKeeps DEF RunSound
<1>5. CASE AnsibleExits(c)
    <2>1. PICK outcome \in {"applied", "failed"} :
              run' = [run EXCEPT ![c].at = "stops", ![c].outcome = outcome]
        BY <1>5 DEF AnsibleExits
    <2>2. RunBecomes(c, "stops", run[c].tries, outcome, run[c].done, run[c].told, run[c].result)
        BY <1>1, <2>1, ApplyTyped DEF ApplyShape, RunBecomes, RunStates
    <2>3. \A d \in Applications : d # c => run'[d] = run[d]
        BY <1>1, <2>1 DEF ApplyShape
    <2>4. UNCHANGED asked /\ In(c, {"plays"}) /\ "stops" \in RunStages
        BY <1>5 DEF AnsibleExits, RunStages
    <2>5. QED  BY <1>4, <2>2, <2>3, <2>4
<1>6. ASSUME NEW at \in {"records", "recovers", "killed"}, Puts(c, at)
      PROVE  /\ RunBecomes(c, at, run[c].tries, run[c].outcome, run[c].done, run[c].told, run[c].result)
             /\ \A d \in Applications : d # c => run'[d] = run[d]
             /\ run[c].outcome \in {"none", "applied", "failed"} /\ at \in RunStages
    BY <1>1, <1>6, ApplyTyped DEF ApplyShape, RunBecomes, RunStates, Puts
<1>7. CASE BridgeStopped(c) /\ ~run[c].broken
    <2> DEFINE at == IF run[c].outcome = "applied" THEN "records" ELSE "recovers"
    <2>1. Puts(c, at) /\ at \in {"records", "recovers"} /\ UNCHANGED asked
          /\ In(c, {"stops"}) /\ c \notin asked
        BY <1>7 DEF BridgeStopped
    <2>2. QED  BY <1>4, <1>6, <2>1
<1>8. CASE RunKilled(c)
    <2>1. Puts(c, "killed") /\ UNCHANGED asked /\ ~In(c, {"done"})
        BY <1>8 DEF RunKilled, In
    <2>2. QED  BY <1>4, <1>6, <2>1
<1>9. CASE BridgeStopped(c) /\ run[c].broken
    <2>1. /\ run' = [run EXCEPT ![c].at = "recovers", ![c].outcome = "failed"]
          /\ UNCHANGED asked /\ In(c, {"stops"})
        BY <1>9 DEF BridgeStopped
    <2>2. RunBecomes(c, "recovers", run[c].tries, "failed", run[c].done, run[c].told, run[c].result)
        BY <1>1, <2>1, ApplyTyped DEF ApplyShape, RunBecomes, RunStates
    <2>3. \A d \in Applications : d # c => run'[d] = run[d]
        BY <1>1, <2>1 DEF ApplyShape
    <2>4. "recovers" \in RunStages
        BY DEF RunStages
    <2>5. QED  BY <1>4, <1>9, <2>1, <2>2, <2>3, <2>4
<1>10. CASE BridgeBreaks(c)
    <2>1. /\ run' = [run EXCEPT ![c].broken = TRUE]
          /\ UNCHANGED asked /\ In(c, {"plays", "stops"})
        BY <1>10 DEF BridgeBreaks
    <2>2. TRUE \in BOOLEAN /\ run[c].at \in RunStages /\ run[c].outcome \in {"none", "applied", "failed"}
        BY <1>1 DEF RunStates
    <2>3. RunBecomes(c, run[c].at, run[c].tries, run[c].outcome, run[c].done, run[c].told, run[c].result)
        BY <1>1, <2>1, <2>2 DEF ApplyShape, RunBecomes, RunStates
    <2>4. \A d \in Applications : d # c => run'[d] = run[d]
        BY <1>1, <2>1 DEF ApplyShape
    <2>5. QED  BY <1>4, <2>1, <2>2, <2>3, <2>4
<1>11. QED  BY <1>3, <1>5, <1>7, <1>8, <1>9, <1>10

\* The rollback of a failed application and the end of its checkpoint.
LEMMA RecoversKeeps ==
    ASSUME ApplyInv, NEW c \in Applications, Recovers(c)
    PROVE  ApplyInv'
<1>1. /\ ApplyShape /\ RunSound(c) /\ run[c] \in RunStates
      /\ run[c].done \in Nat /\ run[c].tries \in Nat
      /\ RecipeCount \in Nat /\ RecipeCount > 0
    BY ApplyTyped
<1>2. /\ UNCHANGED <<asked, checkpoints, metadata, settings, breaks>> /\ run[c].at = "recovers"
      /\ run[c].outcome = "failed"
    BY <1>1 DEF Recovers, In, RunSound, ProgressSound
<1>3. PICK at \in {"removes", "records"}, told \in BOOLEAN :
          /\ run' = [run EXCEPT ![c].at = at, ![c].told = told]
          /\ at = "records" /\ c \in checkpoints => told
    <2>1. CASE c \in checkpoints /\ settings.rollback
        <3>1. PICK rolledBack \in BOOLEAN :
                  run' = [run EXCEPT ![c].at = IF rolledBack THEN "removes" ELSE "records",
                                     ![c].told = ~rolledBack]
            BY <2>1 DEF Recovers
        <3>2. CASE rolledBack
            <4>1. run' = [run EXCEPT ![c].at = "removes", ![c].told = FALSE]
                BY <3>1, <3>2
            <4>2. QED  BY <4>1
        <3>3. CASE ~rolledBack
            <4>1. run' = [run EXCEPT ![c].at = "records", ![c].told = TRUE]
                BY <3>1, <3>3
            <4>2. QED  BY <4>1
        <3>4. QED  BY <3>2, <3>3
    <2>2. CASE ~(c \in checkpoints /\ settings.rollback)
        <3>1. run' = [run EXCEPT ![c].at = "records", ![c].told = c \in checkpoints]
            BY <2>2 DEF Recovers
        <3>2. CASE c \in checkpoints
            <4>1. run' = [run EXCEPT ![c].at = "records", ![c].told = TRUE]
                BY <3>1, <3>2
            <4>2. QED  BY <4>1
        <3>3. CASE c \notin checkpoints
            <4>1. run' = [run EXCEPT ![c].at = "records", ![c].told = FALSE]
                <5>1. (c \in checkpoints) = FALSE
                    BY <3>3
                <5>2. QED  BY <3>1, <5>1
            <4>2. QED  BY <3>3, <4>1
        <3>4. QED  BY <3>2, <3>3
    <2>3. QED  BY <2>1, <2>2
<1>4. /\ RunBecomes(c, at, run[c].tries, "failed", run[c].done, told, run[c].result)
      /\ \A d \in Applications : d # c => run'[d] = run[d]
    BY <1>1, <1>2, <1>3, ApplyTyped DEF ApplyShape, RunBecomes, RunStates
<1>5. ApplyShape'
    BY <1>1, <1>2, <1>4 DEF ApplyShape, RunBecomes
<1>6. RestStays(c)
    BY <1>2, <1>4, NotedStays DEF RestStays
<1>7. RunSound(c)'
    BY <1>1, <1>2, <1>3, <1>4, NotedStays
    DEF RunSound, ProgressSound, RecordSound, CheckpointSound, BridgeSound, In, RunBecomes
<1>8. QED  BY <1>5, <1>6, <1>7, RestKeeps

LEMMA RemovesKeeps ==
    ASSUME ApplyInv, NEW c \in Applications, RemovesCheckpoint(c)
    PROVE  ApplyInv'
<1>1. /\ ApplyShape /\ RunSound(c) /\ run[c] \in RunStates
      /\ run[c].done \in Nat /\ run[c].tries \in Nat
      /\ RecipeCount \in Nat /\ RecipeCount > 0
    BY ApplyTyped
<1>2. /\ UNCHANGED <<asked, metadata, settings, breaks>> /\ run[c].at = "removes"
      /\ run[c].outcome \in {"applied", "failed"}
    BY <1>1 DEF RemovesCheckpoint, In, RunSound, ProgressSound, RunStates
<1>3. PICK removed \in BOOLEAN :
          /\ checkpoints' = IF removed THEN checkpoints \ {c} ELSE checkpoints
          /\ run' = [run EXCEPT ![c].told = ~removed,
                 ![c].at = IF run[c].outcome = "failed" THEN "records" ELSE "done",
                 ![c].result = IF run[c].outcome = "failed" THEN @
                               ELSE IF removed THEN "applied" ELSE "failed"]
    BY DEF RemovesCheckpoint
<1>4. PICK at \in {"records", "done"}, told \in BOOLEAN, result \in {"none", "applied", "failed"} :
          /\ run' = [run EXCEPT ![c].told = told, ![c].at = at, ![c].result = result]
          /\ at = "records" <=> run[c].outcome = "failed"
          /\ told <=> ~removed
          /\ run[c].outcome = "failed" => result = run[c].result
          /\ run[c].outcome = "applied" => (result = "applied" <=> removed)
    <2>1. run[c].result \in {"none", "applied", "failed"}
        BY <1>1 DEF RunStates
    <2>2. CASE run[c].outcome = "failed"
        <3>1. run' = [run EXCEPT ![c].told = ~removed, ![c].at = "records", ![c].result = run[c].result]
            BY <1>1, <1>3, <2>2 DEF ApplyShape
        <3>2. QED  BY <2>1, <2>2, <3>1
    <2>3. CASE run[c].outcome = "applied"
        <3>1. run' = [run EXCEPT ![c].told = ~removed, ![c].at = "done",
                                 ![c].result = IF removed THEN "applied" ELSE "failed"]
            BY <1>1, <1>3, <2>3 DEF ApplyShape
        <3>2. QED  BY <2>3, <3>1
    <2>4. QED  BY <1>2, <2>2, <2>3
<1>5. /\ RunBecomes(c, at, run[c].tries, run[c].outcome, run[c].done, told, result)
      /\ \A d \in Applications : d # c => run'[d] = run[d]
    BY <1>1, <1>4, ApplyTyped DEF ApplyShape, RunBecomes, RunStates
<1>6. /\ checkpoints' \subseteq Applications
      /\ \A d \in Applications : d # c => (d \in checkpoints' <=> d \in checkpoints)
      /\ c \in checkpoints' => ~removed
    BY <1>1, <1>3 DEF ApplyShape
<1>7. ApplyShape'
    BY <1>1, <1>2, <1>5, <1>6 DEF ApplyShape, RunBecomes
<1>8. RestStays(c)
    BY <1>2, <1>5, <1>6, NotedStays DEF RestStays
<1>9. RunSound(c)'
    BY <1>1, <1>2, <1>4, <1>5, <1>6, NotedStays
    DEF RunSound, ProgressSound, RecordSound, CheckpointSound, BridgeSound, In, RunBecomes
<1>10. QED  BY <1>7, <1>8, <1>9, RestKeeps

\* The provenance: a record is written on what was read, if nobody wrote since.
LEMMA ReadsMetadataKeeps ==
    ASSUME ApplyInv, NEW c \in Applications, ReadsMetadata(c)
    PROVE  ApplyInv'
<1>1. /\ ApplyShape /\ RunSound(c) /\ run[c] \in RunStates
      /\ run[c].done \in Nat /\ run[c].tries \in Nat
      /\ RecipeCount \in Nat /\ RecipeCount > 0
    BY ApplyTyped
<1>2. /\ UNCHANGED <<asked, checkpoints, metadata, settings, breaks>> /\ run[c].at = "records"
      /\ run' = [run EXCEPT ![c].at = "writes", ![c].base = metadata, ![c].current = TRUE]
      /\ run[c].tries < 3
    BY DEF ReadsMetadata, In
<1>3. /\ RunBecomes(c, "writes", run[c].tries, run[c].outcome, run[c].done, run[c].told, run[c].result)
      /\ run'[c].base = metadata
      /\ \A d \in Applications : d # c => run'[d] = run[d]
    <2>1. metadata \in SUBSET Records /\ TRUE \in BOOLEAN /\ "writes" \in RunStages
        BY <1>1 DEF ApplyShape, RunStages
    <2>2. QED  BY <1>1, <1>2, <2>1 DEF ApplyShape, RunBecomes, RunStates
<1>4. ApplyShape'
    BY <1>1, <1>2, <1>3 DEF ApplyShape, RunBecomes
<1>5. RestStays(c)
    BY <1>2, <1>3, NotedStays DEF RestStays
<1>6. RunSound(c)'
    BY <1>1, <1>2, <1>3, NotedStays
    DEF RunSound, ProgressSound, RecordSound, CheckpointSound, BridgeSound, In, RunBecomes
<1>7. QED  BY <1>4, <1>5, <1>6, RestKeeps

LEMMA RecordFailsKeeps ==
    ASSUME ApplyInv, NEW c \in Applications, RecordFails(c)
    PROVE  ApplyInv'
<1>1. /\ ApplyShape /\ RunSound(c) /\ run[c] \in RunStates
      /\ run[c].done \in Nat /\ run[c].tries \in Nat
      /\ RecipeCount \in Nat /\ RecipeCount > 0
    BY ApplyTyped
<1> DEFINE told == run[c].told \/ (run[c].outcome = "applied" /\ run[c].done + 1 = RecipeCount)
<1>2. /\ UNCHANGED <<asked, checkpoints, metadata, settings, breaks>> /\ run[c].at = "records"
      /\ run' = [run EXCEPT ![c].at = "done", ![c].result = "failed", ![c].told = told]
    BY <1>1 DEF RecordFails, In, ApplyShape
<1>3. told \in BOOLEAN /\ "done" \in RunStages /\ run[c].outcome \in {"applied", "failed"}
    BY <1>1, <1>2 DEF RunStates, RunStages, RunSound, ProgressSound, In
<1> HIDE DEF told
<1>4. /\ RunBecomes(c, "done", run[c].tries, run[c].outcome, run[c].done, told, "failed")
      /\ \A d \in Applications : d # c => run'[d] = run[d]
    BY <1>1, <1>2, <1>3 DEF ApplyShape, RunBecomes, RunStates
<1>5. ApplyShape'
    BY <1>1, <1>2, <1>4 DEF ApplyShape, RunBecomes
<1>6. RestStays(c)
    BY <1>2, <1>4, NotedStays DEF RestStays
<1>7. RunSound(c)'
    BY <1>1, <1>2, <1>3, <1>4, NotedStays
    DEF RunSound, ProgressSound, RecordSound, CheckpointSound, BridgeSound, In, RunBecomes, told
<1>8. QED  BY <1>5, <1>6, <1>7, RestKeeps

\* The description is written: with the digest current, on what it is now.  It replaces
\* no entry but those of its own id.
LEMMA WriteNotes ==
    ASSUME ApplyInv, NEW c \in Applications, run[c].at = "writes", run[c].current,
           metadata' = WithRecord(c), UNCHANGED settings
    PROVE  /\ metadata' \subseteq Records
           /\ \A d \in Applications : \A i \in Nat : d # c /\ Noted(d, i) => Noted(d, i)'
           /\ \A i \in 1 .. run[c].done : Noted(c, i)'
           /\ run[c].outcome = "applied" => \A i \in {run[c].done + 1} : Noted(c, i)'
<1>1. /\ metadata \subseteq Records /\ RunSound(c)
      /\ metadata' = {e \in metadata : e.id # Record(c).id} \cup {Record(c)}
    BY ApplyTyped DEF RunSound, RecordSound, In, ApplyShape, WithRecord
<1>2. /\ run[c].done \in Nat /\ RecipeCount \in Nat /\ RecipeCount > 0
      /\ run[c].done < RecipeCount
    BY <1>1, ApplyTyped DEF RunSound, ProgressSound, In
<1>3. \A k : Id(c, k).of \in SUBSET Applications /\ Id(c, k).number = k
             /\ Id(c, k) = [of |-> Id(c, k).of, number |-> k]
    BY DEF Id
<1>4. PICK k \in 0 .. RecipeCount, result \in {"success", "failed"} :
          /\ Record(c) = [id |-> Id(c, k), by |-> c, result |-> result]
          /\ run[c].outcome = "applied" => k = run[c].done + 1 /\ result = "success"
    <2>1. CASE run[c].outcome = "failed"
        <3>1. 0 \in 0 .. RecipeCount /\ 1 \in 0 .. RecipeCount
            BY <1>2
        <3>2. CASE RecipeCount = 1
            BY <2>1, <3>1, <3>2 DEF Record
        <3>3. CASE RecipeCount # 1
            BY <2>1, <3>1, <3>3 DEF Record
        <3>4. QED  BY <3>2, <3>3
    <2>2. CASE run[c].outcome # "failed"
        <3>1. run[c].done + 1 \in 0 .. RecipeCount
            BY <1>2
        <3>2. QED  BY <2>2, <3>1 DEF Record
    <2>3. QED  BY <2>1, <2>2
<1>5. Record(c).id = Id(c, k) /\ Record(c).by = c /\ Record(c).result = result
    BY <1>4
<1>6. metadata' \subseteq Records
    <2>1. Record(c) \in Records
        BY <1>3, <1>4 DEF Records
    <2>2. QED  BY <1>1, <2>1
<1>7. ASSUME NEW d \in Applications, NEW i \in Nat, d # c, Noted(d, i)
      PROVE  Noted(d, i)'
    <2>1. PICK e \in metadata :
              /\ e.id = Id(d, i) /\ (e.by = d => e.result = "success")
              /\ e.by # d => settings.shared
        BY <1>7 DEF Noted
    <2>2. CASE e.id # Record(c).id
        <3>1. e \in metadata'
            BY <1>1, <2>2
        <3>2. QED  BY <2>1, <3>1 DEF Noted, Id
    <2>3. CASE e.id = Record(c).id
        <3>1. settings.shared
            <4>1. Id(d, i).of = Id(c, k).of
                BY <1>5, <2>1, <2>3
            <4>2. QED  BY <1>7, <4>1 DEF Id
        <3>2. Record(c).id = Id(d, i) /\ Record(c) \in metadata'
            BY <1>1, <2>1, <2>3
        <3>3. QED  BY <1>5, <1>7, <3>1, <3>2 DEF Noted, Id
    <2>4. QED  BY <2>2, <2>3
<1>8. ASSUME NEW i \in 1 .. run[c].done
      PROVE  Noted(c, i)'
    <2>1. run[c].outcome = "applied"
        <3>1. 1 .. 0 = {}
            OBVIOUS
        <3>2. QED  BY <1>1, <1>8, <3>1 DEF RunSound, ProgressSound
    <2>2. k # i
        BY <1>2, <1>4, <1>8, <2>1
    <2>3. PICK e \in metadata :
              /\ e.id = Id(c, i) /\ (e.by = c => e.result = "success")
              /\ e.by # c => settings.shared
        BY <1>1, <1>8 DEF RunSound, RecordSound, Noted
    <2>4. e \in metadata'
        BY <1>1, <1>3, <1>5, <2>2, <2>3
    <2>5. QED  BY <2>3, <2>4 DEF Noted, Id
<1>9. ASSUME run[c].outcome = "applied", NEW i \in {run[c].done + 1}
      PROVE  Noted(c, i)'
    <2>1. /\ Record(c) \in metadata' /\ Record(c).id = Id(c, i)
          /\ Record(c).by = c /\ Record(c).result = "success"
        BY <1>1, <1>4, <1>9
    <2>2. QED  BY <2>1 DEF Noted, Id
<1>10. QED  BY <1>6, <1>7, <1>8, <1>9

\* What outdates the others leaves them alone otherwise.
LEMMA OutdatesOthers ==
    ASSUME ApplyShape, NEW c \in Applications
    PROVE  /\ Outdated(c) \in [Applications -> RunStates] /\ Outdated(c)[c] = run[c]
           /\ \A d \in Applications : d # c =>
                 /\ Outdated(c)[d].at = run[d].at
                 /\ Outdated(c)[d].tries = run[d].tries
                 /\ Outdated(c)[d].outcome = run[d].outcome
                 /\ Outdated(c)[d].done = run[d].done
                 /\ Outdated(c)[d].base = run[d].base
                 /\ Outdated(c)[d].told = run[d].told
                 /\ Outdated(c)[d].result = run[d].result
                 /\ Outdated(c)[d].broken = run[d].broken
                 /\ ~Outdated(c)[d].current
<1>1. ASSUME NEW d \in Applications
      PROVE  /\ [run[d] EXCEPT !.current = FALSE] \in RunStates
             /\ LET w == [run[d] EXCEPT !.current = FALSE] IN
                /\ w.at = run[d].at /\ w.tries = run[d].tries /\ w.outcome = run[d].outcome
                /\ w.done = run[d].done /\ w.base = run[d].base /\ w.told = run[d].told
                /\ w.result = run[d].result /\ w.broken = run[d].broken /\ ~w.current
    BY DEF ApplyShape, RunStates
<1>2. run \in [Applications -> RunStates]
    BY DEF ApplyShape
<1>3. Outdated(c) \in [Applications -> RunStates]
    BY <1>1, <1>2 DEF Outdated
<1>4. /\ Outdated(c)[c] = run[c]
      /\ \A d \in Applications : d # c => Outdated(c)[d] = [run[d] EXCEPT !.current = FALSE]
    BY DEF Outdated
<1>5. ASSUME NEW d \in Applications, d # c
      PROVE  /\ Outdated(c)[d].at = run[d].at /\ Outdated(c)[d].tries = run[d].tries
             /\ Outdated(c)[d].outcome = run[d].outcome /\ Outdated(c)[d].done = run[d].done
             /\ Outdated(c)[d].base = run[d].base /\ Outdated(c)[d].told = run[d].told
             /\ Outdated(c)[d].result = run[d].result
             /\ Outdated(c)[d].broken = run[d].broken /\ ~Outdated(c)[d].current
    <2>1. Outdated(c)[d] = [run[d] EXCEPT !.current = FALSE]
        BY <1>4, <1>5
    <2>2. QED  BY <1>1, <2>1
<1>6. QED  BY <1>3, <1>4, <1>5

\* An update that PVE takes, whether the answer is heard or not.
LEMMA WritesKeeps ==
    ASSUME ApplyInv, NEW c \in Applications, WritesRecord(c) \/ RecordWriteFails(c)
    PROVE  ApplyInv'
<1>1. /\ ApplyShape /\ RunSound(c) /\ run[c] \in RunStates
      /\ run[c].done \in Nat /\ run[c].tries \in Nat
      /\ RecipeCount \in Nat /\ RecipeCount > 0
    BY ApplyTyped
<1>2. /\ UNCHANGED <<asked, checkpoints, settings, breaks>> /\ run[c].at = "writes"
      /\ run[c].outcome \in {"applied", "failed"} /\ run[c].done < RecipeCount
      /\ run[c].tries < 3
    BY <1>1 DEF WritesRecord, RecordWriteFails, In, RunSound, ProgressSound, RunStates
<1>3. ASSUME NEW at \in RunStages, NEW tries \in Nat, NEW done \in Nat,
             NEW result \in {"none", "applied", "failed"},
             RunBecomes(c, at, tries, run[c].outcome, done, run[c].told, result),
             ProgressSound(c)', RecordSound(c)', CheckpointSound(c)',
             metadata' \subseteq Records, RestStays(c)
      PROVE  ApplyInv'
    <2>1. ApplyShape'
        BY <1>1, <1>2, <1>3 DEF ApplyShape, RunBecomes
    <2>2. BridgeSound(c)'
        BY <1>1, <1>2, <1>3 DEF RunSound, BridgeSound, In, RunBecomes
    <2>3. QED  BY <1>3, <2>1, <2>2, RestKeeps DEF RunSound
<1>4. CASE WritesRecord(c)
    <2>1. run[c].current /\ metadata' = WithRecord(c)
        BY <1>4 DEF WritesRecord, Recorded
    <2>2. /\ metadata' \subseteq Records
          /\ \A d \in Applications : \A i \in Nat : d # c /\ Noted(d, i) => Noted(d, i)'
          /\ \A i \in 1 .. run[c].done : Noted(c, i)'
          /\ run[c].outcome = "applied" => \A i \in {run[c].done + 1} : Noted(c, i)'
        BY <1>2, <2>1, WriteNotes
    <2>3. CASE run[c].outcome = "failed"
        <3>1. run' = [Outdated(c) EXCEPT ![c].at = "done", ![c].result = "failed"]
            BY <1>4, <2>3 DEF WritesRecord, Recorded
        <3>2. "done" \in RunStages
            BY DEF RunStages
        <3>3. /\ RunBecomes(c, "done", run[c].tries, run[c].outcome, run[c].done, run[c].told, "failed")
              /\ \A d \in Applications : d # c => run'[d] = Outdated(c)[d]
            BY <1>1, <3>1, <3>2, OutdatesOthers DEF RunBecomes, RunStates
        <3>4. RestStays(c)
            BY <1>1, <1>2, <2>2, <3>3, OutdatesOthers DEF RestStays
        <3>5. ProgressSound(c)' /\ CheckpointSound(c)'
            BY <1>1, <1>2, <2>3, <3>3 DEF RunSound, ProgressSound, CheckpointSound, In, RunBecomes
        <3>6. RecordSound(c)'
            BY <1>1, <1>2, <2>2, <3>3 DEF RunSound, RecordSound, In, RunBecomes
        <3>7. QED  BY <1>1, <1>3, <2>2, <3>2, <3>3, <3>4, <3>5, <3>6
    <2>4. CASE run[c].outcome = "applied"
        <3> DEFINE last == run[c].done + 1 = RecipeCount
                   at == CASE ~last -> "records"
                           [] last /\ c \in checkpoints -> "removes"
                           [] OTHER -> "done"
                   result == IF last /\ c \notin checkpoints THEN "applied" ELSE run[c].result
        <3>1. run' = [Outdated(c) EXCEPT ![c].done = run[c].done + 1, ![c].tries = 0, ![c].at = at,
                                         ![c].result = result]
            BY <1>1, <1>4, <2>4, OutdatesOthers DEF WritesRecord, Recorded
        <3>2. /\ ~last => at = "records"
              /\ last /\ c \in checkpoints => at = "removes"
              /\ last /\ c \notin checkpoints => at = "done"
              /\ at \in RunStages
            BY DEF RunStages
        <3>3. /\ result \in {"none", "applied", "failed"}
              /\ last /\ c \notin checkpoints => result = "applied"
              /\ ~(last /\ c \notin checkpoints) => result = run[c].result
            BY <1>1 DEF RunStates
        <3>4. run[c].done + 1 \in Nat /\ 0 \in Nat /\ (~last => run[c].done + 1 < RecipeCount)
            BY <1>1, <1>2
        <3> HIDE DEF at, result
        <3>5. /\ RunBecomes(c, at, 0, run[c].outcome, run[c].done + 1, run[c].told, result)
              /\ \A d \in Applications : d # c => run'[d] = Outdated(c)[d]
            <4>1. Outdated(c) \in [Applications -> RunStates] /\ Outdated(c)[c] = run[c]
                BY <1>1, OutdatesOthers
            <4>2. at \in RunStages /\ result \in {"none", "applied", "failed"}
                BY <3>2, <3>3
            <4>3. run' \in [Applications -> RunStates]
                <5> DEFINE w == [run[c] EXCEPT !.done = run[c].done + 1, !.tries = 0, !.at = at,
                                               !.result = result]
                <5>1. w \in RunStates
                    BY <1>1, <3>4, <4>2 DEF RunStates
                <5>2. run' = [Outdated(c) EXCEPT ![c] = w]
                    BY <3>1, <4>1
                <5> HIDE DEF w
                <5>3. QED  BY <4>1, <5>1, <5>2
            <4>4. /\ run'[c].at = at /\ run'[c].tries = 0 /\ run'[c].outcome = run[c].outcome
                  /\ run'[c].done = run[c].done + 1 /\ run'[c].told = run[c].told
                  /\ run'[c].result = result /\ run'[c].broken = run[c].broken
                BY <1>1, <3>1, <4>1 DEF RunStates
            <4>5. \A d \in Applications : d # c => run'[d] = Outdated(c)[d]
                BY <3>1, <4>1
            <4>6. QED  BY <4>3, <4>4, <4>5 DEF RunBecomes
        <3>6. RestStays(c)
            BY <1>1, <1>2, <2>2, <3>5, OutdatesOthers DEF RestStays
        <3>7. ProgressSound(c)' /\ CheckpointSound(c)'
            BY <1>1, <1>2, <2>4, <3>2, <3>4, <3>5
            DEF RunSound, ProgressSound, CheckpointSound, In, RunBecomes
        <3>8. RecordSound(c)'
            <4>1. \A i \in {run[c].done + 1} : Noted(c, i)'
                BY <2>2, <2>4
            <4>2. ASSUME NEW i \in 1 .. run[c].done + 1
                  PROVE  Noted(c, i)'
                <5>1. CASE i = run[c].done + 1
                    BY <4>1, <5>1
                <5>2. CASE i # run[c].done + 1
                    <6>1. i \in 1 .. run[c].done
                        BY <1>1, <5>2
                    <6>2. QED  BY <2>2, <6>1
                <5>3. QED  BY <5>1, <5>2
            <4>3. run[c].result # "applied"
                BY <1>1, <1>2 DEF RunSound, RecordSound, In
            <4>4. QED  BY <1>2, <3>2, <3>3, <3>5, <4>2, <4>3 DEF RecordSound, In, RunBecomes
        <3>9. QED  BY <1>3, <2>2, <3>2, <3>3, <3>4, <3>5, <3>6, <3>7, <3>8
    <2>5. QED  BY <1>2, <2>3, <2>4
<1>5. CASE RecordWriteFails(c)
    <2>1. PICK unheard \in BOOLEAN :
              /\ unheard => run[c].current
              /\ metadata' = IF unheard THEN WithRecord(c) ELSE metadata
              /\ run' = [(IF unheard THEN Outdated(c) ELSE run) EXCEPT
                     ![c].at = "records", ![c].tries = @ + 1, ![c].current = FALSE]
        BY <1>5 DEF RecordWriteFails
    <2> DEFINE others == IF unheard THEN Outdated(c) ELSE run
    <2>2. /\ others \in [Applications -> RunStates] /\ others[c] = run[c]
          /\ \A d \in Applications : d # c =>
                /\ others[d].at = run[d].at
                /\ others[d].tries = run[d].tries
                /\ others[d].outcome = run[d].outcome
                /\ others[d].done = run[d].done
                /\ others[d].base = run[d].base
                /\ others[d].told = run[d].told
                /\ others[d].result = run[d].result
                /\ others[d].broken = run[d].broken
                /\ others[d].current => run[d].current /\ ~unheard
        <3>1. CASE unheard
            BY <1>1, <3>1, OutdatesOthers
        <3>2. CASE ~unheard
            BY <1>1, <3>2 DEF ApplyShape
        <3>3. QED  BY <3>1, <3>2
    <2>3. /\ metadata' \subseteq Records
          /\ \A d \in Applications : \A i \in Nat : d # c /\ Noted(d, i) => Noted(d, i)'
          /\ \A i \in 1 .. run[c].done : Noted(c, i)'
          /\ ~unheard => metadata' = metadata
        <3>1. CASE unheard
            BY <1>2, <2>1, <3>1, WriteNotes
        <3>2. CASE ~unheard
            BY <1>1, <1>2, <2>1, <3>2, NotedStays DEF ApplyShape, RunSound, RecordSound
        <3>3. QED  BY <3>1, <3>2
    <2>4. run' = [others EXCEPT ![c].at = "records", ![c].tries = run[c].tries + 1,
                                ![c].current = FALSE]
        BY <2>1, <2>2
    <2>5. "records" \in RunStages /\ run[c].tries + 1 \in Nat /\ FALSE \in BOOLEAN
        BY <1>1 DEF RunStages
    <2> HIDE DEF others
    <2>6. /\ RunBecomes(c, "records", run[c].tries + 1, run[c].outcome, run[c].done, run[c].told,
                        run[c].result)
          /\ \A d \in Applications : d # c => run'[d] = others[d]
        BY <1>1, <2>2, <2>4, <2>5 DEF RunBecomes, RunStates
    <2>7. RestStays(c)
        BY <1>2, <2>2, <2>3, <2>6 DEF RestStays
    <2>8. ProgressSound(c)' /\ CheckpointSound(c)'
        BY <1>1, <1>2, <2>6 DEF RunSound, ProgressSound, CheckpointSound, In, RunBecomes
    <2>9. RecordSound(c)'
        BY <1>1, <1>2, <2>3, <2>6 DEF RunSound, RecordSound, In, RunBecomes
    <2>10. run[c].result \in {"none", "applied", "failed"}
        BY <1>1 DEF RunStates
    <2>11. QED  BY <1>1, <1>3, <2>3, <2>5, <2>6, <2>7, <2>8, <2>9, <2>10
<1>6. QED  BY <1>4, <1>5

LEMMA ApplyNextKeeps == ApplyInv /\ [ApplyNext]_applyVars => ApplyInv'
<1> SUFFICES ASSUME ApplyInv, [ApplyNext]_applyVars
             PROVE  ApplyInv'
    OBVIOUS
<1>1. CASE UNCHANGED applyVars
    BY <1>1 DEF applyVars, ApplyInv, ApplyShape, RunSound, ProgressSound, RecordSound,
       CheckpointSound, BridgeSound, In, Noted, Id
<1>2. QED
    BY <1>1, CheckpointKeeps, PlaysKeeps, RecoversKeeps, RemovesKeeps, ReadsMetadataKeeps,
       RecordFailsKeeps, WritesKeeps DEF ApplyNext

LEMMA ApplyInitHolds == ApplyInit => ApplyInv
<1> SUFFICES ASSUME ApplyInit
             PROVE  ApplyInv
    OBVIOUS
<1> USE DEF ApplyInit
<1>1. run \in [Applications -> RunStates]
    BY DEF RunStates, RunStages
<1>2. ApplyShape
    BY <1>1, RecipeApplyAssumption DEF ApplyShape
<1>3. ASSUME NEW c \in Applications
      PROVE  RunSound(c)
    <2>1. /\ run[c].at = "finds_box" /\ run[c].tries = 0 /\ run[c].outcome = "none"
          /\ run[c].done = 0 /\ run[c].result = "none"
        OBVIOUS
    <2>2. 1 .. 0 = {} /\ 0 <= RecipeCount
        BY RecipeApplyAssumption
    <2>3. QED
        BY <2>1, <2>2
        DEF RunSound, ProgressSound, RecordSound, CheckpointSound, BridgeSound, In
<1>4. QED  BY <1>2, <1>3 DEF ApplyInv

\* The invariant of the applications.
THEOREM ApplyInvariant == ApplySpec => []ApplyInv
<1>1. ApplyInit => ApplyInv
    BY ApplyInitHolds
<1>2. ApplyInv /\ [ApplyNext]_applyVars => ApplyInv'
    BY ApplyNextKeeps
<1>3. QED  BY <1>1, <1>2, PTL DEF ApplySpec

\* A success stays noted and its checkpoint gone; one that stays behind is named;
\* nothing of a run reaches the box later, but of one whose bridge broke.
LEMMA ApplyTold == ApplyInv => RunRecorded /\ CheckpointTold /\ BridgeQuiet /\ ApplyTypeOK
<1> SUFFICES ASSUME ApplyInv
             PROVE  RunRecorded /\ CheckpointTold /\ BridgeQuiet /\ ApplyTypeOK
    OBVIOUS
<1>1. RunRecorded
    BY DEF ApplyInv, RunSound, RecordSound, RunRecorded
<1>2. CheckpointTold
    <2>1. ASSUME NEW c \in checkpoints, In(c, {"done"})
          PROVE  run[c].told \/ (run[c].outcome = "applied" /\ run[c].done + 1 < RecipeCount)
        <3>1. c \in Applications
            BY DEF ApplyInv, ApplyShape
        <3>2. RunSound(c) /\ run[c].outcome \in {"none", "applied", "failed"}
            BY <3>1 DEF ApplyInv, ApplyShape, RunStates
        <3>3. QED  BY <2>1, <3>2 DEF RunSound, ProgressSound, CheckpointSound, In
    <2>2. QED  BY <2>1 DEF CheckpointTold
<1>3. BridgeQuiet
    BY DEF ApplyInv, ApplyShape, RunSound, BridgeSound, BridgeQuiet
<1>4. ApplyTypeOK
    <2>1. ASSUME NEW c \in Applications
          PROVE  /\ In(c, RunStages)
                 /\ run[c].done \in 0 .. RecipeCount /\ run[c].tries \in 0 .. 3
        BY ApplyTyped DEF RunSound, ProgressSound, RunStates, In
    <2>2. \A e \in metadata : e.id.number \in 0 .. RecipeCount /\ e.by \in Applications
        BY DEF ApplyInv, ApplyShape, Records
    <2>3. QED  BY <2>1, <2>2 DEF ApplyTypeOK, ApplyInv, ApplyShape, RunStages
<1>5. QED  BY <1>1, <1>2, <1>3, <1>4

-----------------------------------------------------------------------------
(***************************************************************************)
(* The configuration file                                                  *)
(***************************************************************************)

ConfigStages ==
    {"start", "asks", "answered", "saves", "writes", "generates", "fills", "loads", "prompts", "discovers",
     "retries", "answers", "confirms", "verifies", "done", "failed", "killed"}
KeyOwners == Settings \cup {"nobody", "user", "cut"}
TuningStates ==
    [kind : SettingKinds, option : BOOLEAN, at : ConfigStages, base : Values, next : Values,
     typed : BOOLEAN, asked : Nat, echo : BOOLEAN, confirmed : BOOLEAN, verified : Values,
     replaced : KeyOwners, wrote : {"none", "some", "all"}]

ConfigShape ==
    /\ values \in Values /\ tempFiles \subseteq Settings
    /\ relayKey \in KeyOwners /\ saver \in Settings \cup {"user"}
    /\ environment \in BOOLEAN /\ signals \in 0 .. MaxSignals
    /\ tuning \in [Settings -> TuningStates]

\* A command does what its kind does.
KindFits(t) ==
    /\ t.kind = "use" => t.at \in {"start", "done", "failed", "killed"}
    /\ t.at \in {"asks"} => t.kind \in {"set", "setup"}
    /\ t.at \in {"answered"} => t.kind = "set"
    /\ t.at \in {"generates", "fills", "loads"} => t.kind = "keygen"
    /\ t.at \in {"prompts", "discovers", "retries", "answers", "confirms", "verifies"} =>
           t.kind = "setup"

\* Only a command that changes nothing has a value that overrides the file's.
UrlsOwn(t) == t.kind # "use" => t.base.url \in 0..2 /\ t.next.url \in 0..2

\* What names a key was loaded or written when there was one; one of the user's is
\* replaced by a command that was told to.
KeyKnown(t, key) ==
    /\ "made" \in {t.next.key, t.base.key} \/ t.at = "loads" => key # "nobody"
    /\ t.at = "generates" /\ ~t.option => key # "user"
    /\ t.at = "fills" => t.wrote = "some"
    /\ t.replaced = "user" => t.option

EchoKept(t) == t.echo \/ t.at \in {"asks", "killed"}

\* A setup has the token it started with, or it asked; and what it saves it verified.
IdentityKept(t) ==
    /\ t.kind = "setup" /\ t.at \in {"prompts", "asks", "discovers", "retries", "answers"} =>
           t.typed \/ t.next.identity = t.base.identity
    /\ t.kind = "setup" /\ t.at \in {"verifies", "saves", "writes", "done"} =>
           t.confirmed \/ t.base.identity = 0 \/ t.next.identity = t.base.identity
    /\ t.kind = "setup" /\ ~t.option /\ t.at \in {"saves", "writes", "done"} =>
           t.next.url = t.verified.url /\ t.next.identity = t.verified.identity

TuneSound(t, key) ==
    KindFits(t) /\ UrlsOwn(t) /\ KeyKnown(t, key) /\ EchoKept(t) /\ IdentityKept(t)

\* The file holds what its last saver wrote.
SaverSound ==
    /\ values.url \in 0..2
    /\ values.key = "made" => relayKey # "nobody"
    /\ relayKey = "cut" => \E c \in Settings : tuning[c].wrote = "some"
    /\ \A c \in Settings : saver = c =>
           tuning[c].at = "done" /\ tuning[c].kind # "use" /\ values = tuning[c].next

ConfigInv ==
    /\ ConfigShape /\ SaverSound /\ TempFilesOwned
    /\ \A c \in Settings : TuneSound(tuning[c], relayKey)

\* What the step of a command has to respect.
LEMMA TuningKeeps ==
    ASSUME ConfigInv, NEW c \in Settings, NEW w \in TuningStates, Tuned(c, w),
           w.kind = tuning[c].kind, tuning[c].at # "done",
           TuneSound(w, relayKey'),
           UNCHANGED environment, signals' \in 0 .. MaxSignals,
           \/ relayKey' = relayKey /\ w.wrote = tuning[c].wrote
           \/ relayKey' = c
           \/ relayKey' \in {relayKey, "cut"} /\ w.wrote = "some",
           tempFiles' \in SUBSET Settings,
           \A d \in Settings : d # c => (d \in tempFiles' <=> d \in tempFiles),
           c \in tempFiles' => w.at \in {"writes", "killed"},
           \/ UNCHANGED <<values, saver>>
           \/ saver' = c /\ values' = w.next /\ w.at = "done" /\ w.kind # "use"
    PROVE  ConfigInv'
<1>1. /\ tuning' \in [Settings -> TuningStates] /\ tuning'[c] = w
      /\ \A d \in Settings : d # c => tuning'[d] = tuning[d]
    BY DEF ConfigInv, ConfigShape, Tuned
<1>2. c \notin {"nobody", "user", "cut"}
    BY SettingsAssumption
<1>3. ConfigShape'
    <2>1. values' \in Values
        BY DEF ConfigInv, ConfigShape, TuningStates
    <2>2. relayKey' \in KeyOwners /\ saver' \in Settings \cup {"user"}
        BY DEF ConfigInv, ConfigShape, KeyOwners
    <2>3. QED  BY <1>1, <2>1, <2>2 DEF ConfigInv, ConfigShape
<1>4. TempFilesOwned'
    BY <1>1 DEF ConfigInv, ConfigShape, TempFilesOwned
<1>5. ASSUME NEW d \in Settings
      PROVE  TuneSound(tuning'[d], relayKey')
    <2>1. CASE d = c
        BY <1>1, <2>1
    <2>2. CASE d # c
        <3>1. TuneSound(tuning[d], relayKey) /\ tuning'[d] = tuning[d]
            BY <1>1, <2>2 DEF ConfigInv
        <3>2. KeyKnown(tuning[d], relayKey')
            BY <1>2, <3>1 DEF TuneSound, KeyKnown
        <3>3. QED  BY <3>1, <3>2 DEF TuneSound
    <2>3. QED  BY <2>1, <2>2
<1>6. relayKey' = "cut" => \E d \in Settings : tuning'[d].wrote = "some"
    <2>1. CASE relayKey' = c
        BY <1>2, <2>1
    <2>2. CASE w.wrote = "some"
        BY <1>1, <2>2
    <2>3. CASE relayKey' = relayKey /\ w.wrote = tuning[c].wrote
        <3>1. relayKey = "cut" => \E d \in Settings : tuning[d].wrote = "some"
            BY DEF ConfigInv, SaverSound
        <3>2. \A d \in Settings : tuning'[d].wrote = tuning[d].wrote
            BY <1>1, <2>3
        <3>3. QED  BY <2>3, <3>1, <3>2
    <2>4. QED  BY <2>1, <2>2, <2>3
<1>7. SaverSound'
    <2>1. CASE UNCHANGED <<values, saver>>
        <3>1. saver # c
            BY DEF ConfigInv, SaverSound
        <3>2. QED  BY <1>1, <1>2, <1>6, <2>1, <3>1 DEF ConfigInv, SaverSound
    <2>2. CASE saver' = c /\ values' = w.next /\ w.at = "done" /\ w.kind # "use"
        <3>1. w.next.url \in 0..2 /\ (w.next.key = "made" => relayKey' # "nobody")
            BY <2>2 DEF TuneSound, UrlsOwn, KeyKnown
        <3>2. QED  BY <1>1, <1>2, <1>6, <2>2, <3>1 DEF SaverSound
    <2>3. QED  BY <2>1, <2>2
<1>8. QED  BY <1>3, <1>4, <1>5, <1>7 DEF ConfigInv

LEMMA TuningTyped ==
    ASSUME ConfigInv, NEW c \in Settings
    PROVE  /\ tuning[c] \in TuningStates /\ TuneSound(tuning[c], relayKey)
           /\ tuning[c].kind \in {"set", "unset", "keygen", "setup", "use"}
           /\ tuning[c].base \in Values /\ tuning[c].next \in Values
           /\ tuning[c].at \in ConfigStages
           /\ values \in Values /\ values.url \in 0..2 /\ (values.key = "made" => relayKey # "nobody")
           /\ relayKey \in KeyOwners /\ environment \in BOOLEAN
           /\ tempFiles \in SUBSET Settings /\ signals \in 0 .. MaxSignals
BY SettingKindsAssumption DEF ConfigInv, ConfigShape, SaverSound, TuningStates

LEMMA Stages ==
    ConfigStages =
        {"start", "asks", "answered", "saves", "writes", "generates", "fills", "loads", "prompts", "discovers",
         "retries", "answers", "confirms", "verifies", "done", "failed", "killed"}
BY DEF ConfigStages

\* The changes of a value.
UrlNumbers == 0..4
TokenNumbers == 0..2
KeyNames == {"none", "made", "given"}

LEMMA ValueFields == Values = [url : UrlNumbers, identity : TokenNumbers, key : KeyNames]
BY DEF Values, UrlNumbers, TokenNumbers, KeyNames

LEMMA UrlChanged ==
    ASSUME NEW v \in Values, NEW url \in UrlNumbers, NEW w, w = [v EXCEPT !.url = url]
    PROVE  w \in Values /\ w.url = url /\ w.identity = v.identity /\ w.key = v.key
BY ValueFields

LEMMA IdentityChanged ==
    ASSUME NEW v \in Values, NEW identity \in TokenNumbers, NEW w, w = [v EXCEPT !.identity = identity]
    PROVE  w \in Values /\ w.url = v.url /\ w.identity = identity /\ w.key = v.key
BY ValueFields

LEMMA KeyNamed ==
    ASSUME NEW v \in Values, NEW key \in KeyNames, NEW w, w = [v EXCEPT !.key = key]
    PROVE  w \in Values /\ w.url = v.url /\ w.identity = v.identity /\ w.key = key
BY ValueFields

\* A step to another stage alone.
LEMMA ReachesKeeps ==
    ASSUME ConfigInv, NEW c \in Settings, NEW at \in ConfigStages, Reaches(c, at),
           tuning[c].at \notin {"asks", "done", "killed"},
           UNCHANGED <<relayKey, environment>>, signals' \in 0 .. MaxSignals,
           tempFiles' \in SUBSET Settings,
           \A d \in Settings : d # c => (d \in tempFiles' <=> d \in tempFiles),
           c \in tempFiles' => at \in {"writes", "killed"},
           \/ UNCHANGED <<values, saver>>
           \/ tuning[c].at = "writes" /\ at = "done" /\ saver' = c /\ values' = tuning[c].next,
           \/ at \in {"failed", "killed"}
           \/ tuning[c].at = "saves" /\ at = "writes"
           \/ tuning[c].at = "writes" /\ at = "done"
           \/ /\ tuning[c].at = "start" /\ tuning[c].kind = "keygen" /\ at = "generates"
              /\ relayKey # "nobody" => tuning[c].option
           \/ tuning[c].at \in {"discovers", "retries"} /\ at \in {"discovers", "retries", "answers"}
    PROVE  ConfigInv'
<1> DEFINE t == tuning[c]
           w == [t EXCEPT !.at = at]
<1>1. t \in TuningStates /\ TuneSound(t, relayKey)
    BY TuningTyped
<1>2. /\ w \in TuningStates /\ w.at = at /\ w.kind = t.kind /\ w.option = t.option
      /\ w.base = t.base /\ w.next = t.next /\ w.typed = t.typed /\ w.echo = t.echo
      /\ w.confirmed = t.confirmed /\ w.verified = t.verified /\ w.replaced = t.replaced
      /\ w.wrote = t.wrote
    BY <1>1 DEF TuningStates
<1>3. Tuned(c, w)
    BY DEF Reaches
<1> HIDE DEF w
<1>4. KindFits(w) /\ UrlsOwn(w)
    BY <1>1, <1>2 DEF TuneSound, KindFits, UrlsOwn
<1>5. KeyKnown(w, relayKey) /\ EchoKept(w)
    BY <1>1, <1>2, TuningTyped DEF TuneSound, KeyKnown, EchoKept, KeyOwners
<1>6. IdentityKept(w)
    BY <1>1, <1>2 DEF TuneSound, IdentityKept, KindFits
<1>7. w.at = "done" => w.kind # "use"
    BY <1>1, <1>2 DEF TuneSound, KindFits
<1>8. QED  BY <1>2, <1>3, <1>4, <1>5, <1>6, <1>7, TuningKeeps DEF TuneSound

LEMMA MovesOnKeeps ==
    ASSUME ConfigInv, NEW c \in Settings,
           \/ LoadFails(c) \/ ValueRejected(c) \/ SaveRefused(c) \/ LooksForKey(c)
           \/ PromptInputEnds(c) \/ OffersChoices(c) \/ DiscoveryFails(c) \/ RetryAnswered(c)
    PROVE  ConfigInv'
<1>1. /\ UNCHANGED <<values, tempFiles, relayKey, saver, environment, signals>>
      /\ signals \in 0 .. MaxSignals /\ tempFiles \in SUBSET Settings
    BY TuningTyped DEF LoadFails, ValueRejected, SaveRefused, LooksForKey, PromptInputEnds, OffersChoices,
       DiscoveryFails, RetryAnswered, NoFileChange
<1>2. tuning[c].at \in {"start", "answered", "loads", "saves", "prompts", "retries", "answers",
                        "confirms", "discovers"}
    BY DEF LoadFails, ValueRejected, SaveRefused, LooksForKey, PromptInputEnds, OffersChoices,
       DiscoveryFails, RetryAnswered
<1>3. c \notin tempFiles
    BY <1>2 DEF ConfigInv, TempFilesOwned
<1>4. PICK at \in {"failed", "generates", "discovers", "retries", "answers"} :
          /\ Reaches(c, at)
          /\ \/ at = "failed"
             \/ /\ tuning[c].at = "start" /\ tuning[c].kind = "keygen" /\ at = "generates"
                /\ relayKey # "nobody" => tuning[c].option
             \/ /\ tuning[c].at \in {"discovers", "retries"}
                /\ at \in {"discovers", "retries", "answers"}
    <2>1. CASE LooksForKey(c)
        <3>1. CASE relayKey # "nobody" /\ ~tuning[c].option
            BY <2>1, <3>1 DEF LooksForKey
        <3>2. CASE ~(relayKey # "nobody" /\ ~tuning[c].option)
            BY <2>1, <3>2 DEF LooksForKey
        <3>3. QED  BY <3>1, <3>2
    <2>2. CASE ~LooksForKey(c)
        BY <2>2 DEF LoadFails, ValueRejected, SaveRefused, PromptInputEnds, OffersChoices,
           DiscoveryFails, RetryAnswered
    <2>3. QED  BY <2>1, <2>2
<1>5. at \in ConfigStages
    BY <1>4, Stages
<1>6. QED  BY <1>1, <1>2, <1>3, <1>4, <1>5, ReachesKeeps

\* The file is written next to the one that is there and takes its place.
LEMMA SavesKeeps ==
    ASSUME ConfigInv, NEW c \in Settings, OpensTemporary(c) \/ RenamesConfig(c) \/ SaveFails(c)
    PROVE  ConfigInv'
<1>1. signals \in 0 .. MaxSignals /\ tempFiles \in SUBSET Settings
    BY TuningTyped
<1>2. {"writes", "done", "failed"} \subseteq ConfigStages
    BY Stages
<1>3. CASE OpensTemporary(c)
    BY <1>1, <1>2, <1>3, ReachesKeeps DEF OpensTemporary
<1>4. CASE RenamesConfig(c)
    BY <1>1, <1>2, <1>4, ReachesKeeps DEF RenamesConfig
<1>5. CASE SaveFails(c)
    BY <1>1, <1>2, <1>5, ReachesKeeps DEF SaveFails
<1>6. QED  BY <1>3, <1>4, <1>5

\* A step that changes what the command knows, and no file.
LEMMA KnowsKeeps ==
    ASSUME ConfigInv, NEW c \in Settings, NEW w \in TuningStates, Tuned(c, w),
           w.kind = tuning[c].kind, w.wrote = tuning[c].wrote, NoFileChange,
           tuning[c].at \notin {"writes", "done", "killed"},
           TuneSound(w, relayKey)
    PROVE  ConfigInv'
<1>1. c \notin tempFiles
    BY DEF ConfigInv, TempFilesOwned
<1>2. signals \in 0 .. MaxSignals /\ tempFiles \in SUBSET Settings
    BY TuningTyped
<1>3. QED  BY <1>1, <1>2, TuningKeeps DEF NoFileChange

LEMMA LoadsKeeps ==
    ASSUME ConfigInv, NEW c \in Settings, LoadsConfig(c) \/ Edits(c) \/ NamesKey(c)
    PROVE  ConfigInv'
<1> DEFINE t == tuning[c]
<1>1. /\ t \in TuningStates /\ TuneSound(t, relayKey)
      /\ values \in Values /\ values.url \in 0..2 /\ (values.key = "made" => relayKey # "nobody")
    BY TuningTyped
<1>2. {"done", "saves"} \subseteq ConfigStages
    BY Stages
<1>3. CASE LoadsConfig(c)
    <2> DEFINE next == UnderArguments(UnderEnvironment(values), t.option)
               w == [t EXCEPT !.at = "done", !.next = next]
    <2>1. Tuned(c, w) /\ t.kind = "use" /\ t.at = "start" /\ NoFileChange
        BY <1>3 DEF LoadsConfig
    <2>2. next \in Values /\ next.key = values.key
        <3>1. 3 \in UrlNumbers /\ 4 \in UrlNumbers
            BY DEF UrlNumbers
        <3>2. UnderEnvironment(values) \in Values /\ UnderEnvironment(values).key = values.key
            BY <1>1, <3>1, UrlChanged DEF UnderEnvironment, FromEnvironment
        <3>3. UnderArguments(UnderEnvironment(values), t.option) \in Values
              /\ UnderArguments(UnderEnvironment(values), t.option).key = values.key
            BY <3>1, <3>2, UrlChanged DEF UnderArguments, FromArgument
        <3>4. QED  BY <3>3
    <2> HIDE DEF next
    <2>3. /\ w \in TuningStates /\ w.at = "done" /\ w.kind = t.kind /\ w.option = t.option
          /\ w.base = t.base /\ w.next = next /\ w.typed = t.typed /\ w.echo = t.echo
          /\ w.confirmed = t.confirmed /\ w.verified = t.verified /\ w.replaced = t.replaced
          /\ w.wrote = t.wrote
        BY <1>1, <1>2, <2>2 DEF TuningStates
    <2> HIDE DEF w
    <2>4. TuneSound(w, relayKey)
        BY <1>1, <2>1, <2>2, <2>3
        DEF TuneSound, KindFits, UrlsOwn, KeyKnown, EchoKept, IdentityKept
    <2>5. QED  BY <2>1, <2>3, <2>4, KnowsKeeps
<1>4. ASSUME NEW next \in Values, next.url \in 0..2, next.key = "made" => relayKey # "nobody",
             t.kind \in {"set", "unset", "keygen"}, t.at \in {"start", "answered", "loads"},
             Tuned(c, [t EXCEPT !.at = "saves", !.base = values, !.next = next]), NoFileChange
      PROVE  ConfigInv'
    <2> DEFINE w == [t EXCEPT !.at = "saves", !.base = values, !.next = next]
    <2>1. Tuned(c, w)
        BY <1>4
    <2>2. /\ w \in TuningStates /\ w.at = "saves" /\ w.kind = t.kind /\ w.option = t.option
          /\ w.base = values /\ w.next = next /\ w.typed = t.typed /\ w.echo = t.echo
          /\ w.confirmed = t.confirmed /\ w.verified = t.verified /\ w.replaced = t.replaced
          /\ w.wrote = t.wrote
        BY <1>1, <1>2, <1>4 DEF TuningStates
    <2> HIDE DEF w
    <2>3. TuneSound(w, relayKey)
        BY <1>1, <1>4, <2>2
        DEF TuneSound, KindFits, UrlsOwn, KeyKnown, EchoKept, IdentityKept
    <2>4. QED  BY <1>4, <2>1, <2>2, <2>3, KnowsKeeps
<1>5. CASE Edits(c)
    <2>1. PICK of \in {"token", "url", "key"} :
              Tuned(c, [t EXCEPT !.at = "saves", !.base = values, !.next = Edited(c, of)])
        BY <1>1, <1>5 DEF Edits, TuningStates
    <2>2. Edited(c, of) \in Values /\ Edited(c, of).url \in 0..2
          /\ Edited(c, of).key \in {values.key, "given", "none"}
        <3>1. PICK n \in {0, 2}, key \in {"given", "none"} :
                  \/ Edited(c, of) = [values EXCEPT !.url = n]
                  \/ Edited(c, of) = [values EXCEPT !.identity = n]
                  \/ Edited(c, of) = [values EXCEPT !.key = key]
            <4>1. CASE of = "token"
                BY <4>1 DEF Edited, SetValue, UnsetValue
            <4>2. CASE of = "url"
                BY <4>2 DEF Edited, SetValue, UnsetValue
            <4>3. CASE of = "key"
                BY <4>3 DEF Edited, SetValue, UnsetValue
            <4>4. QED  BY <4>1, <4>2, <4>3
        <3>2. n \in UrlNumbers /\ n \in TokenNumbers /\ n \in 0..2 /\ key \in KeyNames
            BY DEF UrlNumbers, TokenNumbers, KeyNames
        <3> DEFINE v == Edited(c, of)
        <3> HIDE DEF v
        <3>3. CASE v = [values EXCEPT !.url = n]
            BY <1>1, <3>2, <3>3, UrlChanged DEF v
        <3>4. CASE v = [values EXCEPT !.identity = n]
            BY <1>1, <3>2, <3>4, IdentityChanged DEF v
        <3>5. CASE v = [values EXCEPT !.key = key]
            BY <1>1, <3>2, <3>5, KeyNamed DEF v
        <3>6. QED  BY <3>1, <3>3, <3>4, <3>5 DEF v
    <2>3. /\ t.kind \in {"set", "unset", "keygen"} /\ t.at \in {"start", "answered", "loads"}
          /\ NoFileChange
        BY <1>5 DEF Edits
    <2>4. Edited(c, of).key = "made" => relayKey # "nobody"
        BY <1>1, <2>2
    <2>5. QED  BY <1>4, <2>1, <2>2, <2>3, <2>4
<1>6. CASE NamesKey(c)
    <2> DEFINE next == [values EXCEPT !.key = "made"]
    <2>1. /\ t.at = "loads" /\ t.kind = "keygen" /\ NoFileChange
          /\ Tuned(c, [t EXCEPT !.at = "saves", !.base = values, !.next = next])
        BY <1>1, <1>6 DEF NamesKey, TuneSound, KindFits
    <2>2. relayKey # "nobody"
        BY <1>1, <2>1 DEF TuneSound, KeyKnown
    <2>3. "made" \in KeyNames
        BY DEF KeyNames
    <2>4. next \in Values /\ next.url \in 0..2
        BY <1>1, <2>3, KeyNamed
    <2>5. QED  BY <1>4, <2>1, <2>2, <2>4
<1>7. QED  BY <1>3, <1>5, <1>6

LEMMA GeneratesKeeps ==
    ASSUME ConfigInv, NEW c \in Settings, OpensKey(c) \/ Generates(c)
    PROVE  ConfigInv'
<1> DEFINE t == tuning[c]
<1>1. /\ t \in TuningStates /\ TuneSound(t, relayKey) /\ relayKey \in KeyOwners
      /\ signals \in 0 .. MaxSignals /\ tempFiles \in SUBSET Settings
    BY TuningTyped
<1>2. /\ t.at \in {"generates", "fills"}
      /\ UNCHANGED <<values, tempFiles, saver, environment, signals>>
    BY DEF OpensKey, Generates
<1>3. c \notin {"nobody", "user", "cut"} /\ c \notin tempFiles
    BY <1>2, SettingsAssumption DEF ConfigInv, TempFilesOwned
<1>4. ASSUME NEW at \in {"fills", "loads", "failed"}, NEW replaced \in KeyOwners,
             NEW wrote \in {"none", "some", "all"},
             Tuned(c, [t EXCEPT !.at = at, !.replaced = replaced, !.wrote = wrote]),
             \/ relayKey' = relayKey /\ wrote = t.wrote
             \/ relayKey' = c
             \/ relayKey' \in {relayKey, "cut"} /\ wrote = "some",
             at = "fills" => wrote = "some",
             at = "loads" => relayKey' = c,
             \/ replaced = t.replaced
             \/ t.at = "generates" /\ replaced = relayKey
      PROVE  ConfigInv'
    <2> DEFINE w == [t EXCEPT !.at = at, !.replaced = replaced, !.wrote = wrote]
    <2>1. at \in ConfigStages
        BY Stages
    <2>2. /\ w \in TuningStates /\ w.at = at /\ w.kind = t.kind /\ w.option = t.option
          /\ w.base = t.base /\ w.next = t.next /\ w.typed = t.typed /\ w.echo = t.echo
          /\ w.confirmed = t.confirmed /\ w.verified = t.verified /\ w.replaced = replaced
          /\ w.wrote = wrote
        BY <1>1, <2>1 DEF TuningStates
    <2>3. Tuned(c, w)
        BY <1>4
    <2> HIDE DEF w
    <2>4. KindFits(w) /\ UrlsOwn(w) /\ EchoKept(w) /\ IdentityKept(w)
        BY <1>1, <1>2, <2>2 DEF TuneSound, KindFits, UrlsOwn, EchoKept, IdentityKept
    <2>5. KeyKnown(w, relayKey')
        BY <1>1, <1>2, <1>3, <1>4, <2>2 DEF TuneSound, KeyKnown
    <2>6. w.at # "done" /\ t.at # "done"
        BY <1>2, <2>2
    <2>7. QED
        BY <1>1, <1>2, <1>3, <1>4, <2>2, <2>3, <2>4, <2>5, <2>6, TuningKeeps DEF TuneSound
<1>5. /\ t.replaced \in KeyOwners /\ t.wrote \in {"none", "some", "all"}
      /\ t = [t EXCEPT !.replaced = t.replaced, !.wrote = t.wrote]
    BY <1>1 DEF TuningStates
<1>6. CASE /\ t.at = "generates" /\ relayKey' = "cut"
           /\ Tuned(c, [t EXCEPT !.at = "fills", !.replaced = relayKey, !.wrote = "some"])
    BY <1>1, <1>4, <1>6
<1>7. CASE /\ Reaches(c, "failed")
           /\ \/ UNCHANGED relayKey
              \/ relayKey' \in {relayKey, "cut"} /\ t.at = "fills"
    <2>1. Tuned(c, [t EXCEPT !.at = "failed", !.replaced = t.replaced, !.wrote = t.wrote])
        BY <1>1, <1>7 DEF Reaches, TuningStates
    <2>2. \/ relayKey' = relayKey
          \/ relayKey' \in {relayKey, "cut"} /\ t.wrote = "some"
        BY <1>1, <1>7 DEF TuneSound, KeyKnown
    <2>3. QED  BY <1>4, <1>5, <2>1, <2>2
<1>8. ASSUME NEW at \in {"loads", "failed"}, relayKey' = c,
             Tuned(c, [t EXCEPT !.at = at, !.wrote = "all"])
      PROVE  ConfigInv'
    <2>1. Tuned(c, [t EXCEPT !.at = at, !.replaced = t.replaced, !.wrote = "all"])
        BY <1>1, <1>8 DEF TuningStates
    <2>2. QED  BY <1>4, <1>5, <1>8, <2>1
<1>9. QED  BY <1>6, <1>7, <1>8 DEF OpensKey, Generates

\* The prompt for a secret.
LEMMA PromptKeeps ==
    ASSUME ConfigInv, NEW c \in Settings,
           PromptOpens(c) \/ SecretTyped(c) \/ SecretLeftOut(c) \/ PromptEnds(c)
    PROVE  ConfigInv'
<1> DEFINE t == tuning[c]
<1>1. /\ t \in TuningStates /\ TuneSound(t, relayKey) /\ t.next \in Values
      /\ t.kind \in {"set", "unset", "keygen", "setup", "use"}
    BY TuningTyped
<1>2. {"asks", "answered", "discovers", "prompts", "failed"} \subseteq ConfigStages
    BY Stages
<1>3. NoFileChange
    BY DEF PromptOpens, SecretTyped, SecretLeftOut, PromptEnds
<1>4. CASE PromptOpens(c)
    <2> DEFINE count == IF t.asked = 0 THEN 1 ELSE 2
               w == [t EXCEPT !.at = "asks", !.echo = FALSE, !.asked = count]
    <2>1. /\ Tuned(c, w) /\ count \in Nat
          /\ \/ t.kind = "set" /\ t.at = "start"
             \/ t.kind = "setup" /\ t.at = "prompts"
        BY <1>1, <1>4 DEF PromptOpens, SecretAsked, TuneSound, KindFits
    <2> HIDE DEF count
    <2>2. /\ w \in TuningStates /\ w.at = "asks" /\ w.kind = t.kind /\ w.option = t.option
          /\ w.base = t.base /\ w.next = t.next /\ w.typed = t.typed
          /\ w.confirmed = t.confirmed /\ w.verified = t.verified /\ w.replaced = t.replaced
          /\ w.wrote = t.wrote
        BY <1>1, <1>2, <2>1 DEF TuningStates
    <2> HIDE DEF w
    <2>3. TuneSound(w, relayKey)
        BY <1>1, <2>1, <2>2 DEF TuneSound, KindFits, UrlsOwn, KeyKnown, EchoKept, IdentityKept
    <2>4. QED  BY <1>3, <2>1, <2>2, <2>3, KnowsKeeps
<1>5. CASE SecretTyped(c) /\ t.kind # "set"
    <2> DEFINE next == [t.next EXCEPT !.identity = 2]
               w == [t EXCEPT !.at = "discovers", !.echo = TRUE, !.typed = TRUE, !.next = next]
    <2>1. Tuned(c, w) /\ t.at = "asks" /\ t.kind = "setup"
        BY <1>1, <1>5 DEF SecretTyped, TuneSound, KindFits
    <2>2. next \in Values /\ next.url = t.next.url /\ next.key = t.next.key
        <3>1. 2 \in TokenNumbers /\ next = [t.next EXCEPT !.identity = 2]
            BY DEF TokenNumbers
        <3> HIDE DEF next
        <3>2. QED  BY <1>1, <3>1, IdentityChanged
    <2> HIDE DEF next
    <2>3. /\ w \in TuningStates /\ w.at = "discovers" /\ w.kind = t.kind /\ w.option = t.option
          /\ w.base = t.base /\ w.next = next /\ w.typed /\ w.echo
          /\ w.confirmed = t.confirmed /\ w.verified = t.verified /\ w.replaced = t.replaced
          /\ w.wrote = t.wrote
        BY <1>1, <1>2, <2>2 DEF TuningStates
    <2> HIDE DEF w
    <2>4. TuneSound(w, relayKey)
        BY <1>1, <2>1, <2>2, <2>3 DEF TuneSound, KindFits, UrlsOwn, KeyKnown, EchoKept, IdentityKept
    <2>5. QED  BY <1>3, <2>1, <2>3, <2>4, KnowsKeeps
<1>6. CASE (SecretTyped(c) /\ t.kind = "set") \/ SecretLeftOut(c) \/ PromptEnds(c)
    <2>1. PICK at \in {"answered", "discovers", "prompts", "failed"} :
              /\ Tuned(c, [t EXCEPT !.at = at, !.echo = TRUE])
              /\ t.at = "asks"
              /\ at = "answered" => t.kind = "set"
              /\ at \in {"discovers", "prompts"} => t.kind = "setup"
        <3>1. CASE SecretTyped(c) /\ t.kind = "set"
            BY <3>1 DEF SecretTyped
        <3>2. CASE SecretLeftOut(c)
            BY <3>2 DEF SecretLeftOut
        <3>3. CASE PromptEnds(c)
            BY <3>3 DEF PromptEnds
        <3>4. QED  BY <1>6, <3>1, <3>2, <3>3
    <2> DEFINE w == [t EXCEPT !.at = at, !.echo = TRUE]
    <2>2. /\ w \in TuningStates /\ w.at = at /\ w.kind = t.kind /\ w.option = t.option
          /\ w.base = t.base /\ w.next = t.next /\ w.typed = t.typed /\ w.echo
          /\ w.confirmed = t.confirmed /\ w.verified = t.verified /\ w.replaced = t.replaced
          /\ w.wrote = t.wrote
        BY <1>1, <1>2 DEF TuningStates
    <2>3. Tuned(c, w)
        BY <2>1
    <2> HIDE DEF w
    <2>4. TuneSound(w, relayKey)
        BY <1>1, <2>1, <2>2 DEF TuneSound, KindFits, UrlsOwn, KeyKnown, EchoKept, IdentityKept
    <2>5. QED  BY <1>3, <2>1, <2>2, <2>3, <2>4, KnowsKeeps
<1>7. QED  BY <1>4, <1>5, <1>6

\* A command that a signal ends.
LEMMA EndedKeeps ==
    ASSUME ConfigInv, NEW c \in Settings, Interrupted(c) \/ SettingKilled(c)
    PROVE  ConfigInv'
<1> DEFINE t == tuning[c]
<1>1. /\ t \in TuningStates /\ TuneSound(t, relayKey)
      /\ signals \in 0 .. MaxSignals /\ tempFiles \in SUBSET Settings
    BY TuningTyped
<1>2. {"killed", "failed"} \subseteq ConfigStages
    BY Stages
<1>3. /\ UNCHANGED <<values, tempFiles, relayKey, saver, environment>>
      /\ signals' \in 0 .. MaxSignals /\ t.at # "done"
    <2>1. signals' = signals + 1 /\ signals < MaxSignals
        BY DEF Interrupted, SettingKilled
    <2>2. QED  BY <1>1, <2>1, MaxSignalsAssumption DEF Interrupted, SettingKilled, Over
<1>4. CASE Interrupted(c) /\ t.asked = 1
    <2> DEFINE w == [t EXCEPT !.at = "failed", !.echo = TRUE]
    <2>1. Tuned(c, w) /\ c \notin tempFiles
        BY <1>4 DEF Interrupted, ConfigInv, TempFilesOwned
    <2>2. /\ w \in TuningStates /\ w.at = "failed" /\ w.kind = t.kind /\ w.option = t.option
          /\ w.base = t.base /\ w.next = t.next /\ w.typed = t.typed /\ w.echo
          /\ w.confirmed = t.confirmed /\ w.verified = t.verified /\ w.replaced = t.replaced
          /\ w.wrote = t.wrote
        BY <1>1, <1>2 DEF TuningStates
    <2> HIDE DEF w
    <2>3. TuneSound(w, relayKey)
        BY <1>1, <2>2 DEF TuneSound, KindFits, UrlsOwn, KeyKnown, EchoKept, IdentityKept
    <2>4. QED  BY <1>1, <1>3, <2>1, <2>2, <2>3, TuningKeeps
<1>5. CASE ~(Interrupted(c) /\ t.asked = 1)
    <2> DEFINE w == [t EXCEPT !.at = "killed"]
    <2>1. Tuned(c, w)
        BY <1>5 DEF Interrupted, SettingKilled, Reaches
    <2>2. /\ w \in TuningStates /\ w.at = "killed" /\ w.kind = t.kind /\ w.option = t.option
          /\ w.base = t.base /\ w.next = t.next /\ w.typed = t.typed
          /\ w.confirmed = t.confirmed /\ w.verified = t.verified /\ w.replaced = t.replaced
          /\ w.wrote = t.wrote
        BY <1>1, <1>2 DEF TuningStates
    <2> HIDE DEF w
    <2>3. TuneSound(w, relayKey)
        BY <1>1, <2>2 DEF TuneSound, KindFits, UrlsOwn, KeyKnown, EchoKept, IdentityKept
    <2>4. QED  BY <1>1, <1>3, <2>1, <2>2, <2>3, TuningKeeps
<1>6. QED  BY <1>4, <1>5

\* Setup takes the values of the file, asks, and lays the answers over them.
LEMMA SetupKeeps ==
    ASSUME ConfigInv, NEW c \in Settings,
           StartsSetup(c) \/ AnswersGiven(c) \/ Confirms(c) \/ VerifiesConnection(c)
    PROVE  ConfigInv'
<1> DEFINE t == tuning[c]
<1>1. /\ t \in TuningStates /\ TuneSound(t, relayKey) /\ t.next \in Values /\ t.base \in Values
      /\ t.option \in BOOLEAN
      /\ values \in Values /\ values.url \in 0..2 /\ (values.key = "made" => relayKey # "nobody")
      /\ signals \in 0 .. MaxSignals /\ tempFiles \in SUBSET Settings
    BY TuningTyped DEF TuningStates
<1>2. {"prompts", "confirms", "saves", "verifies", "failed"} \subseteq ConfigStages
    BY Stages
<1>3. NoFileChange
    BY DEF StartsSetup, AnswersGiven, Confirms, VerifiesConnection
<1>4. CASE StartsSetup(c)
    <2>1. PICK url \in UrlsAccepted, otherToken \in BOOLEAN :
              Tuned(c, [t EXCEPT !.at = "prompts", !.base = values, !.typed = otherToken,
                        !.next = [values EXCEPT !.url = url,
                                     !.identity = IF otherToken THEN 2 ELSE values.identity]])
        BY <1>4 DEF StartsSetup
    <2> DEFINE identity == IF otherToken THEN 2 ELSE values.identity
               next == [values EXCEPT !.url = url, !.identity = identity]
               w == [t EXCEPT !.at = "prompts", !.base = values, !.typed = otherToken, !.next = next]
    <2>2. /\ next \in Values /\ next.url \in 0..2 /\ next.key = values.key
          /\ otherToken \/ next.identity = values.identity
        <3>1. url \in 0..2 /\ url \in UrlNumbers
            BY <1>1 DEF UrlsAccepted, UrlNumbers
        <3>2. identity \in TokenNumbers
            BY <1>1 DEF Values, TokenNumbers
        <3> DEFINE own == [values EXCEPT !.url = url]
        <3>3. next = [own EXCEPT !.identity = identity]
            BY <1>1 DEF Values
        <3>4. own \in Values /\ own.url = url /\ own.key = values.key
            BY <1>1, <3>1, UrlChanged
        <3> HIDE DEF identity, next, own
        <3>5. /\ next \in Values /\ next.url = url /\ next.key = values.key
              /\ next.identity = identity
            BY <3>2, <3>3, <3>4, IdentityChanged
        <3>6. QED  BY <3>1, <3>5 DEF identity
    <2>3. Tuned(c, w) /\ t.at = "start" /\ t.kind = "setup"
        BY <1>4, <2>1 DEF StartsSetup
    <2> HIDE DEF next
    <2>4. /\ w \in TuningStates /\ w.at = "prompts" /\ w.kind = t.kind /\ w.option = t.option
          /\ w.base = values /\ w.next = next /\ w.typed = otherToken /\ w.echo = t.echo
          /\ w.confirmed = t.confirmed /\ w.verified = t.verified /\ w.replaced = t.replaced
          /\ w.wrote = t.wrote
        BY <1>1, <1>2, <2>2 DEF TuningStates
    <2> HIDE DEF w
    <2>5. TuneSound(w, relayKey)
        BY <1>1, <2>2, <2>3, <2>4
        DEF TuneSound, KindFits, UrlsOwn, KeyKnown, EchoKept, IdentityKept
    <2>6. QED  BY <1>3, <2>3, <2>4, <2>5, KnowsKeeps
<1>5. CASE AnswersGiven(c)
    <2> DEFINE at == IF IdentityChanges(c) THEN "confirms" ELSE IF t.option THEN "saves" ELSE "verifies"
               next == Applied(c)
               w == [t EXCEPT !.at = at, !.next = next]
    <2>1. Tuned(c, w) /\ t.at = "answers" /\ t.kind = "setup"
        BY <1>1, <1>5 DEF AnswersGiven, TuneSound, KindFits
    <2>2. /\ next \in Values /\ next.url = t.next.url /\ next.identity = t.next.identity
          /\ next.key = t.base.key
        <3>1. t.next.url \in UrlNumbers /\ t.next.identity \in TokenNumbers
            BY <1>1, ValueFields
        <3> DEFINE own == [t.base EXCEPT !.url = t.next.url]
        <3>2. next = [own EXCEPT !.identity = t.next.identity]
            BY <1>1 DEF Applied, WithConnection, Values
        <3>3. own \in Values /\ own.url = t.next.url /\ own.key = t.base.key
            BY <1>1, <3>1, UrlChanged
        <3> HIDE DEF next, own
        <3>4. QED  BY <3>1, <3>2, <3>3, IdentityChanged
    <2>3. /\ at \in {"confirms", "saves", "verifies"}
          /\ at = "saves" => t.option
          /\ at # "confirms" => t.base.identity = 0 \/ ~t.typed
        BY DEF IdentityChanges
    <2> HIDE DEF next, at
    <2>4. /\ w \in TuningStates /\ w.at = at /\ w.kind = t.kind /\ w.option = t.option
          /\ w.base = t.base /\ w.next = next /\ w.typed = t.typed /\ w.echo = t.echo
          /\ w.confirmed = t.confirmed /\ w.verified = t.verified /\ w.replaced = t.replaced
          /\ w.wrote = t.wrote
        BY <1>1, <1>2, <2>2, <2>3 DEF TuningStates
    <2> HIDE DEF w
    <2>5. TuneSound(w, relayKey)
        BY <1>1, <2>1, <2>2, <2>3, <2>4
        DEF TuneSound, KindFits, UrlsOwn, KeyKnown, EchoKept, IdentityKept
    <2>6. QED  BY <1>3, <2>1, <2>4, <2>5, KnowsKeeps
<1>6. CASE Confirms(c)
    <2> DEFINE at == IF t.option THEN "saves" ELSE "verifies"
               w == [t EXCEPT !.confirmed = TRUE, !.at = at]
    <2>1. Tuned(c, w) /\ t.at = "confirms" /\ t.kind = "setup"
        BY <1>1, <1>6 DEF Confirms, TuneSound, KindFits
    <2>2. at \in {"saves", "verifies"} /\ (at = "saves" => t.option)
        OBVIOUS
    <2> HIDE DEF at
    <2>3. /\ w \in TuningStates /\ w.at = at /\ w.kind = t.kind /\ w.option = t.option
          /\ w.base = t.base /\ w.next = t.next /\ w.typed = t.typed /\ w.echo = t.echo
          /\ w.confirmed /\ w.verified = t.verified /\ w.replaced = t.replaced
          /\ w.wrote = t.wrote
        BY <1>1, <1>2, <2>2 DEF TuningStates
    <2> HIDE DEF w
    <2>4. TuneSound(w, relayKey)
        BY <1>1, <2>1, <2>2, <2>3
        DEF TuneSound, KindFits, UrlsOwn, KeyKnown, EchoKept, IdentityKept
    <2>5. QED  BY <1>3, <2>1, <2>3, <2>4, KnowsKeeps
<1>7. CASE VerifiesConnection(c) /\ Reaches(c, "failed")
    <2>1. t.at = "verifies" /\ c \notin tempFiles
        BY <1>7 DEF VerifiesConnection, ConfigInv, TempFilesOwned
    <2>2. QED  BY <1>1, <1>2, <1>3, <1>7, <2>1, ReachesKeeps DEF NoFileChange
<1>8. CASE VerifiesConnection(c) /\ ~Reaches(c, "failed")
    <2> DEFINE w == [t EXCEPT !.at = "saves", !.verified = t.next]
    <2>1. Tuned(c, w) /\ t.at = "verifies" /\ t.kind = "setup"
        BY <1>1, <1>8 DEF VerifiesConnection, TuneSound, KindFits
    <2>2. /\ w \in TuningStates /\ w.at = "saves" /\ w.kind = t.kind /\ w.option = t.option
          /\ w.base = t.base /\ w.next = t.next /\ w.typed = t.typed /\ w.echo = t.echo
          /\ w.confirmed = t.confirmed /\ w.verified = t.next /\ w.replaced = t.replaced
          /\ w.wrote = t.wrote
        BY <1>1, <1>2 DEF TuningStates
    <2> HIDE DEF w
    <2>3. TuneSound(w, relayKey)
        BY <1>1, <2>1, <2>2
        DEF TuneSound, KindFits, UrlsOwn, KeyKnown, EchoKept, IdentityKept
    <2>4. QED  BY <1>3, <2>1, <2>2, <2>3, KnowsKeeps
<1>9. QED  BY <1>4, <1>5, <1>6, <1>7, <1>8

LEMMA ConfigNextKeeps ==
    ASSUME ConfigInv, [ConfigNext]_configVars
    PROVE  ConfigInv'
<1>1. CASE UNCHANGED configVars
    BY <1>1 DEF configVars, ConfigInv, ConfigShape, SaverSound, TempFilesOwned
<1>2. CASE ConfigNext
    <2>1. PICK c \in Settings : SettingStep(c) \/ Interrupted(c) \/ SettingKilled(c)
        BY <1>2 DEF ConfigNext
    <2>2. CASE Interrupted(c) \/ SettingKilled(c)
        BY <2>2, EndedKeeps
    <2>3. CASE SettingStep(c)
        BY <2>3, MovesOnKeeps, SavesKeeps, LoadsKeeps, GeneratesKeeps, PromptKeeps, SetupKeeps
        DEF SettingStep
    <2>4. QED  BY <2>1, <2>2, <2>3
<1>3. QED  BY <1>1, <1>2

LEMMA ConfigInitHolds ==
    ASSUME ConfigInit
    PROVE  ConfigInv
<1>1. Defaults \in Values /\ Defaults.url = 0 /\ Defaults.identity = 0 /\ Defaults.key = "none"
    BY DEF Defaults, Values
<1>2. /\ values \in Values /\ values.url \in 0..2
      /\ relayKey \in {"nobody", "user"} /\ (values.key = "made" => relayKey # "nobody")
    <2>1. CASE values = Defaults
        BY <1>1, <2>1 DEF ConfigInit
    <2>2. CASE values # Defaults
        <3>1. values = [url |-> 1, identity |-> 1, key |-> "made"] /\ relayKey = "user"
            BY <2>2 DEF ConfigInit
        <3>2. QED  BY <3>1 DEF Values
    <2>3. QED  BY <2>1, <2>2
<1>3. ASSUME NEW k \in SettingKinds, NEW o \in BOOLEAN
      PROVE  LET w == Waiting(k, o) IN
             w \in TuningStates /\ w.at = "start" /\ TuneSound(w, relayKey)
    <2> DEFINE w == Waiting(k, o)
    <2>1. 0 \in Nat /\ "nobody" \in KeyOwners /\ "start" \in ConfigStages
        BY Stages DEF KeyOwners
    <2>2. /\ w \in TuningStates /\ w.at = "start" /\ w.base = Defaults /\ w.next = Defaults
          /\ w.echo /\ w.replaced = "nobody" /\ w.wrote = "none"
        BY <1>1, <2>1 DEF Waiting, TuningStates
    <2> HIDE DEF w
    <2>3. TuneSound(w, relayKey)
        BY <1>1, <2>2 DEF TuneSound, KindFits, UrlsOwn, KeyKnown, EchoKept, IdentityKept
    <2>4. QED  BY <2>2, <2>3 DEF w
<1>4. ASSUME NEW c \in Settings
      PROVE  tuning[c] \in TuningStates /\ tuning[c].at = "start" /\ TuneSound(tuning[c], relayKey)
    <2>1. tuning[c] \in {Waiting(k, o) : k \in SettingKinds, o \in BOOLEAN}
        BY DEF ConfigInit
    <2>2. PICK k \in SettingKinds, o \in BOOLEAN : tuning[c] = Waiting(k, o)
        BY <2>1
    <2>3. QED  BY <1>3, <2>2
<1>5. tuning \in [Settings -> TuningStates]
    BY <1>4 DEF ConfigInit
<1>6. ConfigShape
    BY <1>2, <1>5, MaxSignalsAssumption DEF ConfigInit, ConfigShape, KeyOwners
<1>7. SaverSound /\ TempFilesOwned
    BY <1>2, SettingsAssumption DEF ConfigInit, SaverSound, TempFilesOwned
<1>8. QED  BY <1>4, <1>6, <1>7 DEF ConfigInv

\* Whatever commands change the configuration, and wherever they end, the file
\* holds what one of them loaded with its own changes.
THEOREM ConfigInvariant == ConfigSpec => []ConfigInv
<1>1. ConfigInit => ConfigInv
    BY ConfigInitHolds
<1>2. ConfigInv /\ [ConfigNext]_configVars => ConfigInv'
    BY ConfigNextKeeps
<1>3. QED  BY <1>1, <1>2, PTL DEF ConfigSpec

LEMMA ConfigTold ==
    ASSUME ConfigInv
    PROVE  /\ ConfigTypeOK /\ TempFilesOwned /\ OverridesStayOut /\ VerifiedSaved
           /\ IdentityAsked /\ KeyThere /\ EchoReturns
<1>1. ConfigTypeOK
    <2>1. \A c \in Settings : {tuning[c].base, tuning[c].next, tuning[c].verified} \subseteq Values
        BY DEF ConfigInv, ConfigShape, TuningStates
    <2>2. QED  BY <2>1 DEF ConfigTypeOK, ConfigInv, ConfigShape, KeyOwners
<1>2. OverridesStayOut
    BY DEF ConfigInv, SaverSound, OverridesStayOut, FromEnvironment, FromArgument
<1>3. VerifiedSaved /\ IdentityAsked
    BY DEF ConfigInv, SaverSound, VerifiedSaved, IdentityAsked, TuneSound, IdentityKept
<1>4. KeyThere /\ EchoReturns
    BY DEF ConfigInv, SaverSound, KeyThere, EchoReturns, TuneSound, KeyKnown, EchoKept
<1>5. QED  BY <1>1, <1>2, <1>3, <1>4 DEF ConfigInv

-----------------------------------------------------------------------------
(***************************************************************************)
(* The template of a new box                                               *)
(***************************************************************************)

PrepStages ==
    {"starts", "selects", "finds", "places", "checks", "asks", "waits", "rechecks", "builds", "creates",
     "prepares", "removes", "compares", "sends", "done", "failed", "killed"}
PrepForms == {"none", "given", "native", "pulled", "uploaded", "private"}
PrepTasks == {"none", "runs", "ok", "exists", "bad"}
PrepReasons == {"none", "node", "request", "storage", "ambiguous", "task", "late", "build"}
NodeChoices == {0} \cup Nodes
StorageChoices == {0} \cup Storages
PrepStates ==
    [at : PrepStages, node : NodeChoices, store : StorageChoices, root : StorageChoices,
     form : PrepForms, task : PrepTasks, why : PrepReasons, disturbed : BOOLEAN,
     workspace : BOOLEAN, container : BOOLEAN, litter : BOOLEAN]
Archives == Nodes \X Storages \X {"pulled", "uploaded"}

TemplatesShape ==
    /\ online \in SUBSET Nodes /\ site \in [Nodes -> Layouts] /\ ask \in [Preparations -> Requests]
    /\ natives \in 0..2 /\ stored \in SUBSET Archives
    /\ prep \in [Preparations -> PrepStates]

\* The storages of a node, l, that are good for a content; the archive of a command.
GoodStorages(l, setting, content) == {s \in Storages : content \in l[s] /\ setting \in {0, s}}
ArchiveOf(w) == <<w.node, w.store, w.form>>
WantsRoot(a) == a.kind # "pull" /\ ~a.rootfs

BeforeTemplate ==
    {"starts", "selects", "finds", "checks", "asks", "builds", "creates", "prepares", "removes",
     "compares", "sends"}
AfterSelection ==
    {"finds", "checks", "asks", "waits", "rechecks", "builds", "creates", "prepares", "removes",
     "compares", "sends"}

\* A command takes the way of its kind, and knows where its archive goes when it
\* has a task for it.
WayFits(w, a) ==
    /\ w.at = "starts" => ~w.disturbed
    /\ w.at = "finds" => a.kind = "new"
    /\ w.at \in {"checks", "asks", "waits", "rechecks", "compares"} => a.kind # "relay"
    /\ w.at = "places" => a.kind # "pull"
    /\ w.at \in BeforeTemplate \/ (w.at = "places" /\ a.kind = "relay") =>
           w.form = "none" /\ w.task = "none"
    /\ w.at \in BeforeTemplate \ {"starts"} => ~a.given
    /\ w.form = "given" => a.given
    /\ w.task # "none" => w.form \in {"pulled", "uploaded"}
    /\ w.at \in {"waits", "rechecks"} => w.task # "none"
    /\ w.at \in AfterSelection \/ (w.at = "places" /\ w.form # "given") \/ w.task # "none" =>
           w.node \in Nodes /\ w.store \in Storages

\* On a site that did not change, the storages it selected are good, and those it
\* will select are there when it chose the node for them.
PlacesFit(w, a, l) ==
    /\ ~w.disturbed =>
        /\ w.at \in AfterSelection \cup {"places", "done"} /\ w.form # "given" =>
               w.store \in GoodStorages(l[w.node], a.tmpl, "vztmpl")
        /\ /\ w.at = "done" \/ (a.kind = "relay" /\ w.at \in AfterSelection)
           /\ WantsRoot(a)
           => w.root \in GoodStorages(l[w.node], a.root, "rootdir")
        /\ a.node = 0 /\ w.at \notin {"starts", "done", "failed", "killed"} =>
               /\ WantsRoot(a) => GoodStorages(l[w.node], a.root, "rootdir") # {}
               /\ ~a.given => GoodStorages(l[w.node], a.tmpl, "vztmpl") # {}
    /\ w.why = "storage" => w.at = "failed" /\ (a.node = 0 => w.disturbed)

\* Its archive is stored once its task or a check says so.
ArchiveThere(w, V) ==
    /\ ~w.disturbed =>
        /\ w.at \in {"places", "done"} /\ w.form \in {"pulled", "uploaded"} => ArchiveOf(w) \in V
        /\ w.task \in {"ok", "exists"} => ArchiveOf(w) \in V
    /\ w.why = "task" =>
           w.at = "failed" /\ w.task # "runs" /\ (w.task = "exists" => w.disturbed)

ScratchKnown(w) ==
    /\ w.workspace => w.at \in {"creates", "prepares", "removes", "compares", "sends", "killed"}
    /\ w.container => w.at \in {"prepares", "removes", "killed"} \/ w.litter

PrepSound(w, a, l, V) ==
    WayFits(w, a) /\ PlacesFit(w, a, l) /\ ArchiveThere(w, V) /\ ScratchKnown(w)

TemplatesInv ==
    /\ TemplatesShape
    /\ \A c \in Preparations : PrepSound(prep[c], ask[c], site, stored)

LEMMA PrepTyped ==
    ASSUME TemplatesInv, NEW c \in Preparations
    PROVE  /\ prep[c] \in PrepStates /\ PrepSound(prep[c], ask[c], site, stored)
           /\ ask[c].kind \in {"new", "relay", "pull"} /\ ask[c].given \in BOOLEAN
           /\ ask[c].rootfs \in BOOLEAN
           /\ ask[c].node \in NodeChoices /\ ask[c].root \in StorageChoices
           /\ ask[c].tmpl \in StorageChoices
           /\ ask[c].given => ask[c].kind = "new"
           /\ stored \in SUBSET Archives
<1>1. ask[c] \in Requests
    BY DEF TemplatesInv, TemplatesShape
<1>2. ask[c] \in [kind : {"new", "relay", "pull"}, node : NodeChoices, given : BOOLEAN,
                  rootfs : BOOLEAN, root : StorageChoices, tmpl : StorageChoices]
    BY <1>1, TemplatesAssumption DEF NodeChoices, StorageChoices
<1>3. ask[c].given => ask[c].kind = "new"
    BY <1>1, TemplatesAssumption
<1>4. QED  BY <1>2, <1>3 DEF TemplatesInv, TemplatesShape

\* What the step of a command has to respect.
LEMMA PrepKeeps ==
    ASSUME TemplatesInv, NEW c \in Preparations, NEW w \in PrepStates, Turns(c, w),
           UNCHANGED <<siteVars, ask>>,
           stored \subseteq stored', stored' \in SUBSET Archives,
           PrepSound(w, ask[c], site, stored')
    PROVE  TemplatesInv'
<1>1. /\ prep' \in [Preparations -> PrepStates] /\ prep'[c] = w
      /\ \A d \in Preparations : d # c => prep'[d] = prep[d]
    BY DEF TemplatesInv, TemplatesShape, Turns
<1>2. TemplatesShape'
    BY <1>1 DEF TemplatesInv, TemplatesShape, siteVars
<1>3. ASSUME NEW d \in Preparations
      PROVE  PrepSound(prep'[d], ask'[d], site', stored')
    <2>1. CASE d = c
        BY <1>1, <2>1 DEF siteVars
    <2>2. CASE d # c
        <3>1. prep'[d] = prep[d] /\ ask' = ask /\ site' = site
            BY <1>1, <2>2 DEF siteVars
        <3>2. PrepSound(prep[d], ask[d], site, stored)
            BY DEF TemplatesInv
        <3>3. ArchiveThere(prep[d], stored')
            BY <3>2 DEF PrepSound, ArchiveThere
        <3>4. QED  BY <3>1, <3>2, <3>3 DEF PrepSound
    <2>3. QED  BY <2>1, <2>2
<1>4. QED  BY <1>2, <1>3 DEF TemplatesInv

\* A step that leaves the site and what is stored alone.
LEMMA PrepAlone ==
    ASSUME TemplatesInv, NEW c \in Preparations, NEW w \in PrepStates, Turns(c, w), Alone,
           PrepSound(w, ask[c], site, stored)
    PROVE  TemplatesInv'
BY PrepTyped, PrepKeeps DEF Alone

\* A command that ends, or is killed.
LEMMA PrepEnds ==
    ASSUME TemplatesInv, NEW c \in Preparations, NEW w \in PrepStates, Turns(c, w), Alone,
           w.at \in {"failed", "killed"}, w.at = "killed" => prep[c].at # "starts",
           w.node = prep[c].node, w.store = prep[c].store, w.form = prep[c].form,
           w.task = prep[c].task, w.disturbed = prep[c].disturbed,
           w.why = "storage" => w.at = "failed" /\ (ask[c].node = 0 => prep[c].disturbed),
           w.why = "task" => w.at = "failed" /\ w.task # "runs"
                                             /\ (w.task = "exists" => w.disturbed),
           w.workspace => w.at = "killed",
           w.container => w.at = "killed" \/ w.litter
    PROVE  TemplatesInv'
<1> DEFINE t == prep[c]
<1>1. t \in PrepStates /\ PrepSound(t, ask[c], site, stored)
    BY PrepTyped
<1>2. WayFits(w, ask[c])
    BY <1>1 DEF PrepSound, WayFits, BeforeTemplate, AfterSelection
<1>3. PlacesFit(w, ask[c], site)
    BY <1>1 DEF PrepSound, PlacesFit, AfterSelection
<1>4. ArchiveThere(w, stored) /\ ScratchKnown(w)
    BY <1>1 DEF PrepSound, ArchiveThere, ScratchKnown, ArchiveOf
<1>5. QED  BY <1>2, <1>3, <1>4, PrepAlone DEF PrepSound

LEMMA FailsKeeps ==
    ASSUME TemplatesInv, NEW c \in Preparations, NEW why \in PrepReasons, FailsWith(c, why), Alone,
           prep[c].at \in {"starts", "selects", "finds", "places", "rechecks", "builds"},
           why = "storage" => (ask[c].node = 0 => prep[c].disturbed),
           why = "task" => prep[c].task # "runs" /\ (prep[c].task = "exists" => prep[c].disturbed)
    PROVE  TemplatesInv'
<1> DEFINE t == prep[c]
           w == [t EXCEPT !.at = "failed", !.why = why]
<1>1. t \in PrepStates /\ PrepSound(t, ask[c], site, stored) /\ "failed" \in PrepStages
    BY PrepTyped DEF PrepStages
<1>2. /\ w \in PrepStates /\ w.at = "failed" /\ w.why = why /\ w.workspace = t.workspace
      /\ w.node = t.node /\ w.store = t.store /\ w.root = t.root /\ w.form = t.form
      /\ w.task = t.task /\ w.disturbed = t.disturbed /\ w.container = t.container
      /\ w.litter = t.litter
    BY <1>1 DEF PrepStates
<1>3. Turns(c, w)
    BY DEF FailsWith
<1> HIDE DEF w
<1>4. ~t.workspace /\ (t.container => t.litter)
    BY <1>1 DEF PrepSound, ScratchKnown
<1>5. QED  BY <1>2, <1>3, <1>4, PrepEnds

\* Some numbers have a least one.
LEMMA LeastExists ==
    ASSUME NEW S \in SUBSET Nat, S # {}
    PROVE  \E x \in S : \A y \in S : x <= y
<1> DEFINE Below(x) == S \cap (0 .. x)
           T == {Below(x) : x \in S}
<1>1. T \subseteq FiniteSubsetsOf(Nat) /\ T # {}
    <2>1. ASSUME NEW x \in S PROVE Below(x) \in FiniteSubsetsOf(Nat)
        <3>1. IsFiniteSet(0 .. x) /\ Below(x) \in SUBSET (0 .. x)
            BY FS_Interval
        <3>2. IsFiniteSet(Below(x))
            BY <3>1, FS_Subset
        <3>3. QED  BY <3>2 DEF FiniteSubsetsOf
    <2>2. QED  BY <2>1
<1>2. PICK m \in T : \A n \in T : <<n, m>> \notin StrictSubsetOrdering(Nat)
    <2> DEFINE R == StrictSubsetOrdering(Nat)
               F == FiniteSubsetsOf(Nat)
    <2>1. IsWellFoundedOn(R, F) /\ T \subseteq F /\ T # {}
        BY <1>1, FS_StrictSubsetOrderingWellFounded
    <2> HIDE DEF T, R, F
    <2>2. \E m \in T : \A n \in T : ~ (<<n, m>> \in R)
        BY <2>1, WFMin, Zenon
    <2>3. QED  BY <2>2 DEF R
<1>3. PICK x \in S : m = Below(x)
    BY <1>2
<1>4. ASSUME NEW y \in S, y < x PROVE FALSE
    <2>1. Below(y) \in T /\ x \in Below(x) /\ x \notin Below(y) /\ Below(y) \subseteq Below(x)
        BY <1>4
    <2>2. <<Below(y), m>> \notin StrictSubsetOrdering(Nat)
        BY <1>2, <2>1
    <2>3. Below(y) \subseteq Nat /\ m \subseteq Nat
        BY <1>3
    <2>4. QED  BY <1>3, <2>1, <2>2, <2>3 DEF StrictSubsetOrdering
<1>5. \A y \in S : x <= y
    BY <1>4
<1>6. QED  BY <1>5

LEMMA LeastIsThere ==
    ASSUME NEW S \in SUBSET Nat, S # {}
    PROVE  LeastOf(S) \in S
BY LeastExists DEF LeastOf

\* A storage is selected when there is one.
LEMMA SelectedFits ==
    ASSUME NEW n, NEW setting, NEW content
    PROVE  LET s == Selected(n, setting, content)
               G == GoodStorages(site[n], setting, content) IN
           /\ s \in StorageChoices
           /\ s = 0 => G = {}
           /\ s # 0 => s \in G /\ s \in Storages
<1> DEFINE G == GoodStorages(site[n], setting, content)
<1>1. Supporting(n, setting, content) = G /\ G \subseteq Storages
    BY DEF Supporting, GoodStorages
<1>2. Selected(n, setting, content) = IF G = {} THEN 0 ELSE LeastOf(G)
    BY <1>1 DEF Selected
<1>3. G \subseteq Nat \ {0}
    BY <1>1, TemplatesAssumption
<1> HIDE DEF G
<1>4. G # {} => LeastOf(G) \in G
    BY <1>3, LeastIsThere
<1>5. QED  BY <1>1, <1>2, <1>3, <1>4 DEF StorageChoices, G

LEMMA FitsMeans ==
    ASSUME NEW c \in Preparations, NEW n, Fits(c, n)
    PROVE  /\ n \in online
           /\ WantsRoot(ask[c]) => GoodStorages(site[n], ask[c].root, "rootdir") # {}
           /\ ~ask[c].given => GoodStorages(site[n], ask[c].tmpl, "vztmpl") # {}
BY DEF Fits, NeedsRoot, NeedsTemplate, WantsRoot, Supporting, GoodStorages

LEMMA ResolvesKeeps ==
    ASSUME TemplatesInv, NEW c \in Preparations, ResolvesNode(c)
    PROVE  TemplatesInv'
<1> DEFINE t == prep[c]
           N == {n \in Nodes : Fits(c, n)}
           chosen == IF ask[c].node # 0 THEN ask[c].node ELSE LeastOf(N)
           form == IF ask[c].given THEN "given" ELSE "none"
           at == IF ask[c].given THEN "places" ELSE "selects"
           w == [t EXCEPT !.node = chosen, !.form = form, !.at = at]
<1>1. /\ t \in PrepStates /\ PrepSound(t, ask[c], site, stored)
      /\ ask[c].node \in NodeChoices /\ ask[c].given \in BOOLEAN
      /\ (ask[c].given => ask[c].kind = "new")
    BY PrepTyped
<1>2. t.at = "starts" /\ Alone
    BY DEF ResolvesNode
<1>3. CASE ask[c].node = 0 /\ N = {}
    <2>1. FailsWith(c, "node") /\ "node" \in PrepReasons
        BY <1>3 DEF ResolvesNode, PrepReasons
    <2>2. QED  BY <1>2, <2>1, FailsKeeps
<1>4. CASE ~(ask[c].node = 0 /\ N = {})
    <2>1. Turns(c, w)
        BY <1>4 DEF ResolvesNode
    <2>2. chosen \in NodeChoices /\ (ask[c].node = 0 => Fits(c, chosen))
        <3>1. N \subseteq Nat /\ N \subseteq Nodes
            BY TemplatesAssumption
        <3> HIDE DEF N
        <3>2. N # {} => LeastOf(N) \in N
            BY <3>1, LeastIsThere
        <3>3. LeastOf(N) \in N => Fits(c, LeastOf(N))
            BY DEF N
        <3>4. QED  BY <1>1, <1>4, <3>1, <3>2, <3>3 DEF NodeChoices
    <2>3. form \in PrepForms /\ at \in PrepStages
        BY DEF PrepForms, PrepStages
    <2> HIDE DEF chosen
    <2>4. /\ w \in PrepStates /\ w.at = at /\ w.why = t.why /\ w.workspace = t.workspace
          /\ w.node = chosen /\ w.form = form
          /\ w.task = t.task /\ w.disturbed = t.disturbed /\ w.container = t.container
          /\ w.litter = t.litter
        BY <1>1, <2>2, <2>3 DEF PrepStates
    <2> HIDE DEF w
    <2>5. WayFits(w, ask[c])
        BY <1>1, <1>2, <2>4 DEF PrepSound, WayFits, BeforeTemplate, AfterSelection
    <2>6. PlacesFit(w, ask[c], site)
        BY <1>1, <1>2, <2>2, <2>4, FitsMeans DEF PrepSound, PlacesFit, AfterSelection
    <2>7. ArchiveThere(w, stored) /\ ScratchKnown(w)
        BY <1>1, <1>2, <2>4
        DEF PrepSound, ArchiveThere, ScratchKnown, WayFits, BeforeTemplate
    <2>8. QED  BY <1>2, <2>1, <2>4, <2>5, <2>6, <2>7, PrepAlone DEF PrepSound
<1>5. QED  BY <1>3, <1>4

LEMMA SelectsKeeps ==
    ASSUME TemplatesInv, NEW c \in Preparations, SelectsStore(c)
    PROVE  TemplatesInv'
<1> DEFINE t == prep[c]
           s == Selected(t.node, ask[c].tmpl, "vztmpl")
           at == CASE ask[c].kind = "new" -> "finds"
                   [] ask[c].kind = "relay" -> "places"
                   [] ask[c].kind = "pull" -> "checks"
           w == [t EXCEPT !.store = s, !.at = at]
<1>1. /\ t \in PrepStates /\ PrepSound(t, ask[c], site, stored)
      /\ ask[c].kind \in {"new", "relay", "pull"}
    BY PrepTyped
<1>2. t.at = "selects" /\ Alone
    BY DEF SelectsStore
<1>3. /\ s \in StorageChoices
      /\ s = 0 => GoodStorages(site[t.node], ask[c].tmpl, "vztmpl") = {}
      /\ s # 0 => s \in GoodStorages(site[t.node], ask[c].tmpl, "vztmpl") /\ s \in Storages
    BY SelectedFits
<1> HIDE DEF s
<1>4. CASE t.node \notin online
    <2>1. FailsWith(c, "request") /\ "request" \in PrepReasons
        BY <1>4 DEF SelectsStore, PrepReasons
    <2>2. QED  BY <1>2, <2>1, FailsKeeps
<1>5. CASE t.node \in online /\ s = 0
    <2>1. FailsWith(c, "storage") /\ "storage" \in PrepReasons
        BY <1>5 DEF SelectsStore, PrepReasons, s
    <2>2. ask[c].node = 0 => t.disturbed
        BY <1>1, <1>2, <1>3, <1>5 DEF PrepSound, PlacesFit, WayFits, BeforeTemplate
    <2>3. QED  BY <1>2, <2>1, <2>2, FailsKeeps
<1>6. CASE t.node \in online /\ s # 0
    <2>1. Turns(c, w)
        BY <1>6 DEF SelectsStore, s
    <2>2. /\ at \in {"finds", "places", "checks"} /\ at \in PrepStages
          /\ at = "finds" <=> ask[c].kind = "new"
          /\ at = "places" <=> ask[c].kind = "relay"
          /\ at = "checks" <=> ask[c].kind = "pull"
        BY <1>1 DEF PrepStages
    <2> HIDE DEF at
    <2>3. /\ w \in PrepStates /\ w.at = at /\ w.why = t.why /\ w.workspace = t.workspace
          /\ w.node = t.node /\ w.store = s /\ w.form = t.form
          /\ w.task = t.task /\ w.disturbed = t.disturbed /\ w.container = t.container
          /\ w.litter = t.litter
        BY <1>1, <1>3, <2>2 DEF PrepStates
    <2> HIDE DEF w
    <2>4. t.node \in Nodes
        BY <1>6 DEF TemplatesInv, TemplatesShape
    <2>5. WayFits(w, ask[c])
        BY <1>1, <1>2, <1>3, <1>6, <2>2, <2>3, <2>4
        DEF PrepSound, WayFits, BeforeTemplate, AfterSelection
    <2>6. PlacesFit(w, ask[c], site)
        BY <1>1, <1>2, <1>3, <1>6, <2>2, <2>3 DEF PrepSound, PlacesFit, AfterSelection
    <2>7. ArchiveThere(w, stored) /\ ScratchKnown(w)
        BY <1>1, <1>2, <2>2, <2>3
        DEF PrepSound, ArchiveThere, ScratchKnown, WayFits, BeforeTemplate
    <2>8. QED  BY <1>2, <2>1, <2>3, <2>5, <2>6, <2>7, PrepAlone DEF PrepSound
<1>7. QED  BY <1>4, <1>5, <1>6

\* The command goes on.
LEMMA GoesOnKeeps ==
    ASSUME TemplatesInv, NEW c \in Preparations, NEW at \in PrepStages, TurnsTo(c, at), Alone,
           <<prep[c].at, at>> \in
               {<<"finds", "checks">>, <<"checks", "asks">>, <<"asks", "builds">>,
                <<"waits", "rechecks">>, <<"prepares", "removes">>, <<"compares", "sends">>}
    PROVE  TemplatesInv'
<1> DEFINE t == prep[c]
           w == [t EXCEPT !.at = at]
<1>1. /\ t \in PrepStates /\ PrepSound(t, ask[c], site, stored)
      /\ ask[c].kind \in {"new", "relay", "pull"}
    BY PrepTyped
<1>2. /\ w \in PrepStates /\ w.at = at /\ w.node = t.node /\ w.store = t.store
      /\ w.root = t.root /\ w.form = t.form /\ w.task = t.task /\ w.why = t.why
      /\ w.disturbed = t.disturbed /\ w.workspace = t.workspace /\ w.container = t.container
      /\ w.litter = t.litter
    BY <1>1 DEF PrepStates
<1>3. Turns(c, w)
    BY DEF TurnsTo
<1>4. \/ (t.at = "finds" /\ at = "checks") \/ (t.at = "checks" /\ at = "asks")
      \/ (t.at = "asks" /\ at = "builds") \/ (t.at = "waits" /\ at = "rechecks")
      \/ (t.at = "prepares" /\ at = "removes") \/ (t.at = "compares" /\ at = "sends")
    OBVIOUS
<1> HIDE DEF w
<1>5. WayFits(w, ask[c])
    BY <1>1, <1>2, <1>4 DEF PrepSound, WayFits, BeforeTemplate, AfterSelection
<1>6. PlacesFit(w, ask[c], site)
    BY <1>1, <1>2, <1>4 DEF PrepSound, PlacesFit, WayFits, WantsRoot, BeforeTemplate, AfterSelection
<1>7. ArchiveThere(w, stored)
    BY <1>1, <1>2, <1>4 DEF PrepSound, ArchiveThere, ArchiveOf, WayFits, BeforeTemplate
<1>8. ScratchKnown(w)
    BY <1>1, <1>2, <1>4 DEF PrepSound, ScratchKnown
<1>9. QED  BY <1>2, <1>3, <1>5, <1>6, <1>7, <1>8, PrepAlone DEF PrepSound

\* The command uses an archive that is stored.
LEMMA UsesKeeps ==
    ASSUME TemplatesInv, NEW c \in Preparations, NEW form \in {"pulled", "uploaded"}, Uses(c, form), Alone,
           prep[c].at \in {"checks", "waits", "rechecks"},
           Present(c, form) \/ prep[c].disturbed,
           form = prep[c].form \/ prep[c].task = "none"
    PROVE  TemplatesInv'
<1> DEFINE t == prep[c]
           at == Prepared(c)
           w == [t EXCEPT !.at = at, !.form = form]
<1>1. /\ t \in PrepStates /\ PrepSound(t, ask[c], site, stored)
      /\ ask[c].kind \in {"new", "relay", "pull"}
    BY PrepTyped
<1>2. /\ at \in PrepStages /\ form \in PrepForms /\ at \in {"places", "done"}
      /\ at = "places" <=> ask[c].kind = "new"
      /\ Present(c, form) => <<t.node, t.store, form>> \in stored
    BY DEF Prepared, PrepStages, PrepForms, Present, Volume
<1> HIDE DEF at
<1>3. /\ w \in PrepStates /\ w.at = at /\ w.node = t.node /\ w.store = t.store
      /\ w.root = t.root /\ w.form = form /\ w.task = t.task /\ w.why = t.why
      /\ w.disturbed = t.disturbed /\ w.workspace = t.workspace /\ w.container = t.container
      /\ w.litter = t.litter
    BY <1>1, <1>2 DEF PrepStates
<1>4. Turns(c, w)
    BY DEF Uses, at
<1> HIDE DEF w
<1>5. WayFits(w, ask[c])
    BY <1>1, <1>2, <1>3 DEF PrepSound, WayFits, BeforeTemplate, AfterSelection
<1>6. PlacesFit(w, ask[c], site)
    BY <1>1, <1>2, <1>3 DEF PrepSound, PlacesFit, WayFits, WantsRoot, BeforeTemplate, AfterSelection
<1>7. ArchiveThere(w, stored)
    BY <1>1, <1>2, <1>3 DEF PrepSound, ArchiveThere, ArchiveOf, WayFits, BeforeTemplate
<1>8. ScratchKnown(w)
    BY <1>1, <1>2, <1>3 DEF PrepSound, ScratchKnown
<1>9. QED  BY <1>3, <1>4, <1>5, <1>6, <1>7, <1>8, PrepAlone DEF PrepSound

LEMMA FindsKeeps ==
    ASSUME TemplatesInv, NEW c \in Preparations, FindsNative(c) \/ ChecksPresent(c)
    PROVE  TemplatesInv'
<1> DEFINE t == prep[c]
<1>1. /\ t \in PrepStates /\ PrepSound(t, ask[c], site, stored)
      /\ ask[c].kind \in {"new", "relay", "pull"}
    BY PrepTyped
<1>2. Alone /\ {"checks", "asks", "places"} \subseteq PrepStages
      /\ "native" \in PrepForms /\ "ambiguous" \in PrepReasons
    BY DEF FindsNative, ChecksPresent, PrepStages, PrepForms, PrepReasons
<1>3. CASE FindsNative(c)
    <2>1. t.at = "finds" /\ natives \in {0, 1, 2}
        BY <1>3 DEF FindsNative, TemplatesInv, TemplatesShape
    <2>2. CASE natives = 0
        BY <1>2, <1>3, <2>1, <2>2, GoesOnKeeps DEF FindsNative
    <2>3. CASE natives = 1
        <3> DEFINE w == [t EXCEPT !.at = "places", !.form = "native"]
        <3>1. /\ w \in PrepStates /\ w.at = "places" /\ w.node = t.node /\ w.store = t.store
              /\ w.root = t.root /\ w.form = "native" /\ w.task = t.task /\ w.why = t.why
              /\ w.disturbed = t.disturbed /\ w.workspace = t.workspace /\ w.container = t.container
              /\ w.litter = t.litter
            BY <1>1, <1>2 DEF PrepStates
        <3>2. Turns(c, w)
            BY <1>3, <2>3 DEF FindsNative
        <3> HIDE DEF w
        <3>3. WayFits(w, ask[c])
            BY <1>1, <2>1, <3>1 DEF PrepSound, WayFits, BeforeTemplate, AfterSelection
        <3>4. PlacesFit(w, ask[c], site)
            BY <1>1, <2>1, <3>1 DEF PrepSound, PlacesFit, WayFits, WantsRoot, BeforeTemplate, AfterSelection
        <3>5. ArchiveThere(w, stored)
            BY <1>1, <2>1, <3>1 DEF PrepSound, ArchiveThere, ArchiveOf, WayFits, BeforeTemplate
        <3>6. ScratchKnown(w)
            BY <1>1, <2>1, <3>1 DEF PrepSound, ScratchKnown
        <3>7. QED  BY <1>2, <3>1, <3>2, <3>3, <3>4, <3>5, <3>6, PrepAlone DEF PrepSound
    <2>4. CASE natives = 2
        BY <1>2, <1>3, <2>1, <2>4, FailsKeeps DEF FindsNative
    <2>5. QED  BY <2>1, <2>2, <2>3, <2>4
<1>4. CASE ChecksPresent(c)
    <2>1. t.at = "checks" /\ t.task = "none"
        BY <1>1, <1>4 DEF ChecksPresent, PrepSound, WayFits, BeforeTemplate
    <2>2. CASE Present(c, "pulled")
        BY <1>2, <1>4, <2>1, <2>2, UsesKeeps DEF ChecksPresent
    <2>3. CASE ~Present(c, "pulled")
        BY <1>2, <1>4, <2>1, <2>3, GoesOnKeeps DEF ChecksPresent
    <2>4. QED  BY <2>2, <2>3
<1>5. QED  BY <1>3, <1>4

\* The rootfs storage.
LEMMA PlacesKeeps ==
    ASSUME TemplatesInv, NEW c \in Preparations, Places(c)
    PROVE  TemplatesInv'
<1> DEFINE t == prep[c]
           s == Selected(t.node, ask[c].root, "rootdir")
           root == IF NeedsRoot(c) THEN s ELSE 0
           at == IF ask[c].kind = "relay" THEN "builds" ELSE "done"
           w == [t EXCEPT !.root = root, !.at = at]
<1>1. /\ t \in PrepStates /\ PrepSound(t, ask[c], site, stored)
      /\ ask[c].kind \in {"new", "relay", "pull"} /\ ask[c].given \in BOOLEAN
      /\ ask[c].given => ask[c].kind = "new"
    BY PrepTyped
<1>2. t.at = "places" /\ Alone /\ (NeedsRoot(c) <=> WantsRoot(ask[c]))
    BY DEF Places, NeedsRoot, WantsRoot
<1>3. /\ s \in StorageChoices
      /\ s = 0 => GoodStorages(site[t.node], ask[c].root, "rootdir") = {}
      /\ s # 0 => s \in GoodStorages(site[t.node], ask[c].root, "rootdir") /\ s \in Storages
    BY SelectedFits
<1> HIDE DEF s
<1>4. CASE NeedsRoot(c) /\ t.node \notin online
    <2>1. FailsWith(c, "request") /\ "request" \in PrepReasons
        BY <1>4 DEF Places, PrepReasons
    <2>2. QED  BY <1>2, <2>1, FailsKeeps
<1>5. CASE NeedsRoot(c) /\ t.node \in online /\ s = 0
    <2>1. FailsWith(c, "storage") /\ "storage" \in PrepReasons
        BY <1>5 DEF Places, PrepReasons, s
    <2>2. ask[c].node = 0 => t.disturbed
        BY <1>1, <1>2, <1>3, <1>5 DEF PrepSound, PlacesFit
    <2>3. QED  BY <1>2, <2>1, <2>2, FailsKeeps
<1>6. CASE ~NeedsRoot(c) \/ (t.node \in online /\ s # 0)
    <2>1. Turns(c, w)
        BY <1>6 DEF Places, s
    <2>2. /\ at \in {"builds", "done"} /\ at \in PrepStages /\ (at = "builds" <=> ask[c].kind = "relay")
          /\ root \in StorageChoices
          /\ WantsRoot(ask[c]) => root \in GoodStorages(site[t.node], ask[c].root, "rootdir")
        BY <1>1, <1>2, <1>3, <1>6 DEF PrepStages, StorageChoices
    <2> HIDE DEF at, root
    <2>3. /\ w \in PrepStates /\ w.at = at /\ w.node = t.node /\ w.store = t.store
          /\ w.root = root /\ w.form = t.form /\ w.task = t.task /\ w.why = t.why
          /\ w.disturbed = t.disturbed /\ w.workspace = t.workspace /\ w.container = t.container
          /\ w.litter = t.litter
        BY <1>1, <2>2 DEF PrepStates
    <2> HIDE DEF w
    <2>4. WayFits(w, ask[c])
        BY <1>1, <1>2, <2>2, <2>3 DEF PrepSound, WayFits, BeforeTemplate, AfterSelection
    <2>5. PlacesFit(w, ask[c], site)
        BY <1>1, <1>2, <2>2, <2>3 DEF PrepSound, PlacesFit, WayFits, WantsRoot, BeforeTemplate, AfterSelection
    <2>6. ArchiveThere(w, stored)
        BY <1>1, <1>2, <2>2, <2>3 DEF PrepSound, ArchiveThere, ArchiveOf, WayFits, BeforeTemplate
    <2>7. ScratchKnown(w)
        BY <1>1, <1>2, <2>2, <2>3 DEF PrepSound, ScratchKnown
    <2>8. QED  BY <1>2, <2>1, <2>3, <2>4, <2>5, <2>6, <2>7, PrepAlone DEF PrepSound
<1>7. QED  BY <1>4, <1>5, <1>6

\* Proxmox is asked to pull the image.
LEMMA PullKeeps ==
    ASSUME TemplatesInv, NEW c \in Preparations, AsksPull(c)
    PROVE  TemplatesInv'
<1> DEFINE t == prep[c]
<1>1. /\ t \in PrepStates /\ PrepSound(t, ask[c], site, stored) /\ stored \in SUBSET Archives
      /\ ask[c].kind \in {"new", "relay", "pull"}
    BY PrepTyped
<1>2. /\ Alone /\ t.at = "asks" /\ {"waits", "rechecks", "builds"} \subseteq PrepStages
      /\ "pulled" \in PrepForms /\ {"runs", "exists", "bad"} \subseteq PrepTasks
    BY DEF AsksPull, PrepStages, PrepForms, PrepTasks
<1>3. PICK task \in {"runs", "exists", "bad"}, at \in {"waits", "rechecks"} :
          \/ TurnsTo(c, "builds")
          \/ /\ Turns(c, [t EXCEPT !.at = at, !.form = "pulled", !.task = task])
             /\ task = "exists" => Present(c, "pulled")
    BY DEF AsksPull
<1>4. CASE TurnsTo(c, "builds")
    BY <1>2, <1>4, GoesOnKeeps
<1>5. CASE ~TurnsTo(c, "builds")
    <2> DEFINE w == [t EXCEPT !.at = at, !.form = "pulled", !.task = task]
    <2>1. Turns(c, w) /\ (task = "exists" => <<t.node, t.store, "pulled">> \in stored)
        BY <1>3, <1>5 DEF Present, Volume
    <2>2. /\ w \in PrepStates /\ w.at = at /\ w.node = t.node /\ w.store = t.store
          /\ w.root = t.root /\ w.form = "pulled" /\ w.task = task /\ w.why = t.why
          /\ w.disturbed = t.disturbed /\ w.workspace = t.workspace /\ w.container = t.container
          /\ w.litter = t.litter
        BY <1>1, <1>2 DEF PrepStages, PrepStates
    <2> HIDE DEF w
    <2>3. WayFits(w, ask[c])
        BY <1>1, <1>2, <1>3, <2>1, <2>2 DEF PrepSound, WayFits, BeforeTemplate, AfterSelection
    <2>4. PlacesFit(w, ask[c], site)
        BY <1>1, <1>2, <1>3, <2>1, <2>2 DEF PrepSound, PlacesFit, WayFits, WantsRoot, BeforeTemplate, AfterSelection
    <2>5. ArchiveThere(w, stored)
        BY <1>1, <1>2, <1>3, <2>1, <2>2 DEF PrepSound, ArchiveThere, ArchiveOf, WayFits, BeforeTemplate
    <2>6. ScratchKnown(w)
        BY <1>1, <1>2, <1>3, <2>1, <2>2 DEF PrepSound, ScratchKnown
    <2>7. QED  BY <1>2, <2>1, <2>2, <2>3, <2>4, <2>5, <2>6, PrepAlone DEF PrepSound
<1>6. QED  BY <1>4, <1>5

\* The task of a command stores its archive, or fails.
LEMMA TaskKeeps ==
    ASSUME TemplatesInv, NEW c \in Preparations, TaskEnds(c)
    PROVE  TemplatesInv'
<1> DEFINE t == prep[c]
<1>1. /\ t \in PrepStates /\ PrepSound(t, ask[c], site, stored) /\ stored \in SUBSET Archives
      /\ ask[c].kind \in {"new", "relay", "pull"}
    BY PrepTyped
<1>2. /\ t.task = "runs" /\ UNCHANGED <<siteVars, ask>>
      /\ {"ok", "exists", "bad"} \subseteq PrepTasks
    BY DEF TaskEnds, PrepTasks
<1>3. /\ t.node \in Nodes /\ t.store \in Storages /\ t.form \in {"pulled", "uploaded"}
      /\ ArchiveOf(t) \in Archives /\ Volume(c, t.form) = ArchiveOf(t)
    BY <1>1, <1>2 DEF PrepSound, WayFits, ArchiveOf, Volume, Archives
<1>4. PICK task \in {"ok", "exists", "bad"} :
          /\ Turns(c, [t EXCEPT !.task = task])
          /\ stored' = IF task = "ok" THEN stored \cup {ArchiveOf(t)} ELSE stored
          /\ task = "exists" => ArchiveOf(t) \in stored
    <2>1. CASE Turns(c, [t EXCEPT !.task = "ok"]) /\ stored' = stored \cup {Volume(c, t.form)}
        BY <1>3, <2>1
    <2>2. CASE Turns(c, [t EXCEPT !.task = "exists"]) /\ UNCHANGED stored /\ Present(c, t.form)
        BY <1>3, <2>2 DEF Present
    <2>3. CASE Turns(c, [t EXCEPT !.task = "bad"]) /\ UNCHANGED stored
        BY <2>3
    <2>4. QED  BY <2>1, <2>2, <2>3 DEF TaskEnds
<1> DEFINE w == [t EXCEPT !.task = task]
<1>5. /\ w \in PrepStates /\ w.at = t.at /\ w.node = t.node /\ w.store = t.store
      /\ w.root = t.root /\ w.form = t.form /\ w.task = task /\ w.why = t.why
      /\ w.disturbed = t.disturbed /\ w.workspace = t.workspace /\ w.container = t.container
      /\ w.litter = t.litter
    BY <1>1, <1>2 DEF PrepStates
<1>6. /\ Turns(c, w) /\ stored \subseteq stored' /\ stored' \in SUBSET Archives
      /\ ArchiveOf(w) = ArchiveOf(t)
      /\ task \in {"ok", "exists"} => ArchiveOf(t) \in stored'
    BY <1>1, <1>3, <1>4, <1>5 DEF ArchiveOf
<1> HIDE DEF w
<1>7. WayFits(w, ask[c])
    BY <1>1, <1>2, <1>5 DEF PrepSound, WayFits, BeforeTemplate, AfterSelection
<1>8. PlacesFit(w, ask[c], site) /\ ScratchKnown(w)
    BY <1>1, <1>5 DEF PrepSound, PlacesFit, ScratchKnown
<1>9. ArchiveThere(w, stored')
    BY <1>1, <1>2, <1>5, <1>6 DEF PrepSound, ArchiveThere
<1>10. QED  BY <1>2, <1>5, <1>6, <1>7, <1>8, <1>9, PrepKeeps DEF PrepSound

\* The command waits for its task, and looks again when it is not done.
LEMMA AwaitsKeeps ==
    ASSUME TemplatesInv, NEW c \in Preparations, AwaitsTask(c) \/ Rechecks(c)
    PROVE  TemplatesInv'
<1> DEFINE t == prep[c]
<1>1. /\ t \in PrepStates /\ PrepSound(t, ask[c], site, stored) /\ stored \in SUBSET Archives
      /\ ask[c].kind \in {"new", "relay", "pull"}
    BY PrepTyped
<1>2. /\ Alone /\ t.at \in {"waits", "rechecks"}
      /\ "rechecks" \in PrepStages /\ {"late", "task"} \subseteq PrepReasons
    BY DEF AwaitsTask, Rechecks, PrepStages, PrepReasons
<1>3. /\ t.task \in {"runs", "ok", "exists", "bad"} /\ t.form \in {"pulled", "uploaded"}
      /\ t.task \in {"ok", "exists"} => Present(c, t.form) \/ t.disturbed
    <2>1. t.task \in PrepTasks
        BY <1>1 DEF PrepStates
    <2>2. ArchiveOf(t) = Volume(c, t.form)
        BY DEF ArchiveOf, Volume
    <2>3. QED  BY <1>1, <1>2, <2>1, <2>2
               DEF PrepSound, WayFits, ArchiveThere, PrepTasks, Present
<1>4. CASE AwaitsTask(c) /\ t.task = "ok"
    <2>1. Uses(c, t.form)
        BY <1>4 DEF AwaitsTask
    <2>2. QED  BY <1>2, <1>3, <1>4, <2>1, UsesKeeps
<1>5. CASE AwaitsTask(c) /\ t.task # "ok"
    <2>1. TurnsTo(c, "rechecks") /\ t.at = "waits"
        BY <1>3, <1>5 DEF AwaitsTask
    <2>2. QED  BY <1>2, <2>1, GoesOnKeeps
<1>6. CASE Rechecks(c) /\ Present(c, t.form)
    <2>1. Uses(c, t.form) /\ t.at = "rechecks"
        BY <1>6 DEF Rechecks
    <2>2. QED  BY <1>2, <1>3, <1>6, <2>1, UsesKeeps
<1>7. CASE Rechecks(c) /\ ~Present(c, t.form)
    <2> DEFINE why == IF t.task = "runs" THEN "late" ELSE "task"
    <2>1. FailsWith(c, why) /\ t.at = "rechecks"
        BY <1>7 DEF Rechecks
    <2>2. why \in PrepReasons /\ why # "storage" /\ (why = "task" => t.task # "runs")
        BY <1>2
    <2> HIDE DEF why
    <2>3. t.task = "exists" => t.disturbed
        BY <1>3, <1>7
    <2>4. QED  BY <1>2, <2>1, <2>2, <2>3, FailsKeeps
<1>8. QED  BY <1>4, <1>5, <1>6, <1>7

\* The image is built here.
LEMMA BuildsKeeps ==
    ASSUME TemplatesInv, NEW c \in Preparations,
           MakesWorkspace(c) \/ CreatesContainer(c) \/ PreparesImage(c)
    PROVE  TemplatesInv'
<1> DEFINE t == prep[c]
<1>1. /\ t \in PrepStates /\ PrepSound(t, ask[c], site, stored) /\ stored \in SUBSET Archives
      /\ ask[c].kind \in {"new", "relay", "pull"}
    BY PrepTyped
<1>2. /\ Alone /\ {"creates", "prepares", "removes", "failed"} \subseteq PrepStages
      /\ "build" \in PrepReasons
    BY DEF MakesWorkspace, CreatesContainer, PreparesImage, PrepStages, PrepReasons
<1>3. CASE MakesWorkspace(c) /\ FailsWith(c, "build")
    BY <1>2, <1>3, FailsKeeps DEF MakesWorkspace
<1>4. CASE MakesWorkspace(c) /\ ~FailsWith(c, "build")
    <2> DEFINE w == [t EXCEPT !.at = "creates", !.workspace = TRUE]
    <2>1. t.at = "builds"
        BY <1>4 DEF MakesWorkspace
    <2>2. Turns(c, w)
        BY <1>4 DEF MakesWorkspace
    <2>3. /\ w \in PrepStates /\ w.at = "creates" /\ w.node = t.node /\ w.store = t.store
          /\ w.root = t.root /\ w.form = t.form /\ w.task = t.task /\ w.why = t.why
          /\ w.disturbed = t.disturbed /\ w.workspace /\ w.container = t.container
          /\ w.litter = t.litter
        BY <1>1, <1>2 DEF PrepStates
    <2> HIDE DEF w
    <2>4. WayFits(w, ask[c])
        BY <1>1, <2>1, <2>3 DEF PrepSound, WayFits, BeforeTemplate, AfterSelection
    <2>5. PlacesFit(w, ask[c], site)
        BY <1>1, <2>1, <2>3 DEF PrepSound, PlacesFit, WayFits, WantsRoot, BeforeTemplate, AfterSelection
    <2>6. ArchiveThere(w, stored)
        BY <1>1, <2>1, <2>3 DEF PrepSound, ArchiveThere, ArchiveOf, WayFits, BeforeTemplate
    <2>7. ScratchKnown(w)
        BY <1>1, <2>1, <2>3 DEF PrepSound, ScratchKnown
    <2>8. QED  BY <1>2, <2>2, <2>3, <2>4, <2>5, <2>6, <2>7, PrepAlone DEF PrepSound
<1>5. CASE CreatesContainer(c)
    <2>1. t.at = "creates"
        BY <1>5 DEF CreatesContainer
    <2>2. \/ Turns(c, [t EXCEPT !.at = "prepares", !.container = TRUE])
          \/ \E made \in BOOLEAN :
                 Turns(c, [t EXCEPT !.at = "failed", !.why = "build",
                               !.workspace = FALSE, !.container = made, !.litter = TRUE])
        BY <1>5 DEF CreatesContainer, LocalCommand
    <2>3. CASE Turns(c, [t EXCEPT !.at = "prepares", !.container = TRUE])
        <3> DEFINE w == [t EXCEPT !.at = "prepares", !.container = TRUE]
        <3>1. /\ w \in PrepStates /\ w.at = "prepares" /\ w.node = t.node /\ w.store = t.store
              /\ w.root = t.root /\ w.form = t.form /\ w.task = t.task /\ w.why = t.why
              /\ w.disturbed = t.disturbed /\ w.workspace = t.workspace /\ w.container
              /\ w.litter = t.litter
            BY <1>1, <1>2 DEF PrepStates
        <3>2. Turns(c, w)
            BY <2>3
        <3> HIDE DEF w
        <3>3. WayFits(w, ask[c])
            BY <1>1, <2>1, <3>1 DEF PrepSound, WayFits, BeforeTemplate, AfterSelection
        <3>4. PlacesFit(w, ask[c], site)
            BY <1>1, <2>1, <3>1 DEF PrepSound, PlacesFit, WayFits, WantsRoot, BeforeTemplate, AfterSelection
        <3>5. ArchiveThere(w, stored)
            BY <1>1, <2>1, <3>1 DEF PrepSound, ArchiveThere, ArchiveOf, WayFits, BeforeTemplate
        <3>6. ScratchKnown(w)
            BY <1>1, <2>1, <3>1 DEF PrepSound, ScratchKnown
        <3>7. QED  BY <1>2, <3>1, <3>2, <3>3, <3>4, <3>5, <3>6, PrepAlone DEF PrepSound
    <2>4. ASSUME NEW made \in BOOLEAN,
                 Turns(c, [t EXCEPT !.at = "failed", !.why = "build",
                               !.workspace = FALSE, !.container = made, !.litter = TRUE])
          PROVE  TemplatesInv'
        <3> DEFINE w == [t EXCEPT !.at = "failed", !.why = "build",
                               !.workspace = FALSE, !.container = made, !.litter = TRUE]
        <3>1. /\ w \in PrepStates /\ w.at = "failed" /\ w.node = t.node /\ w.store = t.store
              /\ w.root = t.root /\ w.form = t.form /\ w.task = t.task /\ w.why = "build"
              /\ w.disturbed = t.disturbed /\ ~w.workspace /\ w.container = made
              /\ w.litter
            BY <1>1, <1>2 DEF PrepStates
        <3>2. Turns(c, w)
            BY <2>4
        <3> HIDE DEF w
        <3>3. QED  BY <1>2, <2>1, <3>1, <3>2, PrepEnds
    <2>5. QED  BY <2>2, <2>3, <2>4
<1>6. CASE PreparesImage(c) /\ TurnsTo(c, "removes")
    BY <1>2, <1>6, GoesOnKeeps DEF PreparesImage
<1>7. CASE PreparesImage(c) /\ ~TurnsTo(c, "removes")
    <2> DEFINE w == [t EXCEPT !.at = "removes", !.why = "build"]
    <2>1. t.at = "prepares" /\ Turns(c, w)
        BY <1>7 DEF PreparesImage, LocalCommand
    <2>2. /\ w \in PrepStates /\ w.at = "removes" /\ w.node = t.node /\ w.store = t.store
          /\ w.root = t.root /\ w.form = t.form /\ w.task = t.task /\ w.why = "build"
          /\ w.disturbed = t.disturbed /\ w.workspace = t.workspace /\ w.container = t.container
          /\ w.litter = t.litter
        BY <1>1, <1>2 DEF PrepStates
    <2> HIDE DEF w
    <2>3. WayFits(w, ask[c])
        BY <1>1, <2>1, <2>2 DEF PrepSound, WayFits, BeforeTemplate, AfterSelection
    <2>4. PlacesFit(w, ask[c], site)
        BY <1>1, <2>1, <2>2 DEF PrepSound, PlacesFit, WayFits, WantsRoot, BeforeTemplate, AfterSelection
    <2>5. ArchiveThere(w, stored)
        BY <1>1, <2>1, <2>2 DEF PrepSound, ArchiveThere, ArchiveOf, WayFits, BeforeTemplate
    <2>6. ScratchKnown(w)
        BY <1>1, <2>1, <2>2 DEF PrepSound, ScratchKnown
    <2>7. QED  BY <1>2, <2>1, <2>2, <2>3, <2>4, <2>5, <2>6, PrepAlone DEF PrepSound
<1>8. QED  BY <1>3, <1>4, <1>5, <1>6, <1>7

\* The container is removed, and the archive sent.
LEMMA SendsKeeps ==
    ASSUME TemplatesInv, NEW c \in Preparations,
           RemovesContainer(c) \/ ChecksUploaded(c) \/ UploadsArchive(c)
    PROVE  TemplatesInv'
<1> DEFINE t == prep[c]
<1>1. /\ t \in PrepStates /\ PrepSound(t, ask[c], site, stored) /\ stored \in SUBSET Archives
      /\ ask[c].kind \in {"new", "relay", "pull"}
    BY PrepTyped
<1>2. /\ Alone /\ {"sends", "compares", "failed", "places", "done", "waits"} \subseteq PrepStages
      /\ "build" \in PrepReasons /\ {"uploaded", "private"} \subseteq PrepForms
      /\ {"none", "runs"} \subseteq PrepTasks
    BY DEF RemovesContainer, ChecksUploaded, UploadsArchive, PrepStages, PrepReasons, PrepForms, PrepTasks
<1>3. CASE RemovesContainer(c)
    <2> DEFINE at == IF ask[c].kind = "relay" THEN "sends" ELSE "compares"
    <2>1. t.at = "removes"
        BY <1>3 DEF RemovesContainer
    <2>2. PICK gone \in BOOLEAN :
              IF gone /\ t.why = "none"
              THEN Turns(c, [t EXCEPT !.container = FALSE, !.at = at])
              ELSE Turns(c, [t EXCEPT !.at = "failed", !.why = "build",
                    !.container = ~gone, !.litter = ~gone, !.workspace = FALSE])
        BY <1>3 DEF RemovesContainer
    <2>3. at \in {"sends", "compares"} /\ (at = "compares" => ask[c].kind # "relay")
        OBVIOUS
    <2> HIDE DEF at
    <2>4. CASE gone /\ t.why = "none"
        <3> DEFINE w == [t EXCEPT !.container = FALSE, !.at = at]
        <3>1. /\ w \in PrepStates /\ w.at = at /\ w.node = t.node /\ w.store = t.store
              /\ w.root = t.root /\ w.form = t.form /\ w.task = t.task /\ w.why = t.why
              /\ w.disturbed = t.disturbed /\ w.workspace = t.workspace /\ ~w.container
              /\ w.litter = t.litter
            BY <1>1, <1>2, <2>3 DEF PrepStates
        <3>2. Turns(c, w)
            BY <2>2, <2>4
        <3> HIDE DEF w
        <3>3. WayFits(w, ask[c])
            BY <1>1, <2>1, <2>3, <3>1 DEF PrepSound, WayFits, BeforeTemplate, AfterSelection
        <3>4. PlacesFit(w, ask[c], site)
            BY <1>1, <2>1, <2>3, <3>1 DEF PrepSound, PlacesFit, WayFits, WantsRoot, BeforeTemplate, AfterSelection
        <3>5. ArchiveThere(w, stored)
            BY <1>1, <2>1, <2>3, <3>1 DEF PrepSound, ArchiveThere, ArchiveOf, WayFits, BeforeTemplate
        <3>6. ScratchKnown(w)
            BY <1>1, <2>1, <2>3, <3>1 DEF PrepSound, ScratchKnown
        <3>7. QED  BY <1>2, <3>1, <3>2, <3>3, <3>4, <3>5, <3>6, PrepAlone DEF PrepSound
    <2>5. CASE ~(gone /\ t.why = "none")
        <3> DEFINE left == ~gone
                   w == [t EXCEPT !.at = "failed", !.why = "build",
                             !.container = left, !.litter = left, !.workspace = FALSE]
        <3>1. Turns(c, w) /\ left \in BOOLEAN
            BY <2>2, <2>5
        <3> HIDE DEF left
        <3>2. /\ w \in PrepStates /\ w.at = "failed" /\ w.node = t.node /\ w.store = t.store
              /\ w.root = t.root /\ w.form = t.form /\ w.task = t.task /\ w.why = "build"
              /\ w.disturbed = t.disturbed /\ ~w.workspace /\ w.container = left
              /\ w.litter = left
            BY <1>1, <1>2, <3>1 DEF PrepStates
        <3> HIDE DEF w
        <3>3. QED  BY <1>2, <2>1, <3>1, <3>2, PrepEnds
    <2>6. QED  BY <2>4, <2>5
<1>4. CASE ChecksUploaded(c) /\ Present(c, "uploaded")
    <2> DEFINE at == Prepared(c)
               w == [t EXCEPT !.at = at, !.form = "uploaded", !.workspace = FALSE]
    <2>1. /\ t.at = "compares" /\ Turns(c, w) /\ <<t.node, t.store, "uploaded">> \in stored
          /\ at \in {"places", "done"} /\ (at = "places" <=> ask[c].kind = "new")
        BY <1>4 DEF ChecksUploaded, Present, Volume, Prepared
    <2> HIDE DEF at
    <2>2. /\ w \in PrepStates /\ w.at = at /\ w.node = t.node /\ w.store = t.store
          /\ w.root = t.root /\ w.form = "uploaded" /\ w.task = t.task /\ w.why = t.why
          /\ w.disturbed = t.disturbed /\ ~w.workspace /\ w.container = t.container
          /\ w.litter = t.litter
        BY <1>1, <1>2, <2>1 DEF PrepStates
    <2> HIDE DEF w
    <2>3. WayFits(w, ask[c])
        BY <1>1, <2>1, <2>2 DEF PrepSound, WayFits, BeforeTemplate, AfterSelection
    <2>4. PlacesFit(w, ask[c], site)
        BY <1>1, <2>1, <2>2 DEF PrepSound, PlacesFit, WayFits, WantsRoot, BeforeTemplate, AfterSelection
    <2>5. ArchiveThere(w, stored)
        BY <1>1, <2>1, <2>2 DEF PrepSound, ArchiveThere, ArchiveOf, WayFits, BeforeTemplate
    <2>6. ScratchKnown(w)
        BY <1>1, <2>1, <2>2 DEF PrepSound, ScratchKnown
    <2>7. QED  BY <1>2, <2>1, <2>2, <2>3, <2>4, <2>5, <2>6, PrepAlone DEF PrepSound
<1>5. CASE ChecksUploaded(c) /\ ~Present(c, "uploaded")
    BY <1>2, <1>5, GoesOnKeeps DEF ChecksUploaded
<1>6. CASE UploadsArchive(c)
    <2> DEFINE relay == ask[c].kind = "relay"
               at == IF relay THEN "done" ELSE "waits"
               form == IF relay THEN "private" ELSE "uploaded"
               task == IF relay THEN "none" ELSE "runs"
               w == [t EXCEPT !.workspace = FALSE, !.at = at, !.form = form, !.task = task]
    <2>1. t.at = "sends" /\ Turns(c, w)
        BY <1>6 DEF UploadsArchive
    <2>2. /\ at \in PrepStages /\ form \in PrepForms /\ task \in PrepTasks
          /\ \/ relay /\ at = "done" /\ form = "private" /\ task = "none"
             \/ ~relay /\ at = "waits" /\ form = "uploaded" /\ task = "runs"
        BY <1>2
    <2> HIDE DEF at, form, task
    <2>3. /\ w \in PrepStates /\ w.at = at /\ w.node = t.node /\ w.store = t.store
          /\ w.root = t.root /\ w.form = form /\ w.task = task /\ w.why = t.why
          /\ w.disturbed = t.disturbed /\ ~w.workspace /\ w.container = t.container
          /\ w.litter = t.litter
        BY <1>1, <2>2 DEF PrepStates
    <2> HIDE DEF w
    <2>4. WayFits(w, ask[c])
        BY <1>1, <2>1, <2>2, <2>3 DEF PrepSound, WayFits, BeforeTemplate, AfterSelection
    <2>5. PlacesFit(w, ask[c], site)
        BY <1>1, <2>1, <2>2, <2>3 DEF PrepSound, PlacesFit, WayFits, WantsRoot, BeforeTemplate, AfterSelection
    <2>6. ArchiveThere(w, stored)
        BY <1>1, <2>1, <2>2, <2>3 DEF PrepSound, ArchiveThere, ArchiveOf, WayFits, BeforeTemplate
    <2>7. ScratchKnown(w)
        BY <1>1, <2>1, <2>2, <2>3 DEF PrepSound, ScratchKnown
    <2>8. QED  BY <1>2, <2>1, <2>3, <2>4, <2>5, <2>6, <2>7, PrepAlone DEF PrepSound
<1>7. QED  BY <1>3, <1>4, <1>5, <1>6

\* A request that fails, and a command that is killed.
LEMMA StopsKeeps ==
    ASSUME TemplatesInv, NEW c \in Preparations, SiteRequestFails(c) \/ PreparationKilled(c)
    PROVE  TemplatesInv'
<1> DEFINE t == prep[c]
<1>1. /\ t \in PrepStates /\ PrepSound(t, ask[c], site, stored) /\ stored \in SUBSET Archives
      /\ ask[c].kind \in {"new", "relay", "pull"}
    BY PrepTyped
<1>2. /\ Alone /\ {"failed", "killed"} \subseteq PrepStages /\ "request" \in PrepReasons
    BY DEF SiteRequestFails, PreparationKilled, PrepStages, PrepReasons
<1>3. CASE SiteRequestFails(c)
    <2> DEFINE w == [t EXCEPT !.at = "failed", !.why = "request", !.workspace = FALSE]
    <2>1. /\ Turns(c, w)
          /\ t.at \in {"starts", "selects", "finds", "checks", "asks", "rechecks", "compares",
                       "sends", "places"}
        BY <1>3 DEF SiteRequestFails
    <2>2. /\ w \in PrepStates /\ w.at = "failed" /\ w.node = t.node /\ w.store = t.store
          /\ w.root = t.root /\ w.form = t.form /\ w.task = t.task /\ w.why = "request"
          /\ w.disturbed = t.disturbed /\ ~w.workspace /\ w.container = t.container
          /\ w.litter = t.litter
        BY <1>1, <1>2 DEF PrepStates
    <2> HIDE DEF w
    <2>3. t.container => t.litter
        BY <1>1, <2>1 DEF PrepSound, ScratchKnown
    <2>4. QED  BY <1>2, <2>1, <2>2, <2>3, PrepEnds
<1>4. CASE PreparationKilled(c)
    <2> DEFINE w == [t EXCEPT !.at = "killed"]
    <2>1. Turns(c, w) /\ t.at \notin {"starts", "done", "failed", "killed"}
        BY <1>4 DEF PreparationKilled, TurnsTo, Settled
    <2>2. /\ w \in PrepStates /\ w.at = "killed" /\ w.node = t.node /\ w.store = t.store
          /\ w.root = t.root /\ w.form = t.form /\ w.task = t.task /\ w.why = t.why
          /\ w.disturbed = t.disturbed /\ w.workspace = t.workspace /\ w.container = t.container
          /\ w.litter = t.litter
        BY <1>1, <1>2 DEF PrepStates
    <2> HIDE DEF w
    <2>3. t.why \notin {"storage", "task"}
        BY <1>1, <2>1 DEF PrepSound, PlacesFit, ArchiveThere
    <2>4. QED  BY <1>2, <2>1, <2>2, <2>3, PrepEnds
<1>5. QED  BY <1>3, <1>4

\* The site changes behind the commands: those that have begun are disturbed.
LEMMA SiteChangeKeeps ==
    ASSUME TemplatesInv, TemplateRemoved \/ (\E n \in Nodes : NodeTurns(n) \/ StorageChanges(n))
    PROVE  TemplatesInv'
<1>1. Changes /\ ask' = ask /\ Disturbs
    BY DEF TemplateRemoved, NodeTurns, StorageChanges, Changes
<1>2. /\ online' \in SUBSET Nodes /\ site' \in [Nodes -> Layouts] /\ natives' \in 0..2
      /\ stored' \in SUBSET Archives
    <2>1. CASE TemplateRemoved
        BY <2>1 DEF TemplateRemoved, siteVars, TemplatesInv, TemplatesShape
    <2>2. CASE \E n \in Nodes : NodeTurns(n)
        BY <2>2 DEF NodeTurns, TemplatesInv, TemplatesShape
    <2>3. CASE \E n \in Nodes : StorageChanges(n)
        BY <2>3 DEF StorageChanges, TemplatesInv, TemplatesShape
    <2>4. QED  BY <2>1, <2>2, <2>3
<1>3. ASSUME NEW c \in Preparations
      PROVE  prep'[c] \in PrepStates /\ PrepSound(prep'[c], ask[c], site', stored')
    <2> DEFINE t == prep[c]
               after == t.disturbed \/ t.at # "starts"
               w == [t EXCEPT !.disturbed = after]
    <2>1. t \in PrepStates /\ PrepSound(t, ask[c], site, stored)
        BY PrepTyped
    <2>2. prep'[c] = w /\ after \in BOOLEAN
        BY <1>1, <2>1 DEF Disturbs, PrepStates
    <2>3. after <=> t.at # "starts"
        BY <2>1 DEF PrepSound, WayFits
    <2> HIDE DEF after
    <2>4. /\ w \in PrepStates /\ w.at = t.at /\ w.node = t.node /\ w.store = t.store
          /\ w.root = t.root /\ w.form = t.form /\ w.task = t.task /\ w.why = t.why
          /\ w.disturbed = after /\ w.workspace = t.workspace /\ w.container = t.container
          /\ w.litter = t.litter
        BY <2>1, <2>2 DEF PrepStates
    <2> HIDE DEF w
    <2>5. WayFits(w, ask[c])
        BY <2>1, <2>3, <2>4 DEF PrepSound, WayFits
    <2>6. PlacesFit(w, ask[c], site')
        BY <2>1, <2>3, <2>4 DEF PrepSound, PlacesFit, AfterSelection
    <2>7. ArchiveThere(w, stored')
        BY <2>1, <2>3, <2>4 DEF PrepSound, ArchiveThere, WayFits, BeforeTemplate
    <2>8. ScratchKnown(w)
        BY <2>1, <2>4 DEF PrepSound, ScratchKnown
    <2>9. QED  BY <2>2, <2>4, <2>5, <2>6, <2>7, <2>8 DEF PrepSound
<1>4. prep' \in [Preparations -> PrepStates]
    BY <1>1, <1>3 DEF Disturbs
<1>5. QED  BY <1>1, <1>2, <1>3, <1>4 DEF TemplatesInv, TemplatesShape

LEMMA TemplatesNextKeeps ==
    ASSUME TemplatesInv, [TemplatesNext]_templateVars
    PROVE  TemplatesInv'
<1>1. CASE UNCHANGED templateVars
    BY <1>1 DEF templateVars, TemplatesInv, TemplatesShape
<1>2. CASE \E c \in Preparations : PreparationStep(c)
    BY <1>2, ResolvesKeeps, SelectsKeeps, FindsKeeps, PlacesKeeps, PullKeeps, TaskKeeps, AwaitsKeeps,
       BuildsKeeps, SendsKeeps, StopsKeeps DEF PreparationStep
<1>3. CASE TemplatesNext /\ ~(\E c \in Preparations : PreparationStep(c))
    BY <1>3, SiteChangeKeeps DEF TemplatesNext
<1>4. QED  BY <1>1, <1>2, <1>3

LEMMA TemplatesInitHolds ==
    ASSUME TemplatesInit
    PROVE  TemplatesInv
<1> DEFINE w == [at |-> "starts", node |-> 0, store |-> 0, root |-> 0, form |-> "none",
                 task |-> "none", why |-> "none", disturbed |-> FALSE,
                 workspace |-> FALSE, container |-> FALSE, litter |-> FALSE]
<1>1. /\ 0 \in NodeChoices /\ 0 \in StorageChoices /\ "starts" \in PrepStages
      /\ "none" \in PrepForms /\ "none" \in PrepTasks /\ "none" \in PrepReasons
    BY DEF NodeChoices, StorageChoices, PrepStages, PrepForms, PrepTasks, PrepReasons
<1>2. w \in PrepStates
    BY <1>1 DEF PrepStates
<1>3. \A a, l, V : PrepSound(w, a, l, V)
    BY DEF PrepSound, WayFits, PlacesFit, ArchiveThere, ScratchKnown, BeforeTemplate, AfterSelection
<1>4. prep = [c \in Preparations |-> w]
    BY DEF TemplatesInit
<1> HIDE DEF w
<1>5. TemplatesShape
    BY <1>2, <1>4 DEF TemplatesInit, TemplatesShape
<1>6. QED  BY <1>3, <1>4, <1>5 DEF TemplatesInv

\* Whoever stores a template first, and whatever fails, each command knows where
\* its template is and what it left behind, as long as the site does not change.
THEOREM TemplatesInvariant == TemplatesSpec => []TemplatesInv
<1>1. TemplatesInit => TemplatesInv
    BY TemplatesInitHolds
<1>2. TemplatesInv /\ [TemplatesNext]_templateVars => TemplatesInv'
    BY TemplatesNextKeeps
<1>3. QED  BY <1>1, <1>2, PTL DEF TemplatesSpec

LEMMA TemplatesTold ==
    ASSUME TemplatesInv
    PROVE  TemplatesTypeOK /\ TemplateThere /\ ChoiceHolds /\ RaceAbsorbed /\ ScratchRemoved
<1>1. ASSUME NEW c \in Preparations
      PROVE  /\ prep[c] \in PrepStates /\ PrepSound(prep[c], ask[c], site, stored)
             /\ NeedsRoot(c) <=> WantsRoot(ask[c])
             /\ \A form : Present(c, form) <=> <<prep[c].node, prep[c].store, form>> \in stored
    BY PrepTyped DEF NeedsRoot, WantsRoot, Present, Volume
<1>2. \A n, setting, content : Supporting(n, setting, content) = GoodStorages(site[n], setting, content)
    BY DEF Supporting, GoodStorages
<1>3. TemplatesTypeOK
    <2>1. \A c \in Preparations :
              /\ prep[c].node \in NodeChoices /\ prep[c].store \in StorageChoices
              /\ prep[c].root \in StorageChoices /\ prep[c].form \in PrepForms
              /\ prep[c].task \in PrepTasks
        BY <1>1 DEF PrepStates
    <2>2. QED  BY <2>1 DEF TemplatesTypeOK, TemplatesInv, TemplatesShape, NodeChoices, StorageChoices,
                           PrepForms, PrepTasks, Archives
<1>4. TemplateThere
    BY <1>1, <1>2 DEF TemplateThere, PrepSound, PlacesFit, ArchiveThere, ArchiveOf
<1>5. ChoiceHolds /\ RaceAbsorbed
    BY <1>1 DEF ChoiceHolds, RaceAbsorbed, PrepSound, PlacesFit, ArchiveThere
<1>6. ScratchRemoved
    BY <1>1 DEF ScratchRemoved, PrepSound, ScratchKnown
<1>7. QED  BY <1>3, <1>4, <1>5, <1>6

-----------------------------------------------------------------------------
(***************************************************************************)
(* The terminal's client: bounded channels, and the output to its end.     *)
(***************************************************************************)

Sequence(q) == \E S : q \in Seq(S)

LEMMA AppendedSequence ==
    ASSUME NEW q, Sequence(q), NEW x
    PROVE  Sequence(Append(q, x)) /\ Len(Append(q, x)) = Len(q) + 1 /\ Len(q) \in Nat
<1>1. PICK S : q \in Seq(S)
    BY DEF Sequence
<1>2. q \in Seq(S \cup {x})
    BY <1>1
<1>3. Append(q, x) \in Seq(S \cup {x}) /\ Len(Append(q, x)) = Len(q) + 1 /\ Len(q) \in Nat
    BY <1>2
<1>4. QED  BY <1>3 DEF Sequence

LEMMA TailSequence ==
    ASSUME NEW q, Sequence(q), q # <<>>
    PROVE  Sequence(Tail(q)) /\ Len(Tail(q)) <= Len(q) /\ Len(q) \in Nat /\ Len(Tail(q)) \in Nat
<1>1. PICK S : q \in Seq(S)
    BY DEF Sequence
<1>2. Tail(q) \in Seq(S) /\ Len(Tail(q)) = Len(q) - 1 /\ Len(q) \in Nat \ {0}
    BY <1>1
<1>3. QED  BY <1>2 DEF Sequence

LEMMA ShortSequences ==
    /\ Sequence(<<>>) /\ Len(<<>>) = 0
    /\ \A x : Sequence(<<x>>) /\ Len(<<x>>) = 1
    /\ \A x, y : Sequence(<<x, y>>) /\ Len(<<x, y>>) = 2
<1>1. <<>> \in Seq({}) /\ Len(<<>>) = 0
    OBVIOUS
<1>2. \A x : <<x>> \in Seq({x}) /\ Len(<<x>>) = 1
    OBVIOUS
<1>3. \A x, y : <<x, y>> \in Seq({x, y}) /\ Len(<<x, y>>) = 2
    OBVIOUS
<1>4. QED  BY <1>1, <1>2, <1>3 DEF Sequence

PrinterStages == {"connects", "opens", "views", "reads", "prints", "closes", "over"}
OutputEvents == {"chunk", "exit", "end"}
SshResults == {"none", "exit", "failed", "detached", "signalled"}

InputShape ==
    /\ keyed \in Seq(Keys) /\ Len(keyed) <= MaxTyped
    /\ Sequence(typedKeys) /\ Len(typedKeys) <= InputCap
    /\ pump.at \in {"runs", "sends", "ended", "done"}
    /\ control \in {"none", "detach", "error"}

WireShape ==
    /\ Sequence(outbox) /\ Len(outbox) <= 2
    /\ wire = [open |-> wire.open, items |-> wire.items]
    /\ Sequence(wire.items) /\ Len(wire.items) <= WireCap

OutputShape ==
    /\ printer \in [events : Seq(OutputEvents), at : PrinterStages, shown : Nat]
    /\ ssh \in [at : {"runs", "joins", "ends", "over"}, tty : {"raw", "cooked"}, result : SshResults]
    /\ program = [size |-> program.size, got |-> program.got, sized |-> program.sized,
                  wrote |-> program.wrote, state |-> program.state]
    /\ program.wrote \in Nat /\ program.state \in {"absent", "runs", "exit", "end"}

ProgramEnded == program.state \in {"exit", "end"}
Printing == IF printer.at = "prints" THEN 1 ELSE 0
EndEvents == IF ProgramEnded THEN 1 ELSE 0
EventsTold ==
    \A i \in 1 .. Len(printer.events) : printer.events[i] # "chunk" =>
        i = Len(printer.events) /\ program.state = printer.events[i]

\* What the program wrote is in the stream, with the task that prints, or shown; the
\* stream's last event says how it ended.
OutputCounted ==
    /\ program.state = "absent" => printer.events = <<>> /\ program.wrote = 0 /\ printer.shown = 0
    /\ printer.at \in {"connects", "opens", "views"} => program.state = "absent"
    /\ EventsTold
    /\ printer.at \in {"reads", "prints"} =>
           printer.shown + Len(printer.events) + Printing = program.wrote + EndEvents
    /\ printer.at = "closes" => program.state = "exit" /\ printer.shown = program.wrote
    /\ ssh.result # "none" => ssh.at # "runs"

OutputInv == OutputShape /\ OutputCounted /\ OutputWhole
TerminalInv == InputShape /\ WireShape /\ OutputInv

printerVars == <<printer, ssh, program>>

LEMMA OutputStays ==
    ASSUME OutputInv, UNCHANGED printerVars
    PROVE  OutputInv'
BY DEF OutputInv, OutputShape, OutputCounted, OutputWhole, ProgramEnded, Printing, EndEvents, EventsTold, printerVars

LEMMA WireStays ==
    ASSUME WireShape, UNCHANGED <<outbox, wire>>
    PROVE  WireShape'
BY DEF WireShape

LEMMA InputStays ==
    ASSUME InputShape, UNCHANGED <<keyed, typedKeys, pump, control>>
    PROVE  InputShape'
BY DEF InputShape

LEMMA TypesKeeps ==
    ASSUME TerminalInv, TerminalClientAssumption, NEW k \in Keys, Types(k)
    PROVE  TerminalInv'
<1>1. UNCHANGED printerVars /\ UNCHANGED <<outbox, wire, typedKeys, pump, control>>
    BY DEF Types, printerVars
<1>2. keyed \in Seq(Keys) /\ Len(keyed) < MaxTyped /\ keyed' = Append(keyed, k)
    BY DEF Types, TerminalInv, InputShape
<1>3. keyed' \in Seq(Keys) /\ Len(keyed') = Len(keyed) + 1 /\ Len(keyed) \in Nat
    BY <1>2
<1>4. Len(keyed') <= MaxTyped
    BY <1>2, <1>3 DEF TerminalClientAssumption
<1>5. InputShape'
    BY <1>1, <1>3, <1>4 DEF TerminalInv, InputShape
<1>6. QED  BY <1>1, <1>5, OutputStays, WireStays DEF TerminalInv

\* A full channel takes nothing.
LEMMA InputAppended ==
    ASSUME TerminalInv, TerminalClientAssumption, NEW x, Len(typedKeys) < InputCap
    PROVE  Sequence(Append(typedKeys, x)) /\ Len(Append(typedKeys, x)) <= InputCap
<1>1. Sequence(typedKeys)
    BY DEF TerminalInv, InputShape
<1>2. Sequence(Append(typedKeys, x)) /\ Len(Append(typedKeys, x)) = Len(typedKeys) + 1 /\ Len(typedKeys) \in Nat
    BY <1>1, AppendedSequence
<1>3. QED  BY <1>2 DEF TerminalClientAssumption

LEMMA OffersKeep ==
    ASSUME TerminalInv, TerminalClientAssumption, NEW keys, Offers(keys), UNCHANGED keyed
    PROVE  InputShape'
<1>1. CASE typedKeys' = Append(typedKeys, Data(keys)) /\ Len(typedKeys) < InputCap
           /\ UNCHANGED <<pump, control>>
    <2>1. Sequence(typedKeys') /\ Len(typedKeys') <= InputCap
        BY <1>1, InputAppended
    <2>2. QED  BY <1>1, <2>1 DEF TerminalInv, InputShape
<1>2. CASE EndsPump("error") /\ UNCHANGED typedKeys
    BY <1>2 DEF EndsPump, TerminalInv, InputShape
<1>3. CASE UNCHANGED <<typedKeys, pump, control>>
    BY <1>3 DEF TerminalInv, InputShape
<1>4. QED  BY <1>1, <1>2, <1>3 DEF Offers

LEMMA PumpKeeps ==
    ASSUME TerminalInv, TerminalClientAssumption,
           ReadsTerminal \/ Pauses \/ ReadsPipe \/ PumpSends \/ PumpStops
    PROVE  TerminalInv'
<1>1. UNCHANGED printerVars /\ UNCHANGED <<outbox, wire, keyed>>
    BY DEF ReadsTerminal, Pauses, ReadsPipe, PumpSends, PumpStops, printerVars
<1>2. InputShape'
    <2>1. CASE ReadsTerminal
        <3>1. \/ EndsPump("detach") /\ UNCHANGED typedKeys
              \/ \E keys : Offers(keys)
            BY <2>1 DEF ReadsTerminal
        <3>2. CASE EndsPump("detach") /\ UNCHANGED typedKeys
            BY <1>1, <3>2 DEF EndsPump, TerminalInv, InputShape
        <3>3. CASE \E keys : Offers(keys)
            BY <1>1, <3>3, OffersKeep
        <3>4. QED  BY <3>1, <3>2, <3>3
    <2>2. CASE Pauses
        BY <1>1, <2>2, OffersKeep DEF Pauses
    <2>3. CASE ReadsPipe \/ PumpStops
        <3>1. UNCHANGED <<typedKeys, control>> /\ pump'.at \in {"sends", "done"}
            BY <2>3 DEF ReadsPipe, PumpStops
        <3>2. QED  BY <1>1, <3>1 DEF TerminalInv, InputShape
    <2>4. CASE PumpSends
        <3>1. \/ /\ Len(typedKeys) < InputCap /\ typedKeys' = Append(typedKeys, pump.item)
                 /\ pump'.at \in {"ended", "runs"} /\ UNCHANGED control
              \/ EndsPump("error") /\ UNCHANGED typedKeys
            BY <2>4 DEF PumpSends
        <3>2. CASE /\ Len(typedKeys) < InputCap /\ typedKeys' = Append(typedKeys, pump.item)
                   /\ pump'.at \in {"ended", "runs"} /\ UNCHANGED control
            <4>1. Sequence(typedKeys') /\ Len(typedKeys') <= InputCap
                BY <3>2, InputAppended
            <4>2. QED  BY <1>1, <3>2, <4>1 DEF TerminalInv, InputShape
        <3>3. CASE EndsPump("error") /\ UNCHANGED typedKeys
            BY <1>1, <3>3 DEF EndsPump, TerminalInv, InputShape
        <3>4. QED  BY <3>1, <3>2, <3>3
    <2>5. QED  BY <2>1, <2>2, <2>3, <2>4
<1>3. QED  BY <1>1, <1>2, OutputStays, WireStays DEF TerminalInv

LEMMA RelayKeeps ==
    ASSUME TerminalInv, TerminalClientAssumption, RelaysInput \/ RelaysResize
    PROVE  TerminalInv'
<1>1. UNCHANGED printerVars /\ UNCHANGED <<wire, keyed, pump, control>>
    BY DEF RelaysInput, RelaysResize, printerVars
<1>2. Sequence(outbox') /\ Len(outbox') <= 2
    <2>1. \/ \E x : outbox' = <<x>>
          \/ \E x, y : outbox' = <<x, y>>
        BY DEF RelaysInput, RelaysResize
    <2>2. CASE \E x : outbox' = <<x>>
        <3>1. PICK x : outbox' = <<x>>
            BY <2>2
        <3>2. Sequence(<<x>>) /\ Len(<<x>>) = 1
            BY ShortSequences
        <3>3. Len(outbox') = 1 /\ Sequence(outbox')
            BY <3>1, <3>2
        <3>4. QED  BY <3>3
    <2>3. CASE \E x, y : outbox' = <<x, y>>
        <3>1. PICK x, y : outbox' = <<x, y>>
            BY <2>3
        <3>2. Sequence(<<x, y>>) /\ Len(<<x, y>>) = 2
            BY ShortSequences
        <3>3. Len(outbox') = 2 /\ Sequence(outbox')
            BY <3>1, <3>2
        <3>4. QED  BY <3>3
    <2>4. QED  BY <2>1, <2>2, <2>3
<1>3. Sequence(typedKeys') /\ Len(typedKeys') <= InputCap
    <2>1. CASE UNCHANGED typedKeys
        BY <2>1 DEF TerminalInv, InputShape
    <2>2. CASE typedKeys # <<>> /\ typedKeys' = Tail(typedKeys)
        <3>1. Sequence(typedKeys) /\ Len(typedKeys) <= InputCap
            BY DEF TerminalInv, InputShape
        <3>2. Sequence(typedKeys') /\ Len(typedKeys') <= Len(typedKeys) /\ Len(typedKeys) \in Nat
              /\ Len(typedKeys') \in Nat
            BY <2>2, <3>1, TailSequence
        <3>3. QED  BY <3>1, <3>2 DEF TerminalClientAssumption
    <2>3. QED  BY <2>1, <2>2 DEF RelaysInput, RelaysResize
<1>4. QED  BY <1>1, <1>2, <1>3, OutputStays DEF TerminalInv, InputShape, WireShape

\* The operation's end, however it comes but by the program's own.
LEMMA OperationEndKeeps ==
    ASSUME OutputInv, Running, OperationEnds("failed"), UNCHANGED program
    PROVE  OutputInv'
<1>1. /\ printer' = [printer EXCEPT !.at = "over"] /\ ssh' = [ssh EXCEPT !.at = "joins", !.result = "failed"]
    BY DEF OperationEnds
<1>2. /\ printer'.at = "over" /\ printer'.events = printer.events /\ printer'.shown = printer.shown
      /\ ssh'.at = "joins" /\ ssh'.result = "failed"
    BY <1>1 DEF OutputInv, OutputShape
<1>3. OutputShape'
    BY <1>1 DEF OutputInv, OutputShape, PrinterStages, SshResults
<1>4. EventsTold'
    BY <1>2 DEF OutputInv, OutputCounted, EventsTold
<1>5. QED  BY <1>2, <1>3, <1>4 DEF OutputInv, OutputCounted, OutputWhole

LEMMA SendKeeps ==
    ASSUME TerminalInv, TerminalClientAssumption, RelaySends
    PROVE  TerminalInv'
<1>1. UNCHANGED <<keyed, typedKeys, pump, control, program>>
    BY DEF RelaySends
<1>2. CASE wire.open
    <2>1. /\ Len(wire.items) < WireCap /\ outbox # <<>>
          /\ wire' = [wire EXCEPT !.items = Append(wire.items, Head(outbox))]
          /\ outbox' = Tail(outbox) /\ UNCHANGED <<printer, ssh>>
        BY <1>2 DEF RelaySends
    <2>2. Sequence(outbox) /\ Len(outbox) <= 2 /\ Sequence(wire.items)
          /\ wire = [open |-> wire.open, items |-> wire.items]
        BY DEF TerminalInv, WireShape
    <2>3. Sequence(outbox') /\ Len(outbox') <= 2
        <3>1. Sequence(outbox') /\ Len(outbox') <= Len(outbox) /\ Len(outbox) \in Nat /\ Len(outbox') \in Nat
            BY <2>1, <2>2, TailSequence
        <3>2. QED  BY <2>2, <3>1
    <2>4. wire' = [open |-> wire'.open, items |-> wire'.items] /\ wire'.items = Append(wire.items, Head(outbox))
        BY <2>1, <2>2
    <2>5. Sequence(wire'.items) /\ Len(wire'.items) = Len(wire.items) + 1 /\ Len(wire.items) \in Nat
        BY <2>2, <2>4, AppendedSequence
    <2>6. WireShape'
        BY <2>1, <2>3, <2>4, <2>5 DEF WireShape, TerminalClientAssumption
    <2>7. UNCHANGED printerVars
        BY <1>1, <2>1 DEF printerVars
    <2>8. QED  BY <1>1, <2>6, <2>7, OutputStays, InputStays DEF TerminalInv
<1>3. CASE ~wire.open
    <2>1. OperationEnds("failed") /\ Running /\ UNCHANGED <<wire, outbox>>
        BY <1>3 DEF RelaySends, Forwards
    <2>2. QED  BY <1>1, <2>1, OperationEndKeeps, InputStays, WireStays DEF TerminalInv
<1>4. QED  BY <1>2, <1>3

\* The output's state depends on few fields of the program's.
LEMMA ProgramKeeps ==
    ASSUME OutputInv, UNCHANGED <<printer, ssh>>,
           program' = [size |-> program'.size, got |-> program'.got, sized |-> program'.sized,
                       wrote |-> program.wrote, state |-> program.state]
    PROVE  OutputInv'
<1>1. program'.wrote = program.wrote /\ program'.state = program.state
    OBVIOUS
<1>2. OutputShape'
    BY <1>1 DEF OutputInv, OutputShape
<1>3. EventsTold' /\ EndEvents' = EndEvents /\ Printing' = Printing
    BY <1>1 DEF OutputInv, OutputCounted, EventsTold, EndEvents, ProgramEnded, Printing
<1>4. QED  BY <1>1, <1>2, <1>3 DEF OutputInv, OutputCounted, OutputWhole

LEMMA RemoteReadsKeeps ==
    ASSUME TerminalInv, TerminalClientAssumption, RemoteReads
    PROVE  TerminalInv'
<1>1. UNCHANGED <<keyed, typedKeys, pump, control, outbox, printer, ssh>>
    BY DEF RemoteReads
<1>2. \/ wire' = [open |-> FALSE, items |-> <<>>]
      \/ wire' = [wire EXCEPT !.items = Tail(wire.items)]
    BY DEF RemoteReads
<1>3. /\ wire.items # <<>> /\ wire = [open |-> wire.open, items |-> wire.items]
      /\ Sequence(wire.items) /\ Len(wire.items) <= WireCap
    BY DEF RemoteReads, TerminalInv, WireShape
<1>4. /\ wire' = [open |-> wire'.open, items |-> wire'.items]
      /\ wire'.items = <<>> \/ wire'.items = Tail(wire.items)
    BY <1>2, <1>3
<1>5. Sequence(wire'.items) /\ Len(wire'.items) <= WireCap
    <2>1. CASE wire'.items = <<>>
        BY <2>1, ShortSequences DEF TerminalClientAssumption
    <2>2. CASE wire'.items = Tail(wire.items)
        <3>1. Sequence(Tail(wire.items)) /\ Len(Tail(wire.items)) <= Len(wire.items)
              /\ Len(wire.items) \in Nat /\ Len(Tail(wire.items)) \in Nat
            BY <1>3, TailSequence
        <3>2. QED  BY <1>3, <2>2, <3>1 DEF TerminalClientAssumption
    <2>3. QED  BY <1>4, <2>1, <2>2
<1>6. WireShape'
    BY <1>1, <1>4, <1>5 DEF TerminalInv, WireShape
<1>7. program' = [size |-> program'.size, got |-> program'.got, sized |-> program'.sized,
                  wrote |-> program.wrote, state |-> program.state]
    <2>1. program = [size |-> program.size, got |-> program.got, sized |-> program.sized,
                     wrote |-> program.wrote, state |-> program.state]
        BY DEF TerminalInv, OutputInv, OutputShape
    <2>2. \/ \E x : program' = [program EXCEPT !.size = x]
          \/ \E x, y : program' = [program EXCEPT !.got = x, !.sized = y]
        BY DEF RemoteReads
    <2>3. QED  BY <2>1, <2>2
<1>8. OutputInv'
    BY <1>1, <1>7, ProgramKeeps DEF TerminalInv
<1>9. QED  BY <1>1, <1>6, <1>8, InputStays DEF TerminalInv

\* The program writes, or ends: one more event.
LEMMA RemoteOutputKeeps ==
    ASSUME OutputInv, NEW event \in OutputEvents, program.state = "runs", Running,
           program' = [program EXCEPT !.wrote = program.wrote + (IF event = "chunk" THEN 1 ELSE 0),
                                      !.state = IF event = "chunk" THEN "runs" ELSE event],
           printer' = [printer EXCEPT !.events = Append(printer.events, event)],
           UNCHANGED ssh
    PROVE  OutputInv'
<1>1. /\ program = [size |-> program.size, got |-> program.got, sized |-> program.sized,
                    wrote |-> program.wrote, state |-> program.state]
      /\ printer \in [events : Seq(OutputEvents), at : PrinterStages, shown : Nat]
      /\ program.wrote \in Nat
    BY DEF OutputInv, OutputShape
<1>2. /\ program' = [size |-> program'.size, got |-> program'.got, sized |-> program'.sized,
                     wrote |-> program'.wrote, state |-> program'.state]
      /\ program'.wrote = program.wrote + (IF event = "chunk" THEN 1 ELSE 0)
      /\ program'.state = IF event = "chunk" THEN "runs" ELSE event
    BY <1>1
<1>3. /\ printer'.at = printer.at /\ printer'.shown = printer.shown
      /\ printer'.events = Append(printer.events, event)
    BY <1>1
<1>4. /\ printer'.events \in Seq(OutputEvents) /\ Len(printer'.events) = Len(printer.events) + 1
      /\ Len(printer.events) \in Nat
      /\ \A i \in 1 .. Len(printer.events) : printer'.events[i] = printer.events[i]
      /\ \A i \in 1 .. Len(printer.events) : printer.events[i] \in OutputEvents
      /\ printer'.events[Len(printer.events) + 1] = event
    BY <1>1, <1>3
<1>5. printer' \in [events : Seq(OutputEvents), at : PrinterStages, shown : Nat]
    <2>1. printer' = [printer EXCEPT !.events = Append(printer.events, event)]
        OBVIOUS
    <2>2. Append(printer.events, event) \in Seq(OutputEvents)
        BY <1>3, <1>4
    <2>3. QED  BY <1>1, <2>1, <2>2
<1>6. OutputShape'
    <2>1. program'.wrote \in Nat /\ program'.state \in {"absent", "runs", "exit", "end"}
        BY <1>1, <1>2 DEF OutputEvents
    <2>2. QED  BY <1>2, <1>5, <2>1 DEF OutputInv, OutputShape
<1>7. \A i \in 1 .. Len(printer.events) : printer.events[i] = "chunk"
    <2>1. EventsTold
        BY DEF OutputInv, OutputCounted
    <2>2. QED  BY <1>4, <2>1 DEF EventsTold, OutputEvents
<1>8. ASSUME NEW i \in 1 .. Len(printer'.events), printer'.events[i] # "chunk"
      PROVE  i = Len(printer'.events) /\ program'.state = printer'.events[i]
    <2>1. i \in 1 .. Len(printer.events) \/ i = Len(printer.events) + 1
        BY <1>4, <1>8
    <2>2. i = Len(printer.events) + 1
        BY <1>4, <1>7, <1>8, <2>1
    <2>3. printer'.events[i] = event
        BY <1>4, <2>2
    <2>4. QED  BY <1>2, <1>4, <1>8, <2>2, <2>3
<1>9. printer.at \notin {"connects", "opens", "views", "closes"}
    BY DEF OutputInv, OutputCounted
<1>10. printer'.at \in {"reads", "prints"} =>
           printer'.shown + Len(printer'.events) + Printing' = program'.wrote + EndEvents'
    <2>1. printer.shown \in Nat /\ program.wrote \in Nat /\ Printing \in Nat
        BY <1>1 DEF Printing
    <2>2. EndEvents = 0 /\ Printing' = Printing
          /\ program'.wrote + EndEvents' = program.wrote + 1
        BY <1>1, <1>2, <1>3 DEF ProgramEnded, EndEvents, Printing, OutputEvents
    <2>3. printer.at \in {"reads", "prints"} =>
              printer.shown + Len(printer.events) + Printing = program.wrote + EndEvents
        BY DEF OutputInv, OutputCounted
    <2>4. ASSUME printer.at \in {"reads", "prints"}
          PROVE  printer.shown + (Len(printer.events) + 1) + Printing = program.wrote + 1
        <3>1. printer.shown + Len(printer.events) + Printing = program.wrote + EndEvents
              /\ Len(printer.events) \in Nat
            BY <1>4, <2>3, <2>4
        <3>2. QED  BY <2>1, <2>2, <3>1
    <2>5. printer'.shown = printer.shown /\ Len(printer'.events) = Len(printer.events) + 1
          /\ printer'.at = printer.at
        BY <1>3, <1>4
    <2>6. QED  BY <2>2, <2>4, <2>5
<1>11. OutputCounted' /\ OutputWhole'
    <2>1. program'.state # "absent" /\ ssh.result = "none"
        BY <1>2 DEF OutputEvents, OutputInv, OutputCounted, Running
    <2>2. EventsTold'
        BY <1>8 DEF EventsTold
    <2>3. QED  BY <1>3, <1>9, <1>10, <2>1, <2>2 DEF OutputCounted, OutputWhole
<1>12. QED  BY <1>6, <1>11 DEF OutputInv

LEMMA RemoteKeeps ==
    ASSUME TerminalInv, TerminalClientAssumption, RemoteWrites \/ RemoteEnds, Running
    PROVE  TerminalInv'
<1>1. UNCHANGED <<keyed, typedKeys, pump, control, outbox, wire, ssh>> /\ program.state = "runs"
    BY DEF RemoteWrites, RemoteEnds
<1>2. PICK event \in OutputEvents :
          /\ program' = [program EXCEPT !.wrote = program.wrote + (IF event = "chunk" THEN 1 ELSE 0),
                                        !.state = IF event = "chunk" THEN "runs" ELSE event]
          /\ printer' = [printer EXCEPT !.events = Append(printer.events, event)]
    <2>1. /\ program = [size |-> program.size, got |-> program.got, sized |-> program.sized,
                        wrote |-> program.wrote, state |-> program.state]
          /\ program.wrote \in Nat
        BY DEF TerminalInv, OutputInv, OutputShape
    <2>2. CASE RemoteWrites
        <3>1. /\ program' = [program EXCEPT !.wrote = program.wrote + 1]
              /\ printer' = [printer EXCEPT !.events = Append(printer.events, "chunk")]
            BY <2>2 DEF RemoteWrites
        <3>2. [program EXCEPT !.wrote = program.wrote + 1]
              = [program EXCEPT !.wrote = program.wrote + 1, !.state = "runs"]
            BY <1>1, <2>1
        <3>3. QED  BY <3>1, <3>2 DEF OutputEvents
    <2>3. CASE RemoteEnds
        <3>1. PICK how \in {"exit", "end"} :
                  /\ program' = [program EXCEPT !.state = how]
                  /\ printer' = [printer EXCEPT !.events = Append(printer.events, how)]
            BY <2>3 DEF RemoteEnds
        <3>2. how # "chunk" /\ how \in OutputEvents
            BY DEF OutputEvents
        <3>3. program.wrote + (IF how = "chunk" THEN 1 ELSE 0) = program.wrote
            BY <2>1, <3>2
        <3>4. program' = [program EXCEPT !.wrote = program.wrote + (IF how = "chunk" THEN 1 ELSE 0),
                                         !.state = IF how = "chunk" THEN "runs" ELSE how]
            <4>1. [program EXCEPT !.state = how] = [program EXCEPT !.wrote = program.wrote, !.state = how]
                BY <2>1
            <4>2. QED  BY <3>1, <3>2, <3>3, <4>1
        <3>5. QED  BY <3>1, <3>2, <3>4
    <2>4. QED  BY <2>2, <2>3
<1>3. OutputInv'
    BY <1>1, <1>2, RemoteOutputKeeps DEF TerminalInv
<1>4. QED  BY <1>1, <1>3, InputStays, WireStays DEF TerminalInv

LEMMA SessionStartKeeps ==
    ASSUME OutputInv, RequestsSession \/ Attached
    PROVE  OutputInv'
<1>1. /\ program = [size |-> program.size, got |-> program.got, sized |-> program.sized,
                    wrote |-> program.wrote, state |-> program.state]
      /\ printer \in [events : Seq(OutputEvents), at : PrinterStages, shown : Nat]
      /\ program.wrote \in Nat
    BY DEF OutputInv, OutputShape
<1>2. printer.at \in {"connects", "opens"} /\ UNCHANGED ssh
    BY DEF RequestsSession, Attached
<1>3. /\ program.state = "absent" /\ printer.events = <<>> /\ program.wrote = 0 /\ printer.shown = 0
    BY <1>2 DEF OutputInv, OutputCounted
<1>4. CASE RequestsSession
    <2>1. PICK next \in {"views", "opens"} : printer' = [printer EXCEPT !.at = next]
        BY <1>4 DEF RequestsSession
    <2>2. program' = [program EXCEPT !.size = window.size]
        BY <1>4 DEF RequestsSession
    <2>3. /\ program' = [size |-> program'.size, got |-> program'.got, sized |-> program'.sized,
                         wrote |-> program'.wrote, state |-> program'.state]
          /\ program'.wrote = program.wrote /\ program'.state = program.state
        BY <1>1, <2>2
    <2>4. printer'.events = printer.events /\ printer'.shown = printer.shown /\ printer'.at = next
          /\ printer' \in [events : Seq(OutputEvents), at : PrinterStages, shown : Nat]
        BY <1>1, <2>1 DEF PrinterStages
    <2>5. OutputShape'
        BY <1>2, <2>3, <2>4 DEF OutputInv, OutputShape
    <2>6. 1 .. Len(printer'.events) = {} /\ ssh'.result # "exit"
        BY <1>2, <1>3, <2>4 DEF OutputInv, OutputWhole
    <2>7. QED  BY <1>2, <1>3, <2>3, <2>4, <2>5, <2>6 DEF OutputInv, OutputCounted, OutputWhole, EventsTold
<1>5. CASE Attached
    <2>1. printer' = [printer EXCEPT !.at = "reads"] /\ program' = [program EXCEPT !.state = "runs"] /\ Running
        BY <1>5 DEF Attached
    <2>2. /\ program' = [size |-> program'.size, got |-> program'.got, sized |-> program'.sized,
                         wrote |-> program'.wrote, state |-> program'.state]
          /\ program'.wrote = program.wrote /\ program'.state = "runs"
        BY <1>1, <2>1
    <2>3. printer'.events = printer.events /\ printer'.shown = printer.shown /\ printer'.at = "reads"
          /\ printer' \in [events : Seq(OutputEvents), at : PrinterStages, shown : Nat]
        BY <1>1, <2>1 DEF PrinterStages
    <2>4. OutputShape'
        BY <1>2, <2>2, <2>3 DEF OutputInv, OutputShape
    <2>5. ssh.result = "none" /\ Len(<<>>) = 0
        BY <2>1 DEF OutputInv, OutputCounted, Running
    <2>6. EventsTold' /\ Printing' = 0 /\ EndEvents' = 0
        BY <1>3, <2>2, <2>3 DEF EventsTold, Printing, EndEvents, ProgramEnded
    <2>7. printer'.shown + Len(printer'.events) + Printing' = program'.wrote + EndEvents'
        BY <1>3, <2>2, <2>3, <2>5, <2>6
    <2>8. QED  BY <1>2, <2>2, <2>3, <2>4, <2>5, <2>6, <2>7 DEF OutputInv, OutputCounted, OutputWhole
<1>6. QED  BY <1>4, <1>5

\* An event is read.
LEMMA ReadsEventKeeps ==
    ASSUME OutputInv, ReadsEvent
    PROVE  OutputInv'
<1>1. /\ printer \in [events : Seq(OutputEvents), at : PrinterStages, shown : Nat]
      /\ ssh \in [at : {"runs", "joins", "ends", "over"}, tty : {"raw", "cooked"}, result : SshResults]
      /\ program.wrote \in Nat
    BY DEF OutputInv, OutputShape
<1>2. printer.at = "reads" /\ printer.events # <<>> /\ UNCHANGED program /\ ssh.at = "runs" /\ ssh.result = "none"
    BY DEF ReadsEvent, Running, OutputInv, OutputCounted
<1>3. /\ Tail(printer.events) \in Seq(OutputEvents) /\ Len(Tail(printer.events)) = Len(printer.events) - 1
      /\ Len(printer.events) \in Nat \ {0}
      /\ \A i \in 1 .. Len(Tail(printer.events)) : Tail(printer.events)[i] = printer.events[i + 1]
      /\ Head(printer.events) = printer.events[1] /\ Head(printer.events) \in OutputEvents
    BY <1>1, <1>2
<1>4. printer.shown + Len(printer.events) = program.wrote + EndEvents /\ printer.shown \in Nat
      /\ EndEvents \in Nat /\ EventsTold
    <2>1. printer.shown + Len(printer.events) + Printing = program.wrote + EndEvents /\ Printing = 0 /\ EventsTold
        BY <1>2 DEF OutputInv, OutputCounted, Printing
    <2>2. printer.shown \in Nat /\ EndEvents \in Nat
        BY <1>1 DEF EndEvents
    <2>3. Len(printer.events) \in Nat
        BY <1>3
    <2>4. QED  BY <2>1, <2>2, <2>3
<1>5. CASE Head(printer.events) = "chunk"
    <2>1. printer' = [[printer EXCEPT !.events = Tail(printer.events)] EXCEPT !.at = "prints"] /\ UNCHANGED ssh
        BY <1>5 DEF ReadsEvent
    <2>2. /\ printer'.events = Tail(printer.events) /\ printer'.at = "prints" /\ printer'.shown = printer.shown
          /\ printer' \in [events : Seq(OutputEvents), at : PrinterStages, shown : Nat]
        BY <1>1, <1>3, <2>1 DEF PrinterStages
    <2>3. OutputShape'
        BY <1>2, <2>1, <2>2 DEF OutputInv, OutputShape
    <2>4. ASSUME NEW i \in 1 .. Len(printer'.events), printer'.events[i] # "chunk"
          PROVE  i = Len(printer'.events) /\ program'.state = printer'.events[i]
        <3>1. i + 1 \in 1 .. Len(printer.events) /\ printer'.events[i] = printer.events[i + 1]
              /\ Len(printer'.events) = Len(printer.events) - 1
            BY <1>3, <2>2, <2>4
        <3>2. i + 1 = Len(printer.events) /\ program.state = printer.events[i + 1]
            BY <1>4, <2>4, <3>1 DEF EventsTold
        <3>3. QED  BY <1>2, <1>3, <3>1, <3>2
    <2>5. printer'.shown + Len(printer'.events) + Printing' = program'.wrote + EndEvents'
        <3>1. Len(printer'.events) = Len(printer.events) - 1 /\ printer'.shown = printer.shown
            BY <1>3, <2>2
        <3>2. Printing' = 1 /\ EndEvents' = EndEvents /\ program'.wrote = program.wrote
            BY <1>2, <2>2 DEF Printing, EndEvents, ProgramEnded
        <3>3. Len(printer.events) \in Nat /\ program.wrote \in Nat
            BY <1>1, <1>3
        <3>4. printer.shown + (Len(printer.events) - 1) + 1 = program.wrote + EndEvents
            BY <1>4, <3>3
        <3>5. QED  BY <3>1, <3>2, <3>4
    <2>6. program.state # "absent"
        BY <1>2 DEF OutputInv, OutputCounted
    <2>7. EventsTold'
        BY <2>4 DEF EventsTold
    <2>8. QED  BY <1>2, <2>1, <2>2, <2>3, <2>5, <2>6, <2>7 DEF OutputInv, OutputCounted, OutputWhole
<1>6. CASE Head(printer.events) # "chunk"
    <2>1. /\ 1 = Len(printer.events) /\ program.state = Head(printer.events)
        <3>1. 1 \in 1 .. Len(printer.events) /\ printer.events[1] = Head(printer.events)
            BY <1>3
        <3>2. QED  BY <1>4, <1>6, <3>1 DEF EventsTold
    <2>2. printer.shown = program.wrote
        <3>1. EndEvents = 1
            BY <1>3, <1>6, <2>1 DEF EndEvents, ProgramEnded, OutputEvents
        <3>2. printer.shown + 1 = program.wrote + 1
            BY <1>4, <2>1, <3>1
        <3>3. QED  BY <1>1, <1>4, <3>2
    <2>3. CASE Head(printer.events) = "end"
        <3>1. OperationEnds("failed") /\ Running
            BY <2>3 DEF ReadsEvent
        <3>2. QED  BY <1>2, <3>1, OperationEndKeeps
    <2>4. CASE Head(printer.events) = "exit" /\ ~use.named
        <3>1. printer' = [[printer EXCEPT !.events = Tail(printer.events)] EXCEPT !.at = "closes"] /\ UNCHANGED ssh
            BY <2>4 DEF ReadsEvent
        <3>2. /\ printer'.events = Tail(printer.events) /\ printer'.at = "closes" /\ printer'.shown = printer.shown
              /\ printer' \in [events : Seq(OutputEvents), at : PrinterStages, shown : Nat]
            BY <1>1, <1>3, <3>1 DEF PrinterStages
        <3>3. OutputShape'
            BY <1>2, <3>1, <3>2 DEF OutputInv, OutputShape
        <3>4. 1 .. Len(printer'.events) = {}
            BY <1>3, <2>1, <3>2
        <3>5. EventsTold'
            BY <3>4 DEF EventsTold
        <3>6. QED  BY <1>2, <2>1, <2>2, <2>4, <3>1, <3>2, <3>3, <3>5 DEF OutputInv, OutputCounted, OutputWhole
    <2>5. CASE Head(printer.events) = "exit" /\ use.named
        <3>1. printer' = [printer EXCEPT !.at = "over"] /\ ssh' = [ssh EXCEPT !.at = "joins", !.result = "exit"]
            BY <2>5 DEF ReadsEvent, OperationEnds
        <3>2. /\ printer'.at = "over" /\ printer'.events = printer.events /\ printer'.shown = printer.shown
              /\ ssh'.at = "joins" /\ ssh'.result = "exit"
              /\ printer' \in [events : Seq(OutputEvents), at : PrinterStages, shown : Nat]
              /\ ssh' \in [at : {"runs", "joins", "ends", "over"}, tty : {"raw", "cooked"}, result : SshResults]
            BY <1>1, <3>1 DEF PrinterStages, SshResults
        <3>3. OutputShape'
            BY <1>2, <3>2 DEF OutputInv, OutputShape
        <3>4. EventsTold'
            BY <1>2, <1>4, <3>2 DEF EventsTold
        <3>5. QED  BY <1>2, <2>1, <2>2, <2>5, <3>2, <3>3, <3>4 DEF OutputInv, OutputCounted, OutputWhole
    <2>6. QED  BY <1>3, <1>6, <2>3, <2>4, <2>5 DEF OutputEvents
<1>7. QED  BY <1>5, <1>6

\* A chunk is printed, and the output ends.
LEMMA PrintsKeeps ==
    ASSUME OutputInv, Prints \/ OutputCloses
    PROVE  OutputInv'
<1>1. /\ printer \in [events : Seq(OutputEvents), at : PrinterStages, shown : Nat]
      /\ ssh \in [at : {"runs", "joins", "ends", "over"}, tty : {"raw", "cooked"}, result : SshResults]
      /\ program.wrote \in Nat
    BY DEF OutputInv, OutputShape
<1>2. UNCHANGED program /\ Running /\ ssh.result = "none"
    BY DEF Prints, OutputCloses, Running, OutputInv, OutputCounted
<1>3. CASE OperationEnds("failed")
    BY <1>2, <1>3, OperationEndKeeps
<1>4. CASE Prints /\ ~OperationEnds("failed")
    <2>1. /\ printer.at = "prints" /\ UNCHANGED ssh
          /\ printer' = [printer EXCEPT !.at = "reads", !.shown = printer.shown + 1]
        BY <1>4 DEF Prints
    <2>2. printer.shown \in Nat /\ printer.shown + 1 \in Nat /\ printer.events \in Seq(OutputEvents)
        BY <1>1
    <2>3. /\ printer'.at = "reads" /\ printer'.events = printer.events /\ printer'.shown = printer.shown + 1
          /\ printer' \in [events : Seq(OutputEvents), at : PrinterStages, shown : Nat]
        <3>1. printer' = [events |-> printer.events, at |-> "reads", shown |-> printer.shown + 1]
            BY <1>1, <2>1
        <3>2. QED  BY <2>2, <3>1 DEF PrinterStages
    <2>4. OutputShape'
        BY <1>2, <2>1, <2>3 DEF OutputInv, OutputShape
    <2>5. Len(printer.events) \in Nat
        BY <2>2
    <2>6. printer.shown + Len(printer.events) + 1 = program.wrote + EndEvents
        <3>1. Printing = 1
            BY <2>1 DEF Printing
        <3>2. QED  BY <2>1, <3>1 DEF OutputInv, OutputCounted
    <2>7. printer'.shown + Len(printer'.events) + Printing' = program'.wrote + EndEvents'
        <3>1. Printing' = 0 /\ EndEvents' = EndEvents /\ EndEvents \in Nat
            BY <1>2, <2>3 DEF Printing, EndEvents, ProgramEnded
        <3>2. Len(printer'.events) = Len(printer.events) /\ program'.wrote = program.wrote
            BY <1>2, <2>3
        <3>3. QED  BY <1>1, <2>2, <2>3, <2>5, <2>6, <3>1, <3>2
    <2>8. program.state # "absent"
        <3>1. CASE program.state = "absent"
            <4>1. program.wrote = 0 /\ printer.shown = 0 /\ EndEvents = 0 /\ Len(printer.events) = 0
                BY <3>1 DEF OutputInv, OutputCounted, EndEvents, ProgramEnded
            <4>2. QED  BY <2>6, <4>1
        <3>2. QED  BY <3>1
    <2>9. EventsTold'
        BY <1>2, <2>3 DEF OutputInv, OutputCounted, EventsTold
    <2>10. QED  BY <1>2, <2>1, <2>3, <2>4, <2>7, <2>8, <2>9 DEF OutputInv, OutputCounted, OutputWhole
<1>5. CASE OutputCloses /\ ~OperationEnds("failed")
    <2>1. /\ printer.at = "closes" /\ printer' = [printer EXCEPT !.at = "over"]
          /\ ssh' = [ssh EXCEPT !.at = "joins", !.result = "exit"]
        BY <1>5 DEF OutputCloses, OperationEnds
    <2>2. /\ printer'.at = "over" /\ printer'.events = printer.events /\ printer'.shown = printer.shown
          /\ ssh'.at = "joins" /\ ssh'.result = "exit"
          /\ printer' \in [events : Seq(OutputEvents), at : PrinterStages, shown : Nat]
          /\ ssh' \in [at : {"runs", "joins", "ends", "over"}, tty : {"raw", "cooked"}, result : SshResults]
        BY <1>1, <2>1 DEF PrinterStages, SshResults
    <2>3. OutputShape'
        BY <1>2, <2>2 DEF OutputInv, OutputShape
    <2>4. EventsTold'
        BY <1>2, <2>2 DEF OutputInv, OutputCounted, EventsTold
    <2>5. QED  BY <1>2, <2>1, <2>2, <2>3, <2>4 DEF OutputInv, OutputCounted, OutputWhole
<1>6. QED  BY <1>3, <1>4, <1>5

\* The command's own end.
LEMMA CommandEndKeeps ==
    ASSUME OutputInv, Signalled \/ Cancelled \/ Restores \/ EndsBySignal
    PROVE  OutputInv'
<1>1. ssh \in [at : {"runs", "joins", "ends", "over"}, tty : {"raw", "cooked"}, result : SshResults]
    BY DEF OutputInv, OutputShape
<1>2. UNCHANGED <<printer, program>>
    BY DEF Signalled, Cancelled, Restores, EndsBySignal
<1>3. /\ ssh' \in [at : {"runs", "joins", "ends", "over"}, tty : {"raw", "cooked"}, result : SshResults]
      /\ ssh'.at # "runs"
      /\ ssh'.result # "exit" \/ ssh'.result = ssh.result
    <2>1. CASE Signalled
        <3>1. ssh' = [ssh EXCEPT !.at = "ends", !.result = "signalled"]
            BY <2>1 DEF Signalled
        <3>2. QED  BY <1>1, <3>1 DEF SshResults
    <2>2. CASE Cancelled
        <3>1. PICK r \in {"detached", "failed"} : ssh' = [ssh EXCEPT !.at = "joins", !.result = r]
            BY <2>2 DEF Cancelled
        <3>2. QED  BY <1>1, <3>1 DEF SshResults
    <2>3. CASE Restores \/ EndsBySignal
        <3>1. ssh' = [ssh EXCEPT !.at = "over", !.tty = "cooked"]
            BY <2>3 DEF Restores, EndsBySignal, WritesRestore
        <3>2. QED  BY <1>1, <3>1
    <2>4. QED  BY <2>1, <2>2, <2>3
<1>4. OutputShape'
    BY <1>2, <1>3 DEF OutputInv, OutputShape
<1>5. EventsTold' /\ EndEvents' = EndEvents /\ Printing' = Printing
    BY <1>2 DEF OutputInv, OutputCounted, EventsTold, EndEvents, ProgramEnded, Printing
<1>6. QED  BY <1>2, <1>3, <1>4, <1>5 DEF OutputInv, OutputCounted, OutputWhole

LEMMA TerminalStep ==
    ASSUME TerminalInv, TerminalClientAssumption, [TerminalNext]_terminalVars
    PROVE  TerminalInv'
<1>1. ASSUME UNCHANGED <<keyed, typedKeys, pump, control, outbox, wire>>, OutputInv'
      PROVE  TerminalInv'
    BY <1>1, InputStays, WireStays DEF TerminalInv
<1>2. CASE UNCHANGED terminalVars \/ ResizesWindow \/ OutputHeld
    <2>1. UNCHANGED printerVars /\ UNCHANGED <<keyed, typedKeys, pump, control, outbox, wire>>
        BY <1>2 DEF terminalVars, ResizesWindow, OutputHeld, printerVars
    <2>2. QED  BY <1>1, <2>1, OutputStays DEF TerminalInv
<1>3. CASE \E k \in Keys : Types(k)
    BY <1>3, TypesKeeps
<1>4. CASE ReadsTerminal \/ Pauses \/ ReadsPipe \/ PumpSends \/ PumpStops
    BY <1>4, PumpKeeps
<1>5. CASE Signalled \/ Cancelled \/ Restores \/ EndsBySignal
    <2>1. UNCHANGED <<keyed, typedKeys, pump, control, outbox, wire>>
        BY <1>5 DEF Signalled, Cancelled, Restores, EndsBySignal
    <2>2. QED  BY <1>1, <1>5, <2>1, CommandEndKeeps DEF TerminalInv
<1>6. CASE RequestsSession \/ Attached
    <2>1. UNCHANGED <<keyed, typedKeys, pump, control, outbox, wire>>
        BY <1>6 DEF RequestsSession, Attached
    <2>2. QED  BY <1>1, <1>6, <2>1, SessionStartKeeps DEF TerminalInv
<1>7. CASE OperationFails
    <2>1. UNCHANGED <<keyed, typedKeys, pump, control, outbox, wire, program>> /\ OperationEnds("failed") /\ Running
        BY <1>7 DEF OperationFails
    <2>2. QED  BY <1>1, <2>1, OperationEndKeeps DEF TerminalInv
<1>8. CASE RelaysInput \/ RelaysResize
    BY <1>8, RelayKeeps
<1>9. CASE RelaySends
    BY <1>9, SendKeeps
<1>10. CASE RemoteReads
    BY <1>10, RemoteReadsKeeps
<1>11. CASE (RemoteWrites \/ RemoteEnds) /\ Running
    BY <1>11, RemoteKeeps
<1>12. CASE RequestStreamCloses
    <2>1. UNCHANGED printerVars /\ UNCHANGED <<keyed, typedKeys, pump, control, outbox>>
          /\ wire' = [open |-> FALSE, items |-> <<>>]
        BY <1>12 DEF RequestStreamCloses, printerVars
    <2>2. wire' = [open |-> wire'.open, items |-> wire'.items] /\ wire'.items = <<>>
        BY <2>1
    <2>3. WireShape'
        BY <2>1, <2>2, ShortSequences DEF TerminalInv, WireShape, TerminalClientAssumption
    <2>4. QED  BY <2>1, <2>3, OutputStays, InputStays DEF TerminalInv
<1>13. CASE ReadsEvent \/ Prints \/ OutputCloses
    <2>1. UNCHANGED <<keyed, typedKeys, pump, control, outbox, wire>>
        BY <1>13 DEF ReadsEvent, Prints, OutputCloses
    <2>2. QED  BY <1>1, <1>13, <2>1, ReadsEventKeeps, PrintsKeeps DEF TerminalInv
<1>14. QED
    BY <1>2, <1>3, <1>4, <1>5, <1>6, <1>7, <1>8, <1>9, <1>10, <1>11, <1>12, <1>13
    DEF TerminalNext, LocalStep

LEMMA TerminalStarts == ASSUME TerminalClientAssumption PROVE TerminalInit => TerminalInv
<1> SUFFICES ASSUME TerminalInit
             PROVE  TerminalInv
    OBVIOUS
<1>1. InputShape
    BY ShortSequences DEF TerminalInit, InputShape, TerminalClientAssumption
<1>2. WireShape
    <2>1. wire = [open |-> wire.open, items |-> wire.items] /\ wire.items = <<>> /\ outbox = <<>>
        BY DEF TerminalInit
    <2>2. QED  BY <2>1, ShortSequences DEF WireShape, TerminalClientAssumption
<1>3. printer = [events |-> <<>>, at |-> "connects", shown |-> 0]
      /\ program = [size |-> 0, got |-> <<>>, sized |-> TRUE, wrote |-> 0, state |-> "absent"]
      /\ ssh.result = "none" /\ ssh.at = "runs"
    BY DEF TerminalInit
<1>4. OutputShape
    <2>1. printer \in [events : Seq(OutputEvents), at : PrinterStages, shown : Nat]
        BY <1>3 DEF PrinterStages
    <2>2. ssh \in [at : {"runs", "joins", "ends", "over"}, tty : {"raw", "cooked"}, result : SshResults]
        BY DEF TerminalInit, SshResults
    <2>3. QED  BY <1>3, <2>1, <2>2 DEF OutputShape
<1>5. OutputCounted /\ OutputWhole
    <2>1. Len(printer.events) = 0
        BY <1>3
    <2>2. EventsTold
        BY <2>1 DEF EventsTold
    <2>3. QED  BY <1>3, <2>2 DEF OutputCounted, OutputWhole
<1>6. QED  BY <1>1, <1>2, <1>4, <1>5 DEF TerminalInv, OutputInv

HeldShape == held \in {"nothing", "terminal", "pipe"}

LEMMA HeldStarts == TerminalInit => HeldShape
BY DEF TerminalInit, HeldShape

LEMMA HeldStep ==
    ASSUME HeldShape, [TerminalNext]_terminalVars
    PROVE  HeldShape'
<1>1. held' \in {"terminal", "pipe"} \/ UNCHANGED held
    <2>1. CASE LocalStep
        BY <2>1 DEF LocalStep, ReadsTerminal, Pauses, ReadsPipe, PumpSends, PumpStops, Cancelled, Restores,
                    EndsBySignal
    <2>2. CASE OutputHeld \/ UNCHANGED terminalVars
        BY <2>2 DEF OutputHeld, terminalVars
    <2>3. CASE (\E k \in Keys : Types(k)) \/ ResizesWindow \/ Signalled
        BY <2>3 DEF Types, ResizesWindow, Signalled
    <2>4. CASE \/ RequestsSession \/ Attached \/ OperationFails \/ ReadsEvent \/ Prints \/ OutputCloses
        BY <2>4 DEF RequestsSession, Attached, OperationFails, ReadsEvent, Prints, OutputCloses
    <2>5. CASE \/ RelaysInput \/ RelaysResize \/ RelaySends \/ RemoteReads \/ RemoteWrites \/ RemoteEnds
               \/ RequestStreamCloses
        BY <2>5 DEF RelaysInput, RelaysResize, RelaySends, RemoteReads, RemoteWrites, RemoteEnds, RequestStreamCloses
    <2>6. QED  BY <2>1, <2>2, <2>3, <2>4, <2>5 DEF TerminalNext
<1>2. QED  BY <1>1 DEF HeldShape

\* The invariant of the terminal's client: its channels stay within their capacity, and
\* an exit status is reported when all output of the program has been printed (main.rs
\* from run_ssh on).
THEOREM TerminalInvariant ==
    ASSUME TerminalClientAssumption PROVE TerminalSpec => [](TerminalInv /\ HeldShape)
<1>1. TerminalInit => TerminalInv /\ HeldShape
    BY TerminalStarts, HeldStarts
<1>2. TerminalInv /\ HeldShape /\ [TerminalNext]_terminalVars => (TerminalInv /\ HeldShape)'
    BY TerminalStep, HeldStep
<1>3. QED  BY <1>1, <1>2, PTL DEF TerminalSpec

LEMMA TerminalTold == TerminalInv /\ HeldShape => TerminalTypeOK /\ OutputWhole
BY DEF TerminalInv, HeldShape, InputShape, WireShape, OutputInv, OutputShape, TerminalTypeOK, PrinterStages,
       SshResults
\* Pushed is the recursion it is written as.
LEMMA PushedUnfolds ==
    ASSUME unread \in Seq(Nat)
    PROVE  \A n \in 0 .. Len(unread) :
               Pushed[n] = IF n = 0
                           THEN [pending |-> parser.pending, pasted |-> parser.pasted, out |-> <<>>,
                                 detach |-> FALSE]
                           ELSE PushKey(Pushed[n - 1], unread[n])
<1> DEFINE Start == [pending |-> parser.pending, pasted |-> parser.pasted, out |-> <<>>, detach |-> FALSE]
           Step(s, n) == PushKey(s, unread[n])
           Upto(g, n) == g = [i \in 0 .. n |-> IF i = 0 THEN Start ELSE Step(g[i - 1], i)]
           Missing == {n \in 0 .. Len(unread) : ~\E g : Upto(g, n)}
<1>0. Len(unread) \in Nat
    OBVIOUS
<1> HIDE DEF Start, Step
<1>1. Missing = {}
    <2> SUFFICES ASSUME Missing # {} PROVE FALSE
        OBVIOUS
    <2>1. Missing \in SUBSET Nat
        BY <1>0
    <2> HIDE DEF Missing
    <2>2. PICK m \in Missing : \A n \in Missing : m <= n
        BY <2>1, LeastExists
    <2>3. m \in Nat /\ m <= Len(unread) /\ ~\E g : Upto(g, m)
        BY <1>0, <2>2 DEF Missing
    <2>4. m # 0
        <3>1. Upto([i \in 0 .. 0 |-> Start], 0)
            OBVIOUS
        <3>2. QED  BY <2>3, <3>1
    <2>5. m - 1 \in Nat /\ m - 1 \in 0 .. Len(unread) /\ m - 1 \notin Missing
        BY <1>0, <2>1, <2>2, <2>3, <2>4
    <2>6. PICK g : Upto(g, m - 1)
        BY <2>5 DEF Missing
    <2> DEFINE h == [i \in 0 .. m |-> IF i = m THEN Step(g[m - 1], m) ELSE g[i]]
    <2>7. \A i \in 0 .. m : h[i] = IF i = 0 THEN Start ELSE Step(h[i - 1], i)
        <3> TAKE i \in 0 .. m
        <3>1. CASE i = m
            BY <2>3, <2>4, <3>1
        <3>2. CASE i # m
            <4>1. i \in 0 .. m - 1 /\ h[i] = g[i] /\ (i # 0 => i - 1 \in 0 .. m /\ i - 1 # m /\ h[i - 1] = g[i - 1])
                BY <2>3, <2>4, <3>2
            <4>2. g[i] = IF i = 0 THEN Start ELSE Step(g[i - 1], i)
                BY <2>6, <4>1
            <4>3. QED  BY <4>1, <4>2
        <3>3. QED  BY <3>1, <3>2
    <2>8. Upto(h, m)
        BY <2>7
    <2>9. QED  BY <2>3, <2>8
<1>2. PICK g : Upto(g, Len(unread))
    <2>1. Len(unread) \in 0 .. Len(unread)
        BY <1>0
    <2>2. QED  BY <1>1, <2>1
<1>3. Upto(Pushed, Len(unread))
    <2>1. Pushed = CHOOSE f : Upto(f, Len(unread))
        BY DEF Pushed, Start, Step
    <2>2. QED  BY <1>2, <2>1
<1>4. QED
    BY <1>3 DEF Start, Step
-----------------------------------------------------------------------------
(***************************************************************************)
(* The terminal's client: what is typed reaches the program in order.      *)
(***************************************************************************)

\* Keys in order that lie after a, up to b, and are all the keys there but the dropped.
Carries(keys, a, b, dropped) ==
    /\ keys \in Seq(Nat) /\ a \in Nat /\ b \in Nat /\ a <= b
    /\ \A i \in 1 .. Len(keys) : keys[i] \in a + 1 .. b
    /\ \A i, j \in 1 .. Len(keys) : i < j => keys[i] < keys[j]
    /\ \A k \in a + 1 .. b : k \in dropped \/ \E i \in 1 .. Len(keys) : keys[i] = k

LEMMA CarriesNone ==
    ASSUME NEW a \in Nat, NEW dropped
    PROVE  Carries(<<>>, a, a, dropped)
BY DEF Carries

LEMMA CarriesGrows ==
    ASSUME NEW keys, NEW a, NEW b, NEW dropped, NEW more, Carries(keys, a, b, dropped), dropped \subseteq more
    PROVE  Carries(keys, a, b, more)
BY DEF Carries

\* What is dropped, and what follows it.
LEMMA CarriesAfter ==
    ASSUME NEW keys, NEW more, NEW a, NEW b, NEW c, NEW dropped,
           Carries(keys, a, b, dropped), Carries(more, b, c, dropped),
           \A i \in 1 .. Len(keys) : keys[i] \in dropped
    PROVE  Carries(more, a, c, dropped)
<1>1. /\ a \in Nat /\ b \in Nat /\ c \in Nat /\ a <= b /\ b <= c /\ more \in Seq(Nat)
    BY DEF Carries
<1>2. \A k \in a + 1 .. c : k \in a + 1 .. b \/ k \in b + 1 .. c
    BY <1>1
<1>3. \A k \in a + 1 .. c : k \in dropped \/ \E i \in 1 .. Len(more) : more[i] = k
    BY <1>2 DEF Carries
<1>4. \A i \in 1 .. Len(more) : more[i] \in a + 1 .. c
    BY <1>1 DEF Carries
<1>5. QED  BY <1>1, <1>3, <1>4 DEF Carries

LEMMA CarriesBefore ==
    ASSUME NEW keys, NEW a, NEW b, NEW c, NEW dropped,
           Carries(keys, a, b, dropped), Carries(<<>>, b, c, dropped)
    PROVE  Carries(keys, a, c, dropped)
<1>1. /\ a \in Nat /\ b \in Nat /\ c \in Nat /\ a <= b /\ b <= c /\ keys \in Seq(Nat)
    BY DEF Carries
<1>2. \A k \in a + 1 .. c : k \in a + 1 .. b \/ k \in b + 1 .. c
    BY <1>1
<1>3. \A k \in b + 1 .. c : k \in dropped
    BY DEF Carries
<1>4. \A k \in a + 1 .. c : k \in dropped \/ \E i \in 1 .. Len(keys) : keys[i] = k
    BY <1>2, <1>3 DEF Carries
<1>5. \A i \in 1 .. Len(keys) : keys[i] \in a + 1 .. c
    BY <1>1 DEF Carries
<1>6. QED  BY <1>1, <1>4, <1>5 DEF Carries

\* Keys that follow keys.
LEMMA CarriesBoth ==
    ASSUME NEW keys, NEW more, NEW a, NEW b, NEW c, NEW dropped,
           Carries(keys, a, b, dropped), Carries(more, b, c, dropped)
    PROVE  Carries(keys \o more, a, c, dropped)
<1>1. /\ a \in Nat /\ b \in Nat /\ c \in Nat /\ a <= b /\ b <= c
      /\ keys \in Seq(Nat) /\ more \in Seq(Nat)
    BY DEF Carries
<1> DEFINE all == keys \o more
<1>2. /\ all \in Seq(Nat) /\ Len(all) = Len(keys) + Len(more) /\ Len(keys) \in Nat /\ Len(more) \in Nat
      /\ \A i \in 1 .. Len(keys) : all[i] = keys[i]
      /\ \A i \in 1 .. Len(more) : all[Len(keys) + i] = more[i]
    <2>1. Len(all) = Len(keys) + Len(more) /\ Len(keys) \in Nat /\ Len(more) \in Nat
        BY <1>1
    <2>2. all \in Seq(Nat)
        BY <1>1
    <2>3. \A i \in 1 .. Len(keys) : all[i] = keys[i]
        BY <1>1
    <2>4. \A i \in 1 .. Len(more) : all[Len(keys) + i] = more[i]
        BY <1>1
    <2>5. QED  BY <2>1, <2>2, <2>3, <2>4
<1>3. \A i \in 1 .. Len(keys) : keys[i] \in a + 1 .. b
    BY DEF Carries
<1>4. \A i \in 1 .. Len(more) : more[i] \in b + 1 .. c
    BY DEF Carries
<1> HIDE DEF all
<1>5. ASSUME NEW i \in 1 .. Len(all)
      PROVE  \/ i \in 1 .. Len(keys) /\ all[i] = keys[i]
             \/ i - Len(keys) \in 1 .. Len(more) /\ all[i] = more[i - Len(keys)]
    <2>1. i \in 1 .. Len(keys) \/ (i - Len(keys) \in 1 .. Len(more) /\ Len(keys) + (i - Len(keys)) = i)
        BY <1>2
    <2>2. QED  BY <1>2, <2>1
<1>6. ASSUME NEW i \in 1 .. Len(all) PROVE all[i] \in a + 1 .. c
    <2>1. all[i] \in a + 1 .. b \/ all[i] \in b + 1 .. c
        BY <1>3, <1>4, <1>5
    <2>2. QED  BY <1>1, <2>1
<1>7. ASSUME NEW i \in 1 .. Len(all), NEW j \in 1 .. Len(all), i < j PROVE all[i] < all[j]
    <2>1. CASE i \in 1 .. Len(keys) /\ all[i] = keys[i] /\ j \in 1 .. Len(keys) /\ all[j] = keys[j]
        BY <1>7, <2>1 DEF Carries
    <2>2. CASE i \in 1 .. Len(keys) /\ all[i] = keys[i]
               /\ j - Len(keys) \in 1 .. Len(more) /\ all[j] = more[j - Len(keys)]
        <3>1. all[i] \in a + 1 .. b /\ all[j] \in b + 1 .. c
            BY <1>3, <1>4, <2>2
        <3>2. QED  BY <1>1, <3>1
    <2>3. CASE /\ i - Len(keys) \in 1 .. Len(more) /\ all[i] = more[i - Len(keys)]
               /\ j - Len(keys) \in 1 .. Len(more) /\ all[j] = more[j - Len(keys)]
        <3>1. i - Len(keys) < j - Len(keys)
            BY <1>2, <1>7
        <3>2. QED  BY <2>3, <3>1 DEF Carries
    <2>4. ~(j \in 1 .. Len(keys) /\ i - Len(keys) \in 1 .. Len(more))
        BY <1>2, <1>7
    <2>5. QED  BY <1>5, <2>1, <2>2, <2>3, <2>4
<1>8. ASSUME NEW k \in a + 1 .. c PROVE k \in dropped \/ \E i \in 1 .. Len(all) : all[i] = k
    <2>1. k \in a + 1 .. b \/ k \in b + 1 .. c
        BY <1>1
    <2>2. CASE k \in dropped
        BY <2>2
    <2>3. CASE \E i \in 1 .. Len(keys) : keys[i] = k
        <3>1. PICK i \in 1 .. Len(keys) : keys[i] = k
            BY <2>3
        <3>2. i \in 1 .. Len(all) /\ all[i] = k
            BY <1>2, <3>1
        <3>3. QED  BY <3>2
    <2>4. CASE \E i \in 1 .. Len(more) : more[i] = k
        <3>1. PICK i \in 1 .. Len(more) : more[i] = k
            BY <2>4
        <3>2. Len(keys) + i \in 1 .. Len(all) /\ all[Len(keys) + i] = k
            BY <1>2, <3>1
        <3>3. QED  BY <3>2
    <2>5. QED  BY <2>1, <2>2, <2>3, <2>4 DEF Carries
<1>9. Carries(all, a, c, dropped)
    <2>1. all \in Seq(Nat) /\ a <= c
        BY <1>1, <1>2
    <2>2. QED  BY <1>1, <1>6, <1>7, <1>8, <2>1 DEF Carries
<1>10. QED  BY <1>9 DEF all

\* The next key.
LEMMA CarriesOne ==
    ASSUME NEW b \in Nat, NEW dropped
    PROVE  Carries(<<b + 1>>, b, b + 1, dropped)
<1>1. <<b + 1>> \in Seq(Nat) /\ Len(<<b + 1>>) = 1 /\ <<b + 1>>[1] = b + 1
    OBVIOUS
<1>2. \A i \in 1 .. Len(<<b + 1>>) : i = 1
    BY <1>1
<1>3. \A k \in b + 1 .. b + 1 : k = b + 1
    OBVIOUS
<1>4. 1 \in 1 .. Len(<<b + 1>>)
    BY <1>1
<1> DEFINE one == <<b + 1>>
<1>5. one \in Seq(Nat) /\ one[1] = b + 1 /\ 1 \in 1 .. Len(one) /\ \A i \in 1 .. Len(one) : i = 1
    BY <1>1, <1>2, <1>4
<1> HIDE DEF one
<1>6. Carries(one, b, b + 1, dropped)
    <2>1. \A i \in 1 .. Len(one) : one[i] \in b + 1 .. b + 1
        BY <1>5
    <2>2. \A i, j \in 1 .. Len(one) : i < j => one[i] < one[j]
        BY <1>5
    <2>3. \A k \in b + 1 .. b + 1 : \E i \in 1 .. Len(one) : one[i] = k
        BY <1>3, <1>5
    <2>4. b + 1 \in Nat /\ b <= b + 1
        OBVIOUS
    <2>5. QED  BY <1>5, <2>1, <2>2, <2>3, <2>4 DEF Carries
<1>7. QED  BY <1>6 DEF one

\* All that waits, from q on.
LEMMA CarriesTyped ==
    ASSUME NEW keys \in Seq(Nat), NEW q \in Nat, NEW n, n = q + Len(keys), NEW dropped,
           \A i \in 1 .. Len(keys) : keys[i] = q + i
    PROVE  Carries(keys, q, n, dropped)
<1>1. Len(keys) \in Nat /\ n \in Nat /\ q <= n
    OBVIOUS
<1>2. \A i \in 1 .. Len(keys) : q + i \in q + 1 .. n
    BY <1>1
<1>3. \A i, j \in 1 .. Len(keys) : i < j => q + i < q + j
    BY <1>1
<1>4. \A k \in q + 1 .. n : k - q \in 1 .. Len(keys) /\ q + (k - q) = k
    BY <1>1
<1>5. ASSUME NEW k \in q + 1 .. n PROVE \E i \in 1 .. Len(keys) : keys[i] = k
    BY <1>4
<1>6. QED  BY <1>1, <1>2, <1>3, <1>5 DEF Carries

-----------------------------------------------------------------------------
KeyItems == [does : {"data", "eof", "resize"}, keys : Seq(Nat), size : Nat]
KeyPlaces == [key : Nat, size : Nat]
Place(key, size) == [key |-> key, size |-> size]

\* An item on its way takes the program on from one place to the next: it carries the
\* keys between, and is of the size the program then has or of the one it gives it.
Link(item, p, q, dropped) ==
    /\ item \in KeyItems /\ p \in KeyPlaces /\ q \in KeyPlaces
    /\ Carries(item.keys, p.key, q.key, dropped)
    /\ item.does = "resize" => q.size = item.size /\ item.keys = <<>>
    /\ item.does # "resize" => q.size = p.size
    /\ item.does = "data" => item.size = p.size

Along(items, at, dropped) ==
    \A i \in 1 .. Len(items) : Link(items[i], at[i - 1], at[i], dropped)

Path(items, p, q, dropped) ==
    /\ items \in Seq(KeyItems) /\ p \in KeyPlaces /\ q \in KeyPlaces
    /\ \E at \in [Nat -> KeyPlaces] : at[0] = p /\ at[Len(items)] = q /\ Along(items, at, dropped)

LEMMA PathEmpty ==
    ASSUME NEW p \in KeyPlaces, NEW dropped
    PROVE  /\ Path(<<>>, p, p, dropped)
           /\ \A q : Path(<<>>, p, q, dropped) => p = q
<1>1. Len(<<>>) = 0 /\ <<>> \in Seq(KeyItems) /\ 1 .. 0 = {}
    OBVIOUS
<1>2. [n \in Nat |-> p] \in [Nat -> KeyPlaces] /\ [n \in Nat |-> p][0] = p
    OBVIOUS
<1>3. QED  BY <1>1, <1>2 DEF Path, Along

LEMMA PathGrows ==
    ASSUME NEW items, NEW p, NEW q, NEW dropped, NEW more, Path(items, p, q, dropped), dropped \subseteq more
    PROVE  Path(items, p, q, more)
<1>1. ASSUME NEW item, NEW x, NEW y, Link(item, x, y, dropped) PROVE Link(item, x, y, more)
    BY <1>1, CarriesGrows DEF Link
<1>2. QED  BY <1>1 DEF Path, Along

LEMMA PathAppended ==
    ASSUME NEW items, NEW p, NEW q, NEW r, NEW dropped, NEW item,
           Path(items, p, q, dropped), Link(item, q, r, dropped)
    PROVE  Path(Append(items, item), p, r, dropped)
<1>1. PICK at \in [Nat -> KeyPlaces] : at[0] = p /\ at[Len(items)] = q /\ Along(items, at, dropped)
    BY DEF Path
<1>2. items \in Seq(KeyItems) /\ p \in KeyPlaces /\ item \in KeyItems /\ r \in KeyPlaces
    BY DEF Path, Link
<1> DEFINE all == Append(items, item)
           n == Len(items)
           new == [at EXCEPT ![n + 1] = r]
<1>3. /\ all \in Seq(KeyItems) /\ Len(all) = n + 1 /\ n \in Nat /\ all[n + 1] = item
      /\ \A i \in 1 .. n : all[i] = items[i]
    BY <1>2
<1>4. new \in [Nat -> KeyPlaces] /\ new[n + 1] = r /\ \A i \in 0 .. n : new[i] = at[i]
    BY <1>2, <1>3
<1>5. Along(items, at, dropped) /\ at[0] = p /\ at[n] = q
    BY <1>1
<1> HIDE DEF all, new, n
<1>6. ASSUME NEW i \in 1 .. Len(all)
      PROVE  Link(all[i], new[i - 1], new[i], dropped)
    <2>1. CASE i \in 1 .. n
        <3>1. all[i] = items[i] /\ new[i - 1] = at[i - 1] /\ new[i] = at[i]
            BY <1>3, <1>4, <2>1
        <3>2. Link(items[i], at[i - 1], at[i], dropped)
            BY <1>5, <2>1 DEF Along, n
        <3>3. QED  BY <3>1, <3>2
    <2>2. CASE i = n + 1
        <3>1. i - 1 = n /\ new[n] = q
            BY <1>3, <1>4, <1>5, <2>2
        <3>2. QED  BY <1>3, <1>4, <2>2, <3>1
    <2>3. QED  BY <1>3, <2>1, <2>2
<1>7. new[0] = p /\ new[Len(all)] = r
    BY <1>3, <1>4, <1>5
<1>8. Path(all, p, r, dropped)
    BY <1>2, <1>3, <1>4, <1>6, <1>7 DEF Path, Along
<1>9. QED  BY <1>8 DEF all

LEMMA PathHead ==
    ASSUME NEW items, NEW p, NEW q, NEW dropped, Path(items, p, q, dropped), items # <<>>
    PROVE  \E m \in KeyPlaces : Link(Head(items), p, m, dropped) /\ Path(Tail(items), m, q, dropped)
<1>1. PICK at \in [Nat -> KeyPlaces] : at[0] = p /\ at[Len(items)] = q /\ Along(items, at, dropped)
    BY DEF Path
<1>2. items \in Seq(KeyItems) /\ q \in KeyPlaces
    BY DEF Path
<1> DEFINE rest == Tail(items)
           n == Len(items)
           new == [i \in Nat |-> at[i + 1]]
<1>3. /\ rest \in Seq(KeyItems) /\ Len(rest) = n - 1 /\ n \in Nat \ {0} /\ Head(items) = items[1]
      /\ \A i \in 1 .. Len(rest) : rest[i] = items[i + 1]
    BY <1>2
<1>4. new \in [Nat -> KeyPlaces] /\ new[0] = at[1] /\ new[n - 1] = at[n] /\ at[1] \in KeyPlaces
    BY <1>3
<1>5. \A i \in Nat : new[i] = at[i + 1]
    OBVIOUS
<1>6. \A i \in 1 .. n : Link(items[i], at[i - 1], at[i], dropped)
    BY <1>1 DEF Along
<1>7. at[0] = p /\ at[n] = q
    BY <1>1
<1> HIDE DEF rest, new, n
<1>8. Link(Head(items), p, at[1], dropped)
    <2>1. 1 \in 1 .. n /\ 1 - 1 = 0
        BY <1>3
    <2>2. Link(items[1], at[1 - 1], at[1], dropped)
        BY <1>6, <2>1
    <2>3. QED  BY <1>3, <1>7, <2>1, <2>2
<1>9. ASSUME NEW i \in 1 .. Len(rest) PROVE Link(rest[i], new[i - 1], new[i], dropped)
    <2>1. i + 1 \in 1 .. n /\ i - 1 \in Nat /\ (i - 1) + 1 = i /\ (i + 1) - 1 = i /\ i \in Nat
        BY <1>3
    <2>2. Link(items[i + 1], at[(i + 1) - 1], at[i + 1], dropped)
        BY <1>6, <2>1
    <2>3. new[i - 1] = at[i] /\ new[i] = at[i + 1] /\ rest[i] = items[i + 1]
        BY <1>3, <1>5, <2>1
    <2>4. QED  BY <2>1, <2>2, <2>3
<1>10. new[Len(rest)] = q
    BY <1>3, <1>4, <1>7
<1>11. Path(rest, at[1], q, dropped)
    BY <1>2, <1>3, <1>4, <1>9, <1>10 DEF Path, Along
<1>12. QED  BY <1>4, <1>8, <1>11 DEF rest
-----------------------------------------------------------------------------
PendingKey(pending) == IF pending = 0 THEN <<>> ELSE <<pending>>
ParserStates == [pending : Nat, pasted : BOOLEAN, out : Seq(Nat), detach : BOOLEAN]

\* A parser that was given the keys after t up to c has put out the first of them and
\* keeps the rest.
InOrder(s, t, c, dropped) ==
    s.detach \/ \E m \in Nat : /\ Carries(s.out, t, m, dropped)
                               /\ Carries(PendingKey(s.pending), m, c, dropped)

LEMMA PushedInOrder ==
    ASSUME NEW s \in ParserStates, NEW t \in Nat, NEW c \in Nat, NEW dropped, InOrder(s, t, c, dropped)
    PROVE  PushKey(s, c + 1) \in ParserStates /\ InOrder(PushKey(s, c + 1), t, c + 1, dropped)
<1> DEFINE p == c + 1
           k == keyed[p]
           both == [s EXCEPT !.pending = 0, !.out = s.out \o <<s.pending, p>>]
           z == PushKey(s, p)
<1>1. /\ p \in Nat /\ p # 0 /\ s.out \in Seq(Nat) /\ s.pending \in Nat
      /\ s.out \o <<s.pending, p>> \in Seq(Nat) /\ Append(s.out, p) \in Seq(Nat)
      /\ s.out \o <<p>> = Append(s.out, p)
      /\ (s.out \o <<s.pending>>) \o <<p>> = s.out \o <<s.pending, p>>
    <2>1. s.out \in Seq(Nat) /\ s.pending \in Nat /\ p \in Nat /\ p # 0
        BY DEF ParserStates
    <2>2. <<s.pending, p>> \in Seq(Nat) /\ <<s.pending>> \in Seq(Nat) /\ <<p>> \in Seq(Nat)
        BY <2>1
    <2> DEFINE out == s.out
               last == s.pending
    <2> HIDE DEF out, last, p
    <2>3. out \in Seq(Nat) /\ last \in Nat /\ p \in Nat
        BY <2>1 DEF out, last
    <2>4. out \o <<last, p>> \in Seq(Nat) /\ Append(out, p) \in Seq(Nat)
        BY <2>3
    <2>5. out \o <<p>> = Append(out, p)
        BY <2>3
    <2>6. (out \o <<last>>) \o <<p>> = out \o <<last, p>>
        <3> DEFINE one == out \o <<last>>
                   l == one \o <<p>>
                   r == out \o <<last, p>>
        <3>1. <<last>> \in Seq(Nat) /\ <<p>> \in Seq(Nat) /\ <<last, p>> \in Seq(Nat) /\ Len(out) \in Nat
            BY <2>3
        <3>2. one \in Seq(Nat) /\ Len(one) = Len(out) + 1 /\ one[Len(out) + 1] = last
              /\ \A i \in 1 .. Len(out) : one[i] = out[i]
            BY <2>3, <3>1
        <3>3. r \in Seq(Nat) /\ Len(r) = Len(out) + 2 /\ r[Len(out) + 1] = last /\ r[Len(out) + 2] = p
              /\ \A i \in 1 .. Len(out) : r[i] = out[i]
            BY <2>3, <3>1
        <3> HIDE DEF one, r
        <3>4. l \in Seq(Nat) /\ Len(l) = Len(one) + 1 /\ l[Len(one) + 1] = p
              /\ \A i \in 1 .. Len(one) : l[i] = one[i]
            BY <2>3, <3>1, <3>2
        <3> HIDE DEF l
        <3>5. Len(l) = Len(r) /\ \A i \in 1 .. Len(r) : l[i] = r[i]
            <4>1. ASSUME NEW i \in 1 .. Len(r) PROVE l[i] = r[i]
                <5>1. i \in 1 .. Len(out) \/ i = Len(out) + 1 \/ i = Len(out) + 2
                    BY <3>1, <3>3
                <5>2. i \in 1 .. Len(out) \/ i = Len(out) + 1 => i \in 1 .. Len(one)
                    BY <3>1, <3>2
                <5>3. i = Len(out) + 2 => i = Len(one) + 1
                    BY <3>1, <3>2
                <5>4. QED  BY <3>2, <3>3, <3>4, <5>1, <5>2, <5>3
            <4>2. QED  BY <3>1, <3>2, <3>3, <3>4, <4>1
        <3>6. l = r
            <4>1. l = [i \in 1 .. Len(l) |-> l[i]] /\ r = [i \in 1 .. Len(r) |-> r[i]]
                BY <3>3, <3>4
            <4>2. [i \in 1 .. Len(l) |-> l[i]] = [i \in 1 .. Len(r) |-> r[i]]
                BY <3>5
            <4>3. QED  BY <4>1, <4>2
        <3>7. QED  BY <3>6 DEF l, r, one
    <2>7. QED  BY <2>1, <2>4, <2>5, <2>6 DEF out, last
<1>2. CASE s.detach
    <2>1. PushKey(s, p) = s
        BY <1>2 DEF PushKey
    <2>2. QED  BY <1>2, <2>1 DEF InOrder
<1>3. CASE ~s.detach
    <2>1. PICK m \in Nat : Carries(s.out, t, m, dropped) /\ Carries(PendingKey(s.pending), m, c, dropped)
        BY <1>3 DEF InOrder
    <2>2. CASE z = [s EXCEPT !.detach = TRUE]
        BY <2>2 DEF InOrder, ParserStates
    <2>3. CASE s.pending = 0 /\ z = [s EXCEPT !.pending = p]
        <3>1. z.out = s.out /\ z.pending = p /\ z \in ParserStates
            BY <1>1, <2>3 DEF ParserStates
        <3>2. Carries(s.out, t, c, dropped)
            BY <2>1, <2>3, CarriesBefore DEF PendingKey
        <3>3. Carries(PendingKey(p), c, c + 1, dropped)
            BY <1>1, CarriesOne DEF PendingKey
        <3>4. QED  BY <3>1, <3>2, <3>3 DEF InOrder
    <2>4. CASE s.pending = 0 /\ z = [s EXCEPT !.out = Append(s.out, p)]
        <3>1. z.out = Append(s.out, p) /\ z.pending = 0 /\ z \in ParserStates
            BY <1>1, <2>4 DEF ParserStates
        <3>2. Carries(s.out, t, c, dropped)
            BY <2>1, <2>4, CarriesBefore DEF PendingKey
        <3>3. Carries(s.out \o <<p>>, t, p, dropped)
            BY <3>2, CarriesOne, CarriesBoth
        <3>4. Append(s.out, p) = s.out \o <<p>>
            BY <1>1
        <3>5. Carries(z.out, t, p, dropped)
            BY <3>1, <3>3, <3>4
        <3>6. Carries(PendingKey(z.pending), p, p, dropped)
            BY <1>1, <3>1, CarriesNone DEF PendingKey
        <3>7. QED  BY <1>1, <3>1, <3>5, <3>6 DEF InOrder
    <2>5. CASE s.pending # 0 /\ \E pasted \in BOOLEAN : z = [both EXCEPT !.pasted = pasted]
        <3>1. z.out = s.out \o <<s.pending, p>> /\ z.pending = 0 /\ z \in ParserStates
            <4>1. PICK pasted \in BOOLEAN : z = [both EXCEPT !.pasted = pasted]
                BY <2>5
            <4>2. s = [pending |-> s.pending, pasted |-> s.pasted, out |-> s.out, detach |-> s.detach]
                  /\ s.detach \in BOOLEAN
                BY DEF ParserStates
            <4>3. z = [pending |-> 0, pasted |-> pasted, out |-> s.out \o <<s.pending, p>>, detach |-> s.detach]
                BY <4>1, <4>2
            <4> HIDE DEF z
            <4>4. QED  BY <1>1, <4>2, <4>3 DEF ParserStates
        <3>2. Carries(s.out \o <<s.pending>>, t, c, dropped)
            BY <2>1, <2>5, CarriesBoth DEF PendingKey
        <3>3. Carries((s.out \o <<s.pending>>) \o <<p>>, t, p, dropped)
            BY <3>2, CarriesOne, CarriesBoth
        <3>4. (s.out \o <<s.pending>>) \o <<p>> = s.out \o <<s.pending, p>>
            BY <1>1
        <3>5. Carries(z.out, t, p, dropped)
            BY <3>1, <3>3, <3>4
        <3>6. Carries(PendingKey(z.pending), p, p, dropped)
            BY <1>1, <3>1, CarriesNone DEF PendingKey
        <3>7. QED  BY <1>1, <3>1, <3>5, <3>6 DEF InOrder
    <2>6. \/ z = [s EXCEPT !.detach = TRUE]
          \/ s.pending = 0 /\ (z = [s EXCEPT !.pending = p] \/ z = [s EXCEPT !.out = Append(s.out, p)])
          \/ s.pending # 0 /\ (\/ z = [both EXCEPT !.pasted = TRUE]
                               \/ z = [both EXCEPT !.pasted = FALSE] \/ z = both)
        BY <1>3 DEF PushKey
    <2>7. both = [both EXCEPT !.pasted = s.pasted] /\ s.pasted \in BOOLEAN
        BY DEF ParserStates
    <2>8. QED  BY <2>2, <2>3, <2>4, <2>5, <2>6, <2>7
<1>4. QED  BY <1>2, <1>3

UnreadLast ==
    /\ keyed \in Seq(Keys) /\ unread \in Seq(Nat) /\ Len(unread) <= Len(keyed)
    /\ \A i \in 1 .. Len(unread) : unread[i] = (Len(keyed) - Len(unread)) + i
ReadSoFar == Len(keyed) - Len(unread)

LEMMA ReadFacts ==
    ASSUME UnreadLast
    PROVE  ReadSoFar \in Nat /\ Len(unread) \in Nat /\ Len(keyed) \in Nat /\ ReadSoFar + Len(unread) = Len(keyed)
<1>1. Len(unread) \in Nat /\ Len(keyed) \in Nat /\ Len(unread) <= Len(keyed)
    BY DEF UnreadLast
<1>2. QED  BY <1>1 DEF ReadSoFar

LEMMA ParsedInOrder ==
    ASSUME UnreadLast, parser.pending \in Nat, parser.pasted \in BOOLEAN, NEW t \in Nat, NEW dropped,
           Carries(PendingKey(parser.pending), t, ReadSoFar, dropped)
    PROVE  Parsed \in ParserStates /\ InOrder(Parsed, t, Len(keyed), dropped)
<1> DEFINE Good(n) == Pushed[n] \in ParserStates /\ InOrder(Pushed[n], t, ReadSoFar + n, dropped)
           Bad == {n \in 0 .. Len(unread) : ~Good(n)}
<1>1. /\ ReadSoFar \in Nat /\ Len(unread) \in Nat /\ unread \in Seq(Nat)
      /\ \A i \in 1 .. Len(unread) : unread[i] = ReadSoFar + i
      /\ ReadSoFar + Len(unread) = Len(keyed)
    BY ReadFacts DEF UnreadLast, ReadSoFar
<1>2. Pushed[0] = [pending |-> parser.pending, pasted |-> parser.pasted, out |-> <<>>, detach |-> FALSE]
      /\ \A n \in 1 .. Len(unread) : Pushed[n] = PushKey(Pushed[n - 1], unread[n])
    <2>1. 0 \in 0 .. Len(unread) /\ \A n \in 1 .. Len(unread) : n \in 0 .. Len(unread) /\ n # 0
        BY <1>1
    <2>2. QED  BY <1>1, <2>1, PushedUnfolds
<1>3. Good(0)
    <2>1. Pushed[0] \in ParserStates /\ Pushed[0].out = <<>> /\ Pushed[0].pending = parser.pending
        BY <1>2 DEF ParserStates
    <2>2. Carries(<<>>, t, t, dropped) /\ ReadSoFar + 0 = ReadSoFar
        BY <1>1, CarriesNone
    <2>3. QED  BY <2>1, <2>2 DEF InOrder
<1>4. ASSUME NEW n \in 1 .. Len(unread), Good(n - 1) PROVE Good(n)
    <2>1. /\ n - 1 \in Nat /\ ReadSoFar + (n - 1) \in Nat /\ (ReadSoFar + (n - 1)) + 1 = ReadSoFar + n
          /\ unread[n] = ReadSoFar + n
        BY <1>1
    <2>2. Pushed[n] = PushKey(Pushed[n - 1], (ReadSoFar + (n - 1)) + 1)
        BY <1>2, <2>1
    <2>3. QED  BY <1>4, <2>1, <2>2, PushedInOrder
<1> HIDE DEF Good
<1>5. Bad = {}
    <2> SUFFICES ASSUME Bad # {} PROVE FALSE
        OBVIOUS
    <2>1. Bad \in SUBSET Nat /\ \A n \in Bad : n \in 0 .. Len(unread)
        BY <1>1
    <2> HIDE DEF Bad
    <2>2. PICK n \in Bad : \A i \in Bad : n <= i
        BY <2>1, LeastExists
    <2>3. n # 0 /\ n \in 1 .. Len(unread)
        BY <1>1, <1>3, <2>1, <2>2 DEF Bad
    <2>4. n - 1 \in 0 .. Len(unread) /\ ~(n <= n - 1)
        BY <1>1, <2>3
    <2>5. Good(n - 1)
        BY <2>2, <2>4 DEF Bad
    <2>6. Good(n)
        BY <1>4, <2>3, <2>5
    <2>7. QED  BY <2>2, <2>6 DEF Bad
<1>6. Good(Len(unread))
    <2>1. Len(unread) \in 0 .. Len(unread)
        BY <1>1
    <2>2. QED  BY <1>5, <2>1
<1>7. QED  BY <1>1, <1>6 DEF Good, Parsed

-----------------------------------------------------------------------------
\* From the program's input back to the keys not read yet: where each part ends the next
\* one starts.
FromPump(pumping, pending, read, t, dropped) ==
    pumping.at \in {"runs", "sends"} =>
        \E m \in Nat :
            /\ IF pumping.at = "sends"
               THEN Link(pumping.item, Place(t, 0), Place(m, 0), dropped) /\ pumping.item.does # "resize"
               ELSE m = t
            /\ Carries(PendingKey(pending), m, read, dropped)

Plain(items) == \A i \in 1 .. Len(items) : items[i].does # "resize"

FromTyped(typed, pumping, pending, read, o, dropped) ==
    /\ Plain(typed)
    /\ \E t \in Nat : Path(typed, Place(o, 0), Place(t, 0), dropped) /\ FromPump(pumping, pending, read, t, dropped)

FromWire(got, size, items, box, sent, o, dropped) ==
    \E g \in Nat, w \in KeyPlaces : /\ Carries(got, 0, g, dropped)
                                 /\ Path(items, Place(g, size), w, dropped)
                                 /\ Path(box, w, Place(o, sent), dropped)

SentOn(o) == FromWire(program.got, program.size, wire.items, outbox, window.sent, o, early)
Typed(o) == FromTyped(typedKeys, pump, parser.pending, ReadSoFar, o, early)

StreamShape ==
    /\ program = [size |-> program.size, got |-> program.got, sized |-> TRUE,
                  wrote |-> program.wrote, state |-> program.state]
    /\ program.size \in Nat
    /\ window = [size |-> window.size, signal |-> window.signal, sent |-> window.sent]
    /\ window.size \in Nat /\ window.sent \in Nat
    /\ wire = [open |-> wire.open, items |-> wire.items] /\ wire.open \in BOOLEAN
    /\ ~wire.open => wire.items = <<>>
    /\ parser \in [pending : Nat, pasted : BOOLEAN, split : BOOLEAN]
    /\ pump = [at |-> pump.at, item |-> pump.item]
    /\ printer.at = "connects" => wire.items = <<>> /\ outbox = <<>>
    /\ ~use.interactive => parser.pending = 0
    /\ printer = [events |-> printer.events, at |-> printer.at, shown |-> printer.shown]

GotSound == \E g \in Nat : Carries(program.got, 0, g, early)
StreamSound == \E o \in Nat : Typed(o) /\ (wire.open => SentOn(o))
StreamInv == StreamShape /\ UnreadLast /\ GotSound /\ StreamSound

fromFront == <<program.got, program.size, wire, outbox, window.sent, early>>
fromBack == <<typedKeys, pump, parser.pending, keyed, unread, early>>

LEMMA StreamStays ==
    ASSUME StreamInv, StreamShape', UNCHANGED fromFront, UNCHANGED fromBack
    PROVE  StreamInv'
BY DEF StreamInv, UnreadLast, GotSound, StreamSound, SentOn, Typed, ReadSoFar, fromFront, fromBack

LEMMA DroppedMore ==
    ASSUME NEW got, NEW size, NEW items, NEW box, NEW sent, NEW o, NEW dropped, NEW more,
           dropped \subseteq more, FromWire(got, size, items, box, sent, o, dropped)
    PROVE  FromWire(got, size, items, box, sent, o, more)
BY CarriesGrows, PathGrows DEF FromWire

\* The terminal's side takes a step.
LEMMA BackMoves ==
    ASSUME StreamInv, StreamShape', UnreadLast', early \subseteq early',
           UNCHANGED <<program, wire, outbox, window>>,
           ASSUME NEW o \in Nat, Typed(o) PROVE FromTyped(typedKeys', pump', parser'.pending, ReadSoFar', o, early')
    PROVE  StreamInv'
<1>1. GotSound'
    <2>1. PICK g \in Nat : Carries(program.got, 0, g, early)
        BY DEF StreamInv, GotSound
    <2>2. Carries(program.got, 0, g, early')
        BY <2>1, CarriesGrows
    <2>3. QED  BY <2>2 DEF GotSound
<1>2. StreamSound'
    <2>1. PICK o \in Nat : Typed(o) /\ (wire.open => SentOn(o))
        BY DEF StreamInv, StreamSound
    <2>2. FromTyped(typedKeys', pump', parser'.pending, ReadSoFar', o, early')
        BY <2>1
    <2>3. ASSUME wire.open
          PROVE  FromWire(program'.got, program'.size, wire'.items, outbox', window'.sent, o, early')
        <3>1. FromWire(program.got, program.size, wire.items, outbox, window.sent, o, early')
            BY <2>1, <2>3, DroppedMore DEF SentOn
        <3>2. QED  BY <3>1
    <2>4. wire' = wire
        OBVIOUS
    <2>5. QED  BY <2>2, <2>3, <2>4 DEF StreamSound, SentOn, Typed
<1>3. QED  BY <1>1, <1>2 DEF StreamInv

\* The connection's side takes a step.
LEMMA FrontMoves ==
    ASSUME StreamInv, StreamShape', UNCHANGED fromBack, wire'.open => wire.open,
           GotSound',
           ASSUME NEW o \in Nat, SentOn(o), wire'.open
           PROVE  FromWire(program'.got, program'.size, wire'.items, outbox', window'.sent, o, early)
    PROVE  StreamInv'
<1>1. UnreadLast' /\ ReadSoFar' = ReadSoFar
    BY DEF StreamInv, UnreadLast, ReadSoFar, fromBack
<1>2. StreamSound'
    <2>1. PICK o \in Nat : Typed(o) /\ (wire.open => SentOn(o))
        BY DEF StreamInv, StreamSound
    <2>2. Typed(o)'
        BY <1>1, <2>1 DEF Typed, fromBack
    <2>3. wire'.open => FromWire(program'.got, program'.size, wire'.items, outbox', window'.sent, o, early)
        BY <2>1
    <2>4. early' = early
        BY DEF fromBack
    <2>5. QED  BY <2>2, <2>3, <2>4 DEF StreamSound, SentOn
<1>3. QED  BY <1>1, <1>2 DEF StreamInv
-----------------------------------------------------------------------------
\* Steps that move no key and no size.
LEMMA QuietKeeps ==
    ASSUME StreamInv, OutputInv,
           \/ Signalled \/ Cancelled \/ Restores \/ EndsBySignal \/ OutputHeld \/ PumpStops
           \/ Attached \/ OperationFails
           \/ ResizesWindow \/ RemoteWrites \/ RemoteEnds \/ ReadsEvent \/ Prints \/ OutputCloses
           \/ UNCHANGED terminalVars
    PROVE  StreamInv'
<1>1. /\ program = [size |-> program.size, got |-> program.got, sized |-> TRUE,
                    wrote |-> program.wrote, state |-> program.state]
      /\ window = [size |-> window.size, signal |-> window.signal, sent |-> window.sent]
      /\ window.size \in Nat /\ window.sent \in Nat /\ program.size \in Nat
      /\ pump = [at |-> pump.at, item |-> pump.item]
      /\ printer = [events |-> printer.events, at |-> printer.at, shown |-> printer.shown]
    BY DEF StreamInv, StreamShape
<1>2. UNCHANGED <<use, keyed, unread, parser, typedKeys, outbox, wire, early>>
    BY DEF Signalled, Cancelled, Restores, EndsBySignal, OutputHeld, PumpStops, Attached, OperationFails, ResizesWindow, RemoteWrites,
           RemoteEnds, ReadsEvent, Prints, OutputCloses, terminalVars
<1>3. /\ program' = [size |-> program'.size, got |-> program'.got, sized |-> TRUE,
                     wrote |-> program'.wrote, state |-> program'.state]
      /\ program'.size = program.size /\ program'.got = program.got
    <2>1. \/ UNCHANGED program
          \/ \E x : program' = [program EXCEPT !.state = x]
          \/ \E x : program' = [program EXCEPT !.wrote = x]
        BY DEF Signalled, Cancelled, Restores, EndsBySignal, OutputHeld, PumpStops, Attached, OperationFails, ResizesWindow, RemoteWrites,
               RemoteEnds, ReadsEvent, Prints, OutputCloses, terminalVars
    <2>2. QED  BY <1>1, <2>1
<1>4. /\ window' = [size |-> window'.size, signal |-> window'.signal, sent |-> window'.sent]
      /\ window'.size \in Nat /\ window'.sent = window.sent
    <2>1. \/ UNCHANGED window
          \/ \E x : window' = [window EXCEPT !.size = window.size + 1, !.signal = x]
        BY DEF Signalled, Cancelled, Restores, EndsBySignal, OutputHeld, PumpStops, Attached, OperationFails, ResizesWindow, RemoteWrites,
               RemoteEnds, ReadsEvent, Prints, OutputCloses, terminalVars
    <2>2. CASE \E x : window' = [window EXCEPT !.size = window.size + 1, !.signal = x]
        <3>1. PICK x : window' = [window EXCEPT !.size = window.size + 1, !.signal = x]
            BY <2>2
        <3>2. window' = [size |-> window.size + 1, signal |-> x, sent |-> window.sent]
            BY <1>1, <3>1
        <3>3. window.size + 1 \in Nat
            BY <1>1
        <3>4. QED  BY <3>2, <3>3
    <2>3. QED  BY <1>1, <2>1, <2>2
<1>5. UNCHANGED pump \/ pump' = [at |-> "done", item |-> <<>>]
    BY DEF Signalled, Cancelled, Restores, EndsBySignal, OutputHeld, PumpStops, Attached, OperationFails, ResizesWindow, RemoteWrites,
           RemoteEnds, ReadsEvent, Prints, OutputCloses, terminalVars
<1>6. /\ printer' = [events |-> printer'.events, at |-> printer'.at, shown |-> printer'.shown]
      /\ printer'.at = "connects" => printer.at = "connects"
    <2>1. ASSUME NEW x \in {"reads", "over", "prints", "closes"}, NEW y, NEW z,
                 printer' = [events |-> y, at |-> x, shown |-> z]
          PROVE  /\ printer' = [events |-> printer'.events, at |-> printer'.at, shown |-> printer'.shown]
                 /\ printer'.at # "connects"
        BY <2>1
    <2>2. CASE \/ Signalled \/ Cancelled \/ Restores \/ EndsBySignal \/ OutputHeld \/ PumpStops
               \/ ResizesWindow \/ UNCHANGED terminalVars
        <3>1. UNCHANGED printer
            BY <2>2 DEF Signalled, Cancelled, Restores, EndsBySignal, OutputHeld, PumpStops, ResizesWindow, terminalVars
        <3>2. QED  BY <1>1, <3>1
    <2>3. CASE RemoteWrites \/ RemoteEnds
        <3>1. \E y : printer' = [printer EXCEPT !.events = y]
            BY <2>3 DEF RemoteWrites, RemoteEnds
        <3>2. PICK y : printer' = [printer EXCEPT !.events = y]
            BY <3>1
        <3>3. printer' = [events |-> y, at |-> printer.at, shown |-> printer.shown]
            BY <1>1, <3>2
        <3>4. QED  BY <3>3
    <2>4. CASE Attached
        <3>1. printer' = [printer EXCEPT !.at = "reads"]
            BY <2>4 DEF Attached
        <3>2. printer' = [events |-> printer.events, at |-> "reads", shown |-> printer.shown]
            BY <1>1, <3>1
        <3>3. QED  BY <2>1, <3>2
    <2>5. CASE printer' = [printer EXCEPT !.at = "over"]
        <3>1. printer' = [events |-> printer.events, at |-> "over", shown |-> printer.shown]
            BY <1>1, <2>5
        <3>2. QED  BY <2>1, <3>1
    <2>6. CASE ReadsEvent
        <3>1. \/ printer' = [printer EXCEPT !.at = "over"]
              \/ printer' = [[printer EXCEPT !.events = Tail(printer.events)] EXCEPT !.at = "prints"]
              \/ printer' = [[printer EXCEPT !.events = Tail(printer.events)] EXCEPT !.at = "closes"]
            <4>1. Head(printer.events) \in OutputEvents
                BY <2>6 DEF ReadsEvent, OutputInv, OutputShape
            <4>2. QED  BY <2>6, <4>1 DEF ReadsEvent, OperationEnds, OutputEvents
        <3>2. \/ printer' = [printer EXCEPT !.at = "over"]
              \/ printer' = [events |-> Tail(printer.events), at |-> "prints", shown |-> printer.shown]
              \/ printer' = [events |-> Tail(printer.events), at |-> "closes", shown |-> printer.shown]
            BY <1>1, <3>1
        <3>3. QED  BY <2>1, <2>5, <3>2
    <2>7. CASE Prints
        <3>1. \/ printer' = [printer EXCEPT !.at = "over"]
              \/ printer' = [printer EXCEPT !.at = "reads", !.shown = printer.shown + 1]
            BY <2>7 DEF Prints, OperationEnds
        <3>2. \/ printer' = [printer EXCEPT !.at = "over"]
              \/ printer' = [events |-> printer.events, at |-> "reads", shown |-> printer.shown + 1]
            BY <1>1, <3>1
        <3>3. QED  BY <2>1, <2>5, <3>2
    <2>8. CASE OperationFails \/ OutputCloses
        BY <2>5, <2>8 DEF OperationFails, OutputCloses, OperationEnds
    <2>9. QED  BY <2>2, <2>3, <2>4, <2>6, <2>7, <2>8
<1>7. StreamShape'
    BY <1>1, <1>2, <1>3, <1>4, <1>5, <1>6 DEF StreamInv, StreamShape
<1>8. CASE UNCHANGED pump
    BY <1>2, <1>3, <1>4, <1>7, <1>8, StreamStays DEF fromFront, fromBack
<1>9. CASE pump' = [at |-> "done", item |-> <<>>] /\ PumpStops
    <2>1. UNCHANGED <<program, wire, outbox, window, keyed, unread, typedKeys, parser, early>>
        BY <1>9 DEF PumpStops
    <2>2. UnreadLast' /\ ReadSoFar' = ReadSoFar
        BY <2>1 DEF StreamInv, UnreadLast, ReadSoFar
    <2>3. pump'.at \notin {"runs", "sends"}
        BY <1>9
    <2>4. ASSUME NEW o \in Nat, Typed(o) PROVE FromTyped(typedKeys', pump', parser'.pending, ReadSoFar', o, early')
        BY <2>1, <2>3, <2>4 DEF Typed, FromTyped, FromPump
    <2>5. QED  BY <1>7, <2>1, <2>2, <2>4, BackMoves
<1>10. UNCHANGED pump \/ PumpStops
    BY DEF Signalled, Cancelled, Restores, EndsBySignal, OutputHeld, Attached, OperationFails, ResizesWindow, RemoteWrites,
           RemoteEnds, ReadsEvent, Prints, OutputCloses, terminalVars
<1>11. QED  BY <1>5, <1>8, <1>9, <1>10

LEMMA TypedOn ==
    ASSUME StreamInv, NEW k \in Keys, Types(k)
    PROVE  StreamInv'
<1>1. /\ keyed' = Append(keyed, k) /\ unread' = Append(unread, Len(keyed) + 1)
      /\ UNCHANGED <<use, parser, pump, typedKeys, window, outbox, wire, program, printer, early>>
    BY DEF Types
<1>2. /\ keyed \in Seq(Keys) /\ unread \in Seq(Nat) /\ Len(keyed) \in Nat /\ Len(unread) \in Nat
      /\ Len(unread) <= Len(keyed)
      /\ \A i \in 1 .. Len(unread) : unread[i] = (Len(keyed) - Len(unread)) + i
    BY DEF StreamInv, UnreadLast
<1>3. /\ keyed' \in Seq(Keys) /\ Len(keyed') = Len(keyed) + 1
      /\ unread' \in Seq(Nat) /\ Len(unread') = Len(unread) + 1 /\ unread'[Len(unread) + 1] = Len(keyed) + 1
      /\ \A i \in 1 .. Len(unread) : unread'[i] = unread[i]
    <2>1. Len(keyed) + 1 \in Nat
        BY <1>2
    <2>2. QED  BY <1>1, <1>2, <2>1
<1>4. ReadSoFar' = ReadSoFar
    BY <1>2, <1>3 DEF ReadSoFar
<1>5. UnreadLast'
    <2>1. ASSUME NEW i \in 1 .. Len(unread') PROVE unread'[i] = (Len(keyed') - Len(unread')) + i
        <3>1. i \in 1 .. Len(unread) \/ i = Len(unread) + 1
            BY <1>2, <1>3
        <3>2. Len(keyed') - Len(unread') = Len(keyed) - Len(unread) /\ (Len(keyed) - Len(unread)) + (Len(unread) + 1) = Len(keyed) + 1
            BY <1>2, <1>3
        <3>3. QED  BY <1>2, <1>3, <3>1, <3>2
    <2>2. Len(unread') <= Len(keyed')
        BY <1>2, <1>3
    <2>3. QED  BY <1>3, <2>1, <2>2 DEF UnreadLast
<1>6. StreamShape'
    BY <1>1 DEF StreamInv, StreamShape
<1>7. ASSUME NEW o \in Nat, Typed(o) PROVE FromTyped(typedKeys', pump', parser'.pending, ReadSoFar', o, early')
    BY <1>1, <1>4, <1>7 DEF Typed
<1>8. QED  BY <1>1, <1>5, <1>6, <1>7, BackMoves

-----------------------------------------------------------------------------
\* The reading thread.

LEMMA PlainAppended ==
    ASSUME NEW items \in Seq(KeyItems), NEW item \in KeyItems, Plain(items), item.does # "resize"
    PROVE  Plain(Append(items, item))
<1> DEFINE all == Append(items, item)
<1>1. /\ Len(all) = Len(items) + 1 /\ Len(items) \in Nat /\ all[Len(items) + 1] = item
      /\ \A i \in 1 .. Len(items) : all[i] = items[i]
    OBVIOUS
<1> HIDE DEF all
<1>2. ASSUME NEW i \in 1 .. Len(all) PROVE all[i].does # "resize"
    <2>1. i \in 1 .. Len(items) \/ i = Len(items) + 1
        BY <1>1
    <2>2. QED  BY <1>1, <2>1 DEF Plain
<1>3. Plain(all)
    BY <1>2 DEF Plain
<1>4. QED  BY <1>3 DEF all

LEMMA PlainTail ==
    ASSUME NEW items \in Seq(KeyItems), Plain(items), items # <<>>
    PROVE  Plain(Tail(items)) /\ Head(items).does # "resize"
<1> DEFINE rest == Tail(items)
<1>1. /\ Len(rest) = Len(items) - 1 /\ Len(items) \in Nat \ {0} /\ Head(items) = items[1]
      /\ \A i \in 1 .. Len(rest) : rest[i] = items[i + 1]
    OBVIOUS
<1> HIDE DEF rest
<1>2. \A i \in 1 .. Len(rest) : i + 1 \in 1 .. Len(items)
    BY <1>1
<1>3. Plain(rest)
    BY <1>1, <1>2 DEF Plain
<1>4. Head(items).does # "resize"
    <2>1. 1 \in 1 .. Len(items)
        BY <1>1
    <2>2. QED  BY <1>1, <2>1 DEF Plain
<1>5. QED  BY <1>3, <1>4 DEF rest

LEMMA DataLink ==
    ASSUME NEW keys, NEW t \in Nat, NEW m \in Nat, NEW dropped, Carries(keys, t, m, dropped)
    PROVE  Link(Data(keys), Place(t, 0), Place(m, 0), dropped) /\ Data(keys) \in KeyItems /\ Data(keys).does = "data"
<1>1. keys \in Seq(Nat)
    BY DEF Carries
<1>2. QED  BY <1>1 DEF Link, Data, Place, KeyPlaces, KeyItems

LEMMA TypedAppended ==
    ASSUME NEW typed, NEW o \in Nat, NEW t \in Nat, NEW m \in Nat, NEW item, NEW dropped, Plain(typed),
           Path(typed, Place(o, 0), Place(t, 0), dropped), item.does # "resize",
           Link(item, Place(t, 0), Place(m, 0), dropped)
    PROVE  Plain(Append(typed, item)) /\ Path(Append(typed, item), Place(o, 0), Place(m, 0), dropped)
<1>1. typed \in Seq(KeyItems) /\ item \in KeyItems
    BY DEF Path, Link
<1>2. Path(Append(typed, item), Place(o, 0), Place(m, 0), dropped)
    BY PathAppended
<1>3. QED  BY <1>1, <1>2, PlainAppended

\* What the thread read is offered: it is passed on, dropped with the thread's end, or
\* dropped early.
LEMMA OffersMoves ==
    ASSUME StreamInv, StreamShape', UnreadLast', pump.at = "runs", NEW keys, Offers(keys), keys \in Seq(Nat),
           UNCHANGED <<program, wire, outbox, window>>,
           ASSUME NEW t \in Nat, Carries(PendingKey(parser.pending), t, ReadSoFar, early)
           PROVE  \E m \in Nat : /\ Carries(keys, t, m, early)
                                 /\ Carries(PendingKey(parser'.pending), m, ReadSoFar', early)
    PROVE  StreamInv'
<1>1. early \subseteq early'
    BY DEF Offers, EndsPump
<1>2. ASSUME NEW o \in Nat, Typed(o)
      PROVE  FromTyped(typedKeys', pump', parser'.pending, ReadSoFar', o, early')
    <2>1. PICK t \in Nat : /\ Path(typedKeys, Place(o, 0), Place(t, 0), early)
                           /\ FromPump(pump, parser.pending, ReadSoFar, t, early)
        BY <1>2 DEF Typed, FromTyped
    <2>2. Plain(typedKeys)
        BY <1>2 DEF Typed, FromTyped
    <2>3. Carries(PendingKey(parser.pending), t, ReadSoFar, early)
        BY <2>1 DEF FromPump
    <2>4. PICK m \in Nat : /\ Carries(keys, t, m, early)
                           /\ Carries(PendingKey(parser'.pending), m, ReadSoFar', early)
        BY <2>3
    <2>5. CASE typedKeys' = Append(typedKeys, Data(keys)) /\ UNCHANGED <<pump, early>>
        <3>1. Link(Data(keys), Place(t, 0), Place(m, 0), early) /\ Data(keys).does # "resize"
            BY <2>4, DataLink
        <3>2. Plain(typedKeys') /\ Path(typedKeys', Place(o, 0), Place(m, 0), early)
            BY <2>1, <2>2, <2>5, <3>1, TypedAppended
        <3>3. FromPump(pump', parser'.pending, ReadSoFar', m, early')
            BY <2>4, <2>5 DEF FromPump
        <3>4. early' = early
            BY <2>5
        <3>5. QED  BY <3>2, <3>3, <3>4 DEF FromTyped
    <2>6. CASE pump' = [at |-> "done", item |-> <<>>] /\ UNCHANGED <<typedKeys, early>>
        <3>1. pump'.at \notin {"runs", "sends"}
            BY <2>6
        <3>2. QED  BY <2>1, <2>2, <2>6, <3>1 DEF FromTyped, FromPump
    <2>7. CASE (\A i \in 1 .. Len(keys) : keys[i] \in early') /\ UNCHANGED <<typedKeys, pump>>
        <3>1. Carries(keys, t, m, early') /\ Carries(PendingKey(parser'.pending), m, ReadSoFar', early')
            BY <1>1, <2>4, CarriesGrows
        <3>2. Carries(PendingKey(parser'.pending), t, ReadSoFar', early')
            BY <2>7, <3>1, CarriesAfter
        <3>3. Path(typedKeys, Place(o, 0), Place(t, 0), early')
            BY <1>1, <2>1, PathGrows
        <3>4. QED  BY <2>2, <2>7, <3>2, <3>3 DEF FromTyped, FromPump
    <2>8. \/ typedKeys' = Append(typedKeys, Data(keys)) /\ UNCHANGED <<pump, early>>
          \/ pump' = [at |-> "done", item |-> <<>>] /\ UNCHANGED <<typedKeys, early>>
          \/ early' = early \cup Range(keys) /\ UNCHANGED <<typedKeys, pump>>
        BY DEF Offers, EndsPump
    <2>9. early' = early \cup Range(keys) => \A i \in 1 .. Len(keys) : keys[i] \in early'
        BY DEF Range
    <2>10. QED  BY <2>5, <2>6, <2>7, <2>8, <2>9
<1>3. QED  BY <1>1, <1>2, BackMoves
LEMMA ReadsKeep ==
    ASSUME StreamInv, ReadsTerminal
    PROVE  StreamInv'
<1>1. /\ unread' = <<>> /\ pump.at = "runs" /\ use.interactive
      /\ UNCHANGED <<use, keyed, window, outbox, wire, program, printer>>
      /\ parser' = [parser EXCEPT !.pending = Parsed.pending, !.pasted = Parsed.pasted]
      /\ IF Parsed.detach THEN EndsPump("detach") /\ UNCHANGED <<typedKeys, early>> ELSE Offers(Parsed.out)
    BY DEF ReadsTerminal, PumpRuns
<1>2. UnreadLast /\ parser \in [pending : Nat, pasted : BOOLEAN, split : BOOLEAN]
      /\ pump = [at |-> pump.at, item |-> pump.item]
    BY DEF StreamInv, StreamShape
<1>3. ReadSoFar \in Nat /\ Len(keyed) \in Nat
    BY <1>2, ReadFacts
<1>4. UnreadLast' /\ ReadSoFar' = Len(keyed)
    <2>1. Len(<<>>) = 0 /\ <<>> \in Seq(Nat)
        OBVIOUS
    <2>2. Len(unread') = 0 /\ unread' \in Seq(Nat) /\ keyed' = keyed
        BY <1>1, <2>1
    <2>3. ReadSoFar' = Len(keyed)
        BY <1>3, <2>2 DEF ReadSoFar
    <2>4. UnreadLast'
        BY <1>2, <1>3, <2>2 DEF UnreadLast
    <2>5. QED  BY <2>3, <2>4
<1>5. ASSUME NEW t \in Nat, Carries(PendingKey(parser.pending), t, ReadSoFar, early)
      PROVE  Parsed \in ParserStates /\ InOrder(Parsed, t, Len(keyed), early)
    BY <1>2, <1>5, ParsedInOrder
<1>6. Parsed \in ParserStates
    <2>1. PICK o \in Nat : Typed(o)
        BY DEF StreamInv, StreamSound
    <2>2. PICK t \in Nat : Carries(PendingKey(parser.pending), t, ReadSoFar, early)
        BY <1>1, <2>1 DEF Typed, FromTyped, FromPump
    <2>3. QED  BY <1>5, <2>2
<1>7. StreamShape' /\ parser'.pending = Parsed.pending
    <2>1. /\ parser' \in [pending : Nat, pasted : BOOLEAN, split : BOOLEAN]
          /\ parser'.pending = Parsed.pending
        <3>1. Parsed.pending \in Nat /\ Parsed.pasted \in BOOLEAN
            BY <1>6 DEF ParserStates
        <3>2. QED  BY <1>1, <1>2, <3>1
    <2>2. pump' = [at |-> pump'.at, item |-> pump'.item]
        BY <1>1, <1>2 DEF EndsPump, Offers
    <2>3. QED  BY <1>1, <2>1, <2>2 DEF StreamInv, StreamShape
<1>8. CASE Parsed.detach
    <2>1. pump' = [at |-> "done", item |-> <<>>] /\ UNCHANGED <<typedKeys, early>>
        BY <1>1, <1>8 DEF EndsPump
    <2>2. pump'.at \notin {"runs", "sends"}
        BY <2>1
    <2>3. ASSUME NEW o \in Nat, Typed(o)
          PROVE  FromTyped(typedKeys', pump', parser'.pending, ReadSoFar', o, early')
        BY <2>1, <2>2, <2>3 DEF Typed, FromTyped, FromPump
    <2>4. QED  BY <1>1, <1>4, <1>7, <2>1, <2>3, BackMoves
<1>9. CASE ~Parsed.detach
    <2>1. Offers(Parsed.out) /\ Parsed.out \in Seq(Nat)
        BY <1>1, <1>6, <1>9 DEF ParserStates
    <2>2. ASSUME NEW t \in Nat, Carries(PendingKey(parser.pending), t, ReadSoFar, early)
          PROVE  \E m \in Nat : /\ Carries(Parsed.out, t, m, early)
                                /\ Carries(PendingKey(parser'.pending), m, ReadSoFar', early)
        BY <1>4, <1>5, <1>7, <1>9, <2>2 DEF InOrder
    <2>3. QED  BY <1>1, <1>4, <1>7, <2>1, <2>2, OffersMoves
<1>10. QED  BY <1>8, <1>9

\* The bound of what is read moves with nothing read.
LEMMA NothingRead ==
    ASSUME StreamInv, UNCHANGED <<keyed, unread>>
    PROVE  UnreadLast' /\ ReadSoFar' = ReadSoFar
BY DEF StreamInv, UnreadLast, ReadSoFar

LEMMA PausesKeep ==
    ASSUME StreamInv, Pauses
    PROVE  StreamInv'
<1>1. /\ pump.at = "runs" /\ use.interactive /\ parser.pending # 0
      /\ UNCHANGED <<use, keyed, unread, window, outbox, wire, program, printer>>
      /\ parser' = [parser EXCEPT !.pending = 0, !.split = TRUE] /\ Offers(<<parser.pending>>)
    BY DEF Pauses, PumpRuns
<1>2. parser \in [pending : Nat, pasted : BOOLEAN, split : BOOLEAN] /\ pump = [at |-> pump.at, item |-> pump.item]
      /\ ReadSoFar \in Nat
    BY ReadFacts DEF StreamInv, StreamShape
<1>3. UnreadLast' /\ ReadSoFar' = ReadSoFar
    BY <1>1, NothingRead
<1>4. parser' \in [pending : Nat, pasted : BOOLEAN, split : BOOLEAN] /\ parser'.pending = 0
    BY <1>1, <1>2
<1>5. StreamShape'
    <2>1. pump' = [at |-> pump'.at, item |-> pump'.item]
        BY <1>1, <1>2 DEF EndsPump, Offers
    <2>2. QED  BY <1>1, <1>4, <2>1 DEF StreamInv, StreamShape
<1>6. ASSUME NEW t \in Nat, Carries(PendingKey(parser.pending), t, ReadSoFar, early)
      PROVE  \E m \in Nat : /\ Carries(<<parser.pending>>, t, m, early)
                            /\ Carries(PendingKey(parser'.pending), m, ReadSoFar', early)
    <2>1. Carries(<<parser.pending>>, t, ReadSoFar, early)
        BY <1>1, <1>6 DEF PendingKey
    <2>2. Carries(PendingKey(parser'.pending), ReadSoFar, ReadSoFar', early)
        BY <1>2, <1>3, <1>4, CarriesNone DEF PendingKey
    <2>3. QED  BY <1>2, <2>1, <2>2
<1>7. <<parser.pending>> \in Seq(Nat)
    BY <1>2
<1>8. QED  BY <1>1, <1>3, <1>5, <1>6, <1>7, OffersMoves

LEMMA PipeKeeps ==
    ASSUME StreamInv, ReadsPipe
    PROVE  StreamInv'
<1>1. /\ pump.at = "runs" /\ ~use.interactive /\ unread' = <<>>
      /\ UNCHANGED <<use, keyed, parser, typedKeys, window, outbox, wire, program, printer, early>>
      /\ pump' = [at |-> "sends", item |-> IF unread = <<>> THEN Eof ELSE Data(unread)]
    BY DEF ReadsPipe, PumpRuns
<1>2. parser.pending = 0 /\ UnreadLast
    BY <1>1 DEF StreamInv, StreamShape
<1>3. /\ ReadSoFar \in Nat /\ Len(keyed) \in Nat /\ Len(unread) \in Nat /\ unread \in Seq(Nat)
      /\ ReadSoFar + Len(unread) = Len(keyed)
      /\ \A i \in 1 .. Len(unread) : unread[i] = ReadSoFar + i
    BY <1>2, ReadFacts DEF UnreadLast, ReadSoFar
<1>4. UnreadLast' /\ ReadSoFar' = Len(keyed)
    <2>1. Len(<<>>) = 0 /\ <<>> \in Seq(Nat)
        OBVIOUS
    <2>2. Len(unread') = 0 /\ unread' \in Seq(Nat) /\ keyed' = keyed
        BY <1>1, <2>1
    <2>3. ReadSoFar' = Len(keyed)
        BY <1>3, <2>2 DEF ReadSoFar
    <2>4. UnreadLast'
        BY <1>2, <1>3, <2>2 DEF UnreadLast
    <2>5. QED  BY <2>3, <2>4
<1>5. StreamShape'
    BY <1>1 DEF StreamInv, StreamShape
<1>6. ASSUME NEW o \in Nat, Typed(o)
      PROVE  FromTyped(typedKeys', pump', parser'.pending, ReadSoFar', o, early')
    <2>1. Plain(typedKeys) /\ \E t \in Nat : Path(typedKeys, Place(o, 0), Place(t, 0), early)
                                            /\ FromPump(pump, parser.pending, ReadSoFar, t, early)
        BY <1>6 DEF Typed, FromTyped
    <2>2. PICK t \in Nat : /\ Path(typedKeys, Place(o, 0), Place(t, 0), early)
                           /\ FromPump(pump, parser.pending, ReadSoFar, t, early)
        BY <2>1
    <2>3. Carries(<<>>, t, ReadSoFar, early)
        BY <1>1, <1>2, <2>2 DEF FromPump, PendingKey
    <2>4. Carries(unread, ReadSoFar, Len(keyed), early)
        BY <1>3, CarriesTyped
    <2>5. Carries(unread, t, Len(keyed), early)
        <3>1. \A i \in 1 .. Len(<<>>) : <<>>[i] \in early
            OBVIOUS
        <3>2. QED  BY <2>3, <2>4, <3>1, CarriesAfter
    <2>6. Link(pump'.item, Place(t, 0), Place(Len(keyed), 0), early) /\ pump'.item.does # "resize"
        <3>1. CASE unread = <<>>
            <4>1. pump'.item = Eof /\ Carries(<<>>, t, Len(keyed), early)
                BY <1>1, <2>5, <3>1
            <4>2. Eof \in KeyItems /\ Eof.keys = <<>> /\ Eof.does = "eof"
                BY DEF Eof, KeyItems
            <4>3. QED  BY <1>3, <4>1, <4>2 DEF Link, Place, KeyPlaces
        <3>2. CASE unread # <<>>
            <4>1. pump'.item = Data(unread)
                BY <1>1, <3>2
            <4>2. QED  BY <1>3, <2>5, <4>1, DataLink
        <3>3. QED  BY <3>1, <3>2
    <2>7. Carries(PendingKey(parser'.pending), Len(keyed), ReadSoFar', early)
        BY <1>1, <1>2, <1>3, <1>4, CarriesNone DEF PendingKey
    <2>8. pump'.at = "sends"
        BY <1>1
    <2>9. FromPump(pump', parser'.pending, ReadSoFar', t, early)
        BY <1>3, <2>6, <2>7, <2>8 DEF FromPump
    <2>10. QED  BY <1>1, <2>1, <2>2, <2>9 DEF FromTyped
<1>7. QED  BY <1>1, <1>4, <1>5, <1>6, BackMoves

LEMMA PumpSendKeeps ==
    ASSUME StreamInv, PumpSends
    PROVE  StreamInv'
<1>1. /\ pump.at = "sends"
      /\ UNCHANGED <<use, keyed, unread, parser, window, outbox, wire, program, printer, early>>
      /\ \/ /\ typedKeys' = Append(typedKeys, pump.item)
            /\ pump' = [at |-> IF pump.item = Eof THEN "ended" ELSE "runs", item |-> <<>>]
         \/ pump' = [at |-> "done", item |-> <<>>] /\ UNCHANGED typedKeys
    BY DEF PumpSends, EndsPump
<1>2. UnreadLast' /\ ReadSoFar' = ReadSoFar
    BY <1>1, NothingRead
<1>3. StreamShape'
    BY <1>1 DEF StreamInv, StreamShape
<1>4. ASSUME NEW o \in Nat, Typed(o)
      PROVE  FromTyped(typedKeys', pump', parser'.pending, ReadSoFar', o, early')
    <2>1. Plain(typedKeys) /\ \E t \in Nat : Path(typedKeys, Place(o, 0), Place(t, 0), early)
                                            /\ FromPump(pump, parser.pending, ReadSoFar, t, early)
        BY <1>4 DEF Typed, FromTyped
    <2>2. PICK t \in Nat : /\ Path(typedKeys, Place(o, 0), Place(t, 0), early)
                           /\ FromPump(pump, parser.pending, ReadSoFar, t, early)
        BY <2>1
    <2>3. CASE pump' = [at |-> "done", item |-> <<>>] /\ UNCHANGED typedKeys
        <3>1. pump'.at \notin {"runs", "sends"}
            BY <2>3
        <3>2. QED  BY <1>1, <2>1, <2>2, <2>3, <3>1 DEF FromTyped, FromPump
    <2>4. CASE /\ typedKeys' = Append(typedKeys, pump.item)
               /\ pump' = [at |-> IF pump.item = Eof THEN "ended" ELSE "runs", item |-> <<>>]
        <3>1. PICK m \in Nat : /\ Link(pump.item, Place(t, 0), Place(m, 0), early) /\ pump.item.does # "resize"
                               /\ Carries(PendingKey(parser.pending), m, ReadSoFar, early)
            BY <1>1, <2>2 DEF FromPump
        <3>2. Plain(typedKeys') /\ Path(typedKeys', Place(o, 0), Place(m, 0), early)
            BY <2>1, <2>2, <2>4, <3>1, TypedAppended
        <3>3. pump'.at \in {"ended", "runs"}
            BY <2>4
        <3>4. FromPump(pump', parser'.pending, ReadSoFar', m, early')
            BY <1>1, <1>2, <3>1, <3>3 DEF FromPump
        <3>5. QED  BY <1>1, <3>2, <3>4 DEF FromTyped
    <2>5. QED  BY <1>1, <2>3, <2>4
<1>5. QED  BY <1>1, <1>2, <1>3, <1>4, BackMoves
-----------------------------------------------------------------------------
\* The connection.

LEMMA GotStays ==
    ASSUME StreamInv, UNCHANGED <<program, early>>
    PROVE  GotSound'
<1>1. PICK g \in Nat : Carries(program.got, 0, g, early)
    BY DEF StreamInv, GotSound
<1>2. Carries(program'.got, 0, g, early')
    BY <1>1
<1>3. QED  BY <1>2 DEF GotSound

LEMMA SizeChanged ==
    ASSUME NEW n, NEW p,
           p = [size |-> p.size, got |-> p.got, sized |-> TRUE, wrote |-> p.wrote, state |-> p.state]
    PROVE  [p EXCEPT !.size = n] =
               [size |-> n, got |-> p.got, sized |-> TRUE, wrote |-> p.wrote, state |-> p.state]
<1> DEFINE q == [p EXCEPT !.size = n]
<1>1. q = [size |-> n, got |-> p.got, sized |-> p.sized, wrote |-> p.wrote, state |-> p.state]
    OBVIOUS
<1>2. p.sized = TRUE
    OBVIOUS
<1> HIDE DEF q
<1>3. q = [size |-> n, got |-> p.got, sized |-> TRUE, wrote |-> p.wrote, state |-> p.state]
    BY <1>1, <1>2
<1>4. QED  BY <1>3 DEF q

LEMMA SessionRequestKeeps ==
    ASSUME StreamInv, RequestsSession
    PROVE  StreamInv'
<1>1. /\ printer.at = "connects"
      /\ UNCHANGED <<use, keyed, unread, parser, pump, typedKeys, outbox, wire, early>>
      /\ window' = [window EXCEPT !.sent = window.size]
      /\ program' = [program EXCEPT !.size = window.size]
      /\ printer' = [printer EXCEPT !.at = IF use.view THEN "views" ELSE "opens"]
    BY DEF RequestsSession
<1>2. StreamShape
    BY DEF StreamInv
<1>3. wire.items = <<>> /\ outbox = <<>> /\ window.size \in Nat
    BY <1>1, <1>2 DEF StreamShape
<1>4. /\ program' = [size |-> window.size, got |-> program.got, sized |-> TRUE,
                     wrote |-> program.wrote, state |-> program.state]
      /\ window' = [size |-> window.size, signal |-> window.signal, sent |-> window.size]
      /\ printer' = [events |-> printer.events, at |-> IF use.view THEN "views" ELSE "opens",
                     shown |-> printer.shown]
    <2>1. /\ program = [size |-> program.size, got |-> program.got, sized |-> TRUE,
                        wrote |-> program.wrote, state |-> program.state]
          /\ window = [size |-> window.size, signal |-> window.signal, sent |-> window.sent]
          /\ printer = [events |-> printer.events, at |-> printer.at, shown |-> printer.shown]
        BY <1>2 DEF StreamShape
    <2>2. program' = [size |-> window.size, got |-> program.got, sized |-> TRUE,
                      wrote |-> program.wrote, state |-> program.state]
        BY <1>1, <2>1, SizeChanged
    <2>3. window' = [size |-> window.size, signal |-> window.signal, sent |-> window.size]
        BY <1>1, <2>1
    <2>4. PICK at : at = IF use.view THEN "views" ELSE "opens"
        OBVIOUS
    <2>5. printer' = [printer EXCEPT !.at = at]
        BY <1>1, <2>4
    <2>6. printer' = [events |-> printer.events, at |-> at, shown |-> printer.shown]
        BY <2>1, <2>5
    <2>7. QED  BY <2>2, <2>3, <2>4, <2>6
<1>5. StreamShape'
    <2>1. printer'.at # "connects"
        BY <1>4
    <2>2. QED  BY <1>1, <1>2, <1>3, <1>4, <2>1 DEF StreamShape
<1>6. UNCHANGED fromBack /\ wire' = wire
    BY <1>1 DEF fromBack
<1>7. GotSound'
    <2>1. PICK g \in Nat : Carries(program.got, 0, g, early)
        BY DEF StreamInv, GotSound
    <2>2. Carries(program'.got, 0, g, early')
        BY <1>1, <1>4, <2>1
    <2>3. QED  BY <2>2 DEF GotSound
<1>8. ASSUME NEW o \in Nat, SentOn(o), wire'.open
      PROVE  FromWire(program'.got, program'.size, wire'.items, outbox', window'.sent, o, early)
    <2>1. PICK g \in Nat, w \in KeyPlaces : /\ Carries(program.got, 0, g, early)
                                         /\ Path(<<>>, Place(g, program.size), w, early)
                                         /\ Path(<<>>, w, Place(o, window.sent), early)
        BY <1>3, <1>8 DEF SentOn, FromWire
    <2>2. Place(g, program.size) = w /\ w = Place(o, window.sent)
        BY <2>1, PathEmpty DEF Path
    <2>3. g = o
        BY <2>2 DEF Place
    <2>4. Place(o, window.size) \in KeyPlaces
        BY <1>3 DEF Place, KeyPlaces
    <2>5. Path(<<>>, Place(o, window.size), Place(o, window.size), early)
        BY <2>4, PathEmpty
    <2>6. /\ program'.got = program.got /\ program'.size = window.size /\ window'.sent = window.size
          /\ wire'.items = <<>> /\ outbox' = <<>>
        BY <1>1, <1>3, <1>4
    <2>7. QED  BY <2>1, <2>3, <2>4, <2>5, <2>6 DEF FromWire
<1>9. QED  BY <1>5, <1>6, <1>7, <1>8, FrontMoves

\* With nothing left to send, what was put on the wire ends where the rest starts.
LEMMA NothingToSend ==
    ASSUME StreamInv, outbox = <<>>, NEW o \in Nat, SentOn(o)
    PROVE  \E g \in Nat : /\ Carries(program.got, 0, g, early)
                          /\ Path(wire.items, Place(g, program.size), Place(o, window.sent), early)
<1>1. PICK g \in Nat, w \in KeyPlaces : /\ Carries(program.got, 0, g, early)
                                     /\ Path(wire.items, Place(g, program.size), w, early)
                                     /\ Path(<<>>, w, Place(o, window.sent), early)
    BY DEF SentOn, FromWire
<1>2. w = Place(o, window.sent)
    BY <1>1, PathEmpty
<1>3. QED  BY <1>1, <1>2

LEMMA ResizeLink ==
    ASSUME NEW o \in Nat, NEW sent \in Nat, NEW size \in Nat, NEW dropped
    PROVE  /\ Link(Resize(size), Place(o, sent), Place(o, size), dropped)
           /\ Path(<<Resize(size)>>, Place(o, sent), Place(o, size), dropped)
<1>1. Place(o, sent) \in KeyPlaces /\ Place(o, size) \in KeyPlaces
    BY DEF Place, KeyPlaces
<1>2. Link(Resize(size), Place(o, sent), Place(o, size), dropped)
    <2>1. Resize(size) \in KeyItems /\ Resize(size).keys = <<>> /\ Resize(size).size = size /\ Resize(size).does = "resize"
        BY DEF Resize, KeyItems
    <2>2. Carries(<<>>, o, o, dropped)
        BY CarriesNone
    <2>3. QED  BY <1>1, <2>1, <2>2 DEF Link, Place
<1>3. Append(<<>>, Resize(size)) = <<Resize(size)>>
    OBVIOUS
<1>4. Path(Append(<<>>, Resize(size)), Place(o, sent), Place(o, size), dropped)
    BY <1>1, <1>2, PathEmpty, PathAppended
<1>5. QED  BY <1>2, <1>3, <1>4

LEMMA RelaysResizeKeeps ==
    ASSUME StreamInv, RelaysResize
    PROVE  StreamInv'
<1>1. /\ outbox = <<>> /\ outbox' = <<Resize(window.size)>> /\ printer.at # "connects"
      /\ UNCHANGED <<use, keyed, unread, parser, pump, typedKeys, wire, program, printer, early>>
      /\ window' = [window EXCEPT !.signal = FALSE, !.sent = window.size]
    BY DEF RelaysResize, Relaying, Forwards
<1>2. StreamShape /\ window.size \in Nat /\ window.sent \in Nat
    BY DEF StreamInv, StreamShape
<1>3. window' = [size |-> window.size, signal |-> FALSE, sent |-> window.size]
    <2>1. window = [size |-> window.size, signal |-> window.signal, sent |-> window.sent]
        BY <1>2 DEF StreamShape
    <2>2. QED  BY <1>1, <2>1
<1>4. StreamShape'
    BY <1>1, <1>2, <1>3 DEF StreamShape
<1>5. GotSound' /\ UNCHANGED fromBack
    BY <1>1, GotStays DEF fromBack
<1>6. ASSUME NEW o \in Nat, SentOn(o), wire'.open
      PROVE  FromWire(program'.got, program'.size, wire'.items, outbox', window'.sent, o, early)
    <2>1. PICK g \in Nat : /\ Carries(program.got, 0, g, early)
                           /\ Path(wire.items, Place(g, program.size), Place(o, window.sent), early)
        BY <1>1, <1>6, NothingToSend
    <2>2. Path(outbox', Place(o, window.sent), Place(o, window.size), early)
        BY <1>1, <1>2, ResizeLink
    <2>3. Place(o, window.sent) \in KeyPlaces
        BY <1>2 DEF Place, KeyPlaces
    <2>4. window'.sent = window.size
        BY <1>3
    <2>5. QED  BY <1>1, <2>1, <2>2, <2>3, <2>4 DEF FromWire
<1>7. QED  BY <1>1, <1>4, <1>5, <1>6, FrontMoves

\* An item of the thread, with the window's size.
LEMMA SizedLink ==
    ASSUME NEW item, NEW o \in Nat, NEW m \in KeyPlaces, NEW size \in Nat, NEW sent \in Nat, NEW dropped,
           Link(item, Place(o, 0), m, dropped), item.does # "resize",
           item.does = "data" => sent = size
    PROVE  /\ m = Place(m.key, 0) /\ m.key \in Nat
           /\ Link([item EXCEPT !.size = size], Place(o, sent), Place(m.key, sent), dropped)
<1>1. /\ item \in KeyItems /\ Carries(item.keys, o, m.key, dropped) /\ m.size = 0
    BY DEF Link, Place
<1>2. m = Place(m.key, 0) /\ m.key \in Nat
    BY <1>1 DEF KeyPlaces, Place
<1> DEFINE new == [item EXCEPT !.size = size]
<1>3. new \in KeyItems /\ new.keys = item.keys /\ new.size = size /\ new.does = item.does
    BY <1>1 DEF KeyItems
<1> HIDE DEF new
<1>4. Place(o, sent) \in KeyPlaces /\ Place(m.key, sent) \in KeyPlaces
    BY <1>2 DEF Place, KeyPlaces
<1>5. Link(new, Place(o, sent), Place(m.key, sent), dropped)
    BY <1>1, <1>3, <1>4 DEF Link, Place
<1>6. QED  BY <1>2, <1>5 DEF new

LEMMA AppendedOne == \A x, y : Append(<<x>>, y) = <<x, y>>
<1> TAKE x, y
<1>1. <<x>> \in Seq({x, y}) /\ y \in {x, y}
    OBVIOUS
<1> DEFINE l == Append(<<x>>, y)
<1>2. l \in Seq({x, y}) /\ Len(l) = 2 /\ l[1] = x /\ l[2] = y
    BY <1>1
<1> HIDE DEF l
<1>3. l = <<x, y>>
    BY <1>2
<1>4. QED  BY <1>3 DEF l

LEMMA RelaysInputKeeps ==
    ASSUME StreamInv, RelaysInput
    PROVE  StreamInv'
<1> DEFINE item == [Head(typedKeys) EXCEPT !.size = window.size]
           turns == item.does = "data" /\ window.sent # window.size
<1>1. /\ outbox = <<>> /\ printer.at # "connects" /\ typedKeys # <<>> /\ typedKeys' = Tail(typedKeys)
      /\ UNCHANGED <<use, keyed, unread, parser, pump, wire, program, printer, early>>
      /\ \/ turns /\ outbox' = <<Resize(window.size), item>> /\ window' = [window EXCEPT !.sent = window.size]
         \/ ~turns /\ outbox' = <<item>> /\ UNCHANGED window
    BY DEF RelaysInput, Relaying, Forwards
<1> HIDE DEF item, turns
<1>2. StreamShape /\ window.size \in Nat /\ window.sent \in Nat
      /\ window = [size |-> window.size, signal |-> window.signal, sent |-> window.sent]
    BY DEF StreamInv, StreamShape
<1>3. UnreadLast' /\ ReadSoFar' = ReadSoFar
    BY <1>1, NothingRead
<1>4. PICK o \in Nat : Typed(o) /\ (wire.open => SentOn(o))
    BY DEF StreamInv, StreamSound
<1>5. PICK t \in Nat : /\ Path(typedKeys, Place(o, 0), Place(t, 0), early)
                       /\ FromPump(pump, parser.pending, ReadSoFar, t, early)
    BY <1>4 DEF Typed, FromTyped
<1>6. PICK m \in KeyPlaces : Link(Head(typedKeys), Place(o, 0), m, early) /\ Path(typedKeys', m, Place(t, 0), early)
    BY <1>1, <1>5, PathHead
<1>7. /\ Plain(typedKeys') /\ Head(typedKeys).does # "resize" /\ Head(typedKeys) \in KeyItems
    <2>1. Plain(typedKeys) /\ typedKeys \in Seq(KeyItems)
        BY <1>4, <1>5 DEF Typed, FromTyped, Path
    <2>2. QED  BY <1>1, <1>6, <2>1, PlainTail DEF Link
<1>8. item.does = Head(typedKeys).does
    BY <1>7 DEF item, KeyItems
<1>9. CASE turns /\ outbox' = <<Resize(window.size), item>> /\ window' = [window EXCEPT !.sent = window.size]
    <2>1. window' = [size |-> window.size, signal |-> window.signal, sent |-> window.size]
        BY <1>2, <1>9
    <2>2. m = Place(m.key, 0) /\ m.key \in Nat
          /\ Link(item, Place(o, window.size), Place(m.key, window.size), early)
        BY <1>2, <1>6, <1>7, SizedLink DEF item
    <2>3. Path(<<Resize(window.size)>>, Place(o, window.sent), Place(o, window.size), early)
        BY <1>2, ResizeLink
    <2>4. Append(<<Resize(window.size)>>, item) = <<Resize(window.size), item>>
        BY AppendedOne
    <2>5. Path(outbox', Place(o, window.sent), Place(m.key, window.size), early)
        <3>1. Path(Append(<<Resize(window.size)>>, item), Place(o, window.sent), Place(m.key, window.size), early)
            BY <2>2, <2>3, PathAppended
        <3>2. QED  BY <1>9, <2>4, <3>1
    <2>6. QED
        <3>1. StreamShape'
            BY <1>1, <1>2, <2>1 DEF StreamShape
        <3>2. FromTyped(typedKeys', pump', parser'.pending, ReadSoFar', m.key, early')
            BY <1>1, <1>3, <1>5, <1>6, <1>7, <2>2 DEF FromTyped
        <3>3. wire.open => FromWire(program.got, program.size, wire.items, outbox', window.size, m.key, early)
            <4>1. SUFFICES ASSUME wire.open
                           PROVE  FromWire(program.got, program.size, wire.items, outbox', window.size, m.key, early)
                OBVIOUS
            <4>2. PICK g \in Nat : /\ Carries(program.got, 0, g, early)
                                   /\ Path(wire.items, Place(g, program.size), Place(o, window.sent), early)
                BY <1>1, <1>4, <4>1, NothingToSend
            <4>3. Place(o, window.sent) \in KeyPlaces
                BY <1>2 DEF Place, KeyPlaces
            <4>4. QED  BY <2>5, <4>2, <4>3 DEF FromWire
        <3>4. wire.open => SentOn(m.key)'
            BY <1>1, <2>1, <3>3 DEF SentOn
        <3>5. StreamSound'
            BY <1>1, <2>2, <3>2, <3>4 DEF StreamSound, Typed
        <3>6. QED  BY <1>1, <1>3, <3>1, <3>5, GotStays DEF StreamInv
<1>10. CASE ~turns /\ outbox' = <<item>> /\ UNCHANGED window
    <2>1. item.does = "data" => window.sent = window.size
        BY <1>10 DEF turns
    <2>2. m = Place(m.key, 0) /\ m.key \in Nat
          /\ Link(item, Place(o, window.sent), Place(m.key, window.sent), early)
        BY <1>2, <1>6, <1>7, <1>8, <2>1, SizedLink DEF item
    <2>3. Place(o, window.sent) \in KeyPlaces
        BY <1>2 DEF Place, KeyPlaces
    <2>4. Append(<<>>, item) = <<item>>
        OBVIOUS
    <2>5. Path(outbox', Place(o, window.sent), Place(m.key, window.sent), early)
        <3>1. Path(Append(<<>>, item), Place(o, window.sent), Place(m.key, window.sent), early)
            BY <2>2, <2>3, PathEmpty, PathAppended
        <3>2. QED  BY <1>10, <2>4, <3>1
    <2>6. QED
        <3>1. StreamShape'
            BY <1>1, <1>2, <1>10 DEF StreamShape
        <3>2. FromTyped(typedKeys', pump', parser'.pending, ReadSoFar', m.key, early')
            BY <1>1, <1>3, <1>5, <1>6, <1>7, <2>2 DEF FromTyped
        <3>3. wire.open => FromWire(program.got, program.size, wire.items, outbox', window.sent, m.key, early)
            <4>1. SUFFICES ASSUME wire.open
                           PROVE  FromWire(program.got, program.size, wire.items, outbox', window.sent, m.key, early)
                OBVIOUS
            <4>2. PICK g \in Nat : /\ Carries(program.got, 0, g, early)
                                   /\ Path(wire.items, Place(g, program.size), Place(o, window.sent), early)
                BY <1>1, <1>4, <4>1, NothingToSend
            <4>3. QED  BY <2>3, <2>5, <4>2 DEF FromWire
        <3>4. wire.open => SentOn(m.key)'
            BY <1>1, <1>10, <3>3 DEF SentOn
        <3>5. StreamSound'
            BY <1>1, <2>2, <3>2, <3>4 DEF StreamSound, Typed
        <3>6. QED  BY <1>1, <1>3, <3>1, <3>5, GotStays DEF StreamInv
<1>11. QED  BY <1>1, <1>9, <1>10

LEMMA RelaySendKeeps ==
    ASSUME StreamInv, RelaySends
    PROVE  StreamInv'
<1>1. /\ UNCHANGED <<use, keyed, unread, parser, pump, typedKeys, window, program, early>>
      /\ outbox # <<>> /\ printer.at # "connects"
    BY DEF RelaySends, Forwards
<1>2. StreamShape /\ wire = [open |-> wire.open, items |-> wire.items]
      /\ printer = [events |-> printer.events, at |-> printer.at, shown |-> printer.shown]
    BY DEF StreamInv, StreamShape
<1>3. CASE wire.open
    <2>1. wire' = [open |-> wire.open, items |-> Append(wire.items, Head(outbox))] /\ outbox' = Tail(outbox)
          /\ UNCHANGED printer
        BY <1>2, <1>3 DEF RelaySends
    <2>2. StreamShape'
        BY <1>1, <1>2, <1>3, <2>1 DEF StreamShape
    <2>3. GotSound' /\ UNCHANGED fromBack
        BY <1>1, GotStays DEF fromBack
    <2>4. ASSUME NEW o \in Nat, SentOn(o), wire'.open
          PROVE  FromWire(program'.got, program'.size, wire'.items, outbox', window'.sent, o, early)
        <3>1. PICK g \in Nat, w \in KeyPlaces : /\ Carries(program.got, 0, g, early)
                                             /\ Path(wire.items, Place(g, program.size), w, early)
                                             /\ Path(outbox, w, Place(o, window.sent), early)
            BY <2>4 DEF SentOn, FromWire
        <3>2. PICK m \in KeyPlaces : Link(Head(outbox), w, m, early) /\ Path(Tail(outbox), m, Place(o, window.sent), early)
            BY <1>1, <3>1, PathHead
        <3>3. Path(Append(wire.items, Head(outbox)), Place(g, program.size), m, early)
            BY <3>1, <3>2, PathAppended
        <3>4. wire'.items = Append(wire.items, Head(outbox))
            BY <2>1
        <3>5. QED  BY <1>1, <2>1, <3>1, <3>2, <3>3, <3>4 DEF FromWire
    <2>5. QED  BY <1>3, <2>2, <2>3, <2>4, FrontMoves
<1>4. CASE ~wire.open
    <2>1. UNCHANGED <<wire, outbox>> /\ printer' = [printer EXCEPT !.at = "over"]
        BY <1>4 DEF RelaySends, OperationEnds
    <2>2. printer' = [events |-> printer.events, at |-> "over", shown |-> printer.shown]
        BY <1>2, <2>1
    <2>3. StreamShape'
        BY <1>1, <1>2, <2>1, <2>2 DEF StreamShape
    <2>4. QED  BY <1>1, <2>1, <2>3, StreamStays DEF fromFront, fromBack
<1>5. QED  BY <1>3, <1>4

LEMMA StreamClosedKeeps ==
    ASSUME StreamInv, RequestStreamCloses
    PROVE  StreamInv'
<1>1. /\ UNCHANGED <<use, keyed, unread, parser, pump, typedKeys, window, outbox, program, printer, early>>
      /\ wire' = [open |-> FALSE, items |-> <<>>]
    BY DEF RequestStreamCloses
<1>2. StreamShape' /\ ~wire'.open
    BY <1>1 DEF StreamInv, StreamShape
<1>3. GotSound' /\ UNCHANGED fromBack
    BY <1>1, GotStays DEF fromBack
<1>4. QED  BY <1>2, <1>3, FrontMoves

\* What the program is given continues what it was given, and is typed in its size.
LEMMA RemoteReadKeeps ==
    ASSUME StreamInv, RemoteReads
    PROVE  StreamInv'
<1> DEFINE item == Head(wire.items)
<1>1. /\ UNCHANGED <<use, keyed, unread, parser, pump, typedKeys, window, outbox, printer, early>>
      /\ wire.items # <<>>
      /\ wire' = IF item.does = "eof" THEN [open |-> FALSE, items |-> <<>>]
                 ELSE [wire EXCEPT !.items = Tail(wire.items)]
      /\ program' = IF item.does = "resize" THEN [program EXCEPT !.size = item.size]
                    ELSE [program EXCEPT !.got = program.got \o item.keys,
                              !.sized = program.sized /\ (item.does = "data" => item.size = program.size)]
    BY DEF RemoteReads
<1> HIDE DEF item
<1>2. /\ StreamShape /\ wire.open /\ wire = [open |-> TRUE, items |-> wire.items]
      /\ program = [size |-> program.size, got |-> program.got, sized |-> TRUE,
                    wrote |-> program.wrote, state |-> program.state]
    BY <1>1 DEF StreamInv, StreamShape
<1>3. PICK o \in Nat : Typed(o) /\ SentOn(o)
    BY <1>2 DEF StreamInv, StreamSound
<1>4. ASSUME NEW p \in Nat, SentOn(p)
      PROVE  \E m \in KeyPlaces :
                 /\ program' = [size |-> m.size, got |-> program'.got, sized |-> TRUE,
                                wrote |-> program.wrote, state |-> program.state]
                 /\ Carries(program'.got, 0, m.key, early)
                 /\ \E w \in KeyPlaces : /\ Path(Tail(wire.items), m, w, early)
                                      /\ Path(outbox, w, Place(p, window.sent), early)
    <2>1. PICK g \in Nat, w \in KeyPlaces : /\ Carries(program.got, 0, g, early)
                                         /\ Path(wire.items, Place(g, program.size), w, early)
                                         /\ Path(outbox, w, Place(p, window.sent), early)
        BY <1>4 DEF SentOn, FromWire
    <2>2. PICK m \in KeyPlaces : Link(item, Place(g, program.size), m, early) /\ Path(Tail(wire.items), m, w, early)
        BY <1>1, <2>1, PathHead DEF item
    <2>3. Carries(item.keys, g, m.key, early)
        BY <2>2 DEF Link, Place
    <2>4. CASE item.does = "resize"
        <3>1. m.size = item.size /\ item.keys = <<>>
            BY <2>2, <2>4 DEF Link
        <3>2. program' = [size |-> m.size, got |-> program.got, sized |-> TRUE,
                          wrote |-> program.wrote, state |-> program.state]
            <4>1. program' = [program EXCEPT !.size = item.size]
                BY <1>1, <2>4
            <4>2. program' = [program EXCEPT !.size = m.size]
                BY <3>1, <4>1
            <4>3. QED  BY <1>2, <4>2, SizeChanged
        <3>3. Carries(program.got, 0, m.key, early)
            BY <2>1, <2>3, <3>1, CarriesBefore
        <3>4. program'.got = program.got
            BY <3>2
        <3>5. QED  BY <2>1, <2>2, <3>2, <3>3, <3>4
    <2>5. CASE item.does # "resize"
        <3>1. m.size = program.size /\ (item.does = "data" => item.size = program.size)
            BY <2>2, <2>5 DEF Link, Place
        <3>2. program' = [size |-> m.size, got |-> program.got \o item.keys, sized |-> TRUE,
                          wrote |-> program.wrote, state |-> program.state]
            <4>1. program' = [program EXCEPT !.got = program.got \o item.keys,
                                  !.sized = program.sized /\ (item.does = "data" => item.size = program.size)]
                BY <1>1, <2>5
            <4>2. (program.sized /\ (item.does = "data" => item.size = program.size)) = TRUE
                BY <1>2, <3>1
            <4>3. program' = [program EXCEPT !.got = program.got \o item.keys, !.sized = TRUE]
                BY <4>1, <4>2
            <4>4. QED  BY <1>2, <3>1, <4>3
        <3>3. Carries(program.got \o item.keys, 0, m.key, early)
            BY <2>1, <2>3, CarriesBoth
        <3>4. program'.got = program.got \o item.keys
            BY <3>2
        <3>5. QED  BY <2>1, <2>2, <3>2, <3>3, <3>4
    <2>6. QED  BY <2>4, <2>5
<1>5. PICK n \in KeyPlaces : /\ program' = [size |-> n.size, got |-> program'.got, sized |-> TRUE,
                                         wrote |-> program.wrote, state |-> program.state]
                          /\ Carries(program'.got, 0, n.key, early)
    BY <1>3, <1>4
<1>6. GotSound' /\ n.key \in Nat /\ n.size \in Nat /\ UNCHANGED fromBack
    BY <1>1, <1>5 DEF GotSound, KeyPlaces, fromBack
<1>7. /\ wire' = [open |-> wire'.open, items |-> wire'.items] /\ wire'.open \in BOOLEAN
      /\ ~wire'.open => wire'.items = <<>>
      /\ wire'.open => wire'.items = Tail(wire.items)
    BY <1>1, <1>2
<1>8. printer.at # "connects"
    BY <1>1, <1>2 DEF StreamShape
<1>9. StreamShape'
    <2>1. /\ program' = [size |-> program'.size, got |-> program'.got, sized |-> TRUE,
                         wrote |-> program'.wrote, state |-> program'.state]
          /\ program'.size \in Nat
        BY <1>5, <1>6
    <2>2. QED  BY <1>1, <1>2, <1>7, <1>8, <2>1 DEF StreamShape
<1>10. ASSUME NEW p \in Nat, SentOn(p), wire'.open
       PROVE  FromWire(program'.got, program'.size, wire'.items, outbox', window'.sent, p, early)
    <2>1. PICK m \in KeyPlaces :
              /\ program' = [size |-> m.size, got |-> program'.got, sized |-> TRUE,
                             wrote |-> program.wrote, state |-> program.state]
              /\ Carries(program'.got, 0, m.key, early)
              /\ \E w \in KeyPlaces : /\ Path(Tail(wire.items), m, w, early)
                                   /\ Path(outbox, w, Place(p, window.sent), early)
        BY <1>4, <1>10
    <2>2. m = Place(m.key, program'.size) /\ m.key \in Nat
        <3>1. program'.size = m.size
            BY <2>1
        <3>2. QED  BY <3>1 DEF Place, KeyPlaces
    <2>3. QED  BY <1>1, <1>7, <1>10, <2>1, <2>2 DEF FromWire
<1>11. QED  BY <1>2, <1>6, <1>9, <1>10, FrontMoves
-----------------------------------------------------------------------------
LEMMA StreamStep ==
    ASSUME StreamInv, OutputInv, [TerminalNext]_terminalVars
    PROVE  StreamInv'
<1>1. CASE \/ Signalled \/ Cancelled \/ Restores \/ EndsBySignal \/ OutputHeld \/ PumpStops
           \/ Attached \/ OperationFails
           \/ ResizesWindow \/ RemoteWrites \/ RemoteEnds \/ ReadsEvent \/ Prints \/ OutputCloses
           \/ UNCHANGED terminalVars
    BY <1>1, QuietKeeps
<1>2. CASE \E k \in Keys : Types(k)
    BY <1>2, TypedOn
<1>3. CASE ReadsTerminal \/ Pauses \/ ReadsPipe \/ PumpSends
    BY <1>3, ReadsKeep, PausesKeep, PipeKeeps, PumpSendKeeps
<1>4. CASE RequestsSession \/ RelaysInput \/ RelaysResize \/ RelaySends
    BY <1>4, SessionRequestKeeps, RelaysInputKeeps, RelaysResizeKeeps, RelaySendKeeps
<1>5. CASE RemoteReads \/ RequestStreamCloses
    BY <1>5, RemoteReadKeeps, StreamClosedKeeps
<1>6. QED  BY <1>1, <1>2, <1>3, <1>4, <1>5 DEF TerminalNext, LocalStep

LEMMA StreamStarts == TerminalInit => StreamInv
<1> SUFFICES ASSUME TerminalInit
             PROVE  StreamInv
    OBVIOUS
<1>1. /\ keyed = <<>> /\ unread = <<>> /\ typedKeys = <<>> /\ outbox = <<>> /\ early = {}
      /\ parser = [pending |-> 0, pasted |-> FALSE, split |-> FALSE]
      /\ pump = [at |-> "runs", item |-> <<>>]
      /\ window = [size |-> 0, signal |-> FALSE, sent |-> 0]
      /\ wire = [open |-> TRUE, items |-> <<>>]
      /\ program = [size |-> 0, got |-> <<>>, sized |-> TRUE, wrote |-> 0, state |-> "absent"]
      /\ printer = [events |-> <<>>, at |-> "connects", shown |-> 0]
    BY DEF TerminalInit
<1>2. StreamShape
    <2>1. /\ program = [size |-> program.size, got |-> program.got, sized |-> TRUE,
                        wrote |-> program.wrote, state |-> program.state]
          /\ program.size = 0
        BY <1>1
    <2>2. /\ window = [size |-> window.size, signal |-> window.signal, sent |-> window.sent]
          /\ window.size = 0 /\ window.sent = 0
        BY <1>1
    <2>3. wire = [open |-> wire.open, items |-> wire.items] /\ wire.open = TRUE /\ wire.items = <<>>
        BY <1>1
    <2>4. parser \in [pending : Nat, pasted : BOOLEAN, split : BOOLEAN] /\ parser.pending = 0
        BY <1>1
    <2>5. pump = [at |-> pump.at, item |-> pump.item]
        BY <1>1
    <2>6. printer = [events |-> printer.events, at |-> printer.at, shown |-> printer.shown]
        BY <1>1
    <2>7. QED  BY <1>1, <2>1, <2>2, <2>3, <2>4, <2>5, <2>6 DEF StreamShape
<1>3. Len(keyed) = 0 /\ Len(unread) = 0 /\ ReadSoFar = 0
    BY <1>1 DEF ReadSoFar
<1>4. UnreadLast
    <2>1. keyed \in Seq(Keys) /\ unread \in Seq(Nat)
        BY <1>1
    <2>2. QED  BY <1>3, <2>1 DEF UnreadLast
<1>5. Carries(<<>>, 0, 0, early) /\ Place(0, 0) \in KeyPlaces
    BY CarriesNone DEF Place, KeyPlaces
<1>6. Path(<<>>, Place(0, 0), Place(0, 0), early)
    BY <1>5, PathEmpty
<1>7. GotSound
    <2>1. program.got = <<>>
        BY <1>1
    <2>2. QED  BY <1>5, <2>1 DEF GotSound
<1>8. Typed(0)
    <2>1. pump.at = "runs" /\ PendingKey(parser.pending) = <<>>
        BY <1>1 DEF PendingKey
    <2>2. FromPump(pump, parser.pending, ReadSoFar, 0, early)
        BY <1>3, <1>5, <2>1 DEF FromPump
    <2>3. Plain(typedKeys)
        BY <1>1 DEF Plain
    <2>4. QED  BY <1>1, <1>6, <2>2, <2>3 DEF Typed, FromTyped
<1>9. SentOn(0)
    <2>1. program.got = <<>> /\ program.size = 0 /\ wire.items = <<>> /\ window.sent = 0
        BY <1>1
    <2>2. QED  BY <1>1, <1>5, <1>6, <2>1 DEF SentOn, FromWire
<1>10. QED  BY <1>2, <1>4, <1>7, <1>8, <1>9 DEF StreamInv, StreamSound

LEMMA InputToldFaithful == StreamInv => InputFaithful
<1> SUFFICES ASSUME StreamInv
             PROVE  InputFaithful
    OBVIOUS
<1>1. program.sized = TRUE
    BY DEF StreamInv, StreamShape
<1>2. PICK g \in Nat : Carries(program.got, 0, g, early)
    BY DEF StreamInv, GotSound
<1> DEFINE got == program.got
<1>3. /\ got \in Seq(Nat) /\ Len(got) \in Nat
      /\ \A i \in 1 .. Len(got) : got[i] \in 0 + 1 .. g
      /\ \A i, j \in 1 .. Len(got) : i < j => got[i] < got[j]
      /\ \A k \in 0 + 1 .. g : k \in early \/ \E i \in 1 .. Len(got) : got[i] = k
    BY <1>2 DEF Carries
<1>4. Range(got) = {got[i] : i \in 1 .. Len(got)}
    <2>1. DOMAIN got = 1 .. Len(got)
        BY <1>3
    <2>2. QED  BY <2>1 DEF Range
<1> HIDE DEF got
<1>5. ASSUME NEW i \in 1 .. Len(got), i > 1 PROVE got[i - 1] < got[i]
    <2>1. i - 1 \in 1 .. Len(got) /\ i - 1 < i
        BY <1>3, <1>5
    <2>2. QED  BY <1>3, <2>1
<1>6. ASSUME NEW i \in 1 .. Len(got), NEW k \in 1 .. got[i] PROVE k \in Range(got) \cup early
    <2>1. k \in 0 + 1 .. g
        BY <1>3
    <2>2. QED  BY <1>3, <1>4, <2>1
<1>7. QED  BY <1>1, <1>5, <1>6 DEF InputFaithful, got
-----------------------------------------------------------------------------
(***************************************************************************)
(* The detach key is seen where it was meant.                              *)
(***************************************************************************)

\* No escape key came right before another, and no pause split a sequence.
NoDoubt == ~parser.split /\ \A i \in 2 .. Len(keyed) : ~Bracket(i, "esc")
DetachKey(i) == (keyed[i] = "detach" \/ Bracket(i, "chord")) /\ ~InPaste(i)
DetachTyped == \E i \in 1 .. Len(keyed) : DetachKey(i)
EscapeAt(c) == IF c > 0 /\ keyed[c] = "esc" THEN c ELSE 0
\* What the parser keeps after c keys.
Knows(pending, pasted, c) == pending = EscapeAt(c) /\ (pasted = TRUE <=> InPaste(c + 1))
ParserKnows ==
    NoDoubt /\ pump.at \in {"runs", "sends"} /\ use.interactive =>
        Knows(parser.pending, parser.pasted, ReadSoFar)
DetachInv ==
    /\ ParserKnows
    /\ control # "none" => pump.at = "done"
    /\ ssh.result = "detached" => control = "detach"
    /\ control = "detach" /\ NoDoubt => DetachTyped

LEMMA PasteStep ==
    ASSUME NEW p \in Nat, p >= 1
    PROVE  InPaste(p + 1) <=> Bracket(p, "on") \/ (InPaste(p) /\ ~Bracket(p, "off"))
<1>1. ASSUME InPaste(p + 1) PROVE Bracket(p, "on") \/ (InPaste(p) /\ ~Bracket(p, "off"))
    <2>1. PICK j \in 1 .. p : Bracket(j, "on") /\ \A l \in j + 1 .. p : ~Bracket(l, "off")
        BY <1>1 DEF InPaste
    <2>2. CASE j = p
        BY <2>1, <2>2
    <2>3. CASE j # p
        <3>1. j \in 1 .. p - 1 /\ p \in j + 1 .. p /\ \A l \in j + 1 .. p - 1 : l \in j + 1 .. p
            BY <2>3
        <3>2. InPaste(p)
            BY <2>1, <3>1 DEF InPaste
        <3>3. QED  BY <2>1, <3>1, <3>2
    <2>4. QED  BY <2>2, <2>3
<1>2. ASSUME Bracket(p, "on") PROVE InPaste(p + 1)
    <2>1. p \in 1 .. (p + 1) - 1 /\ p + 1 .. (p + 1) - 1 = {}
        OBVIOUS
    <2>2. QED  BY <1>2, <2>1 DEF InPaste
<1>3. ASSUME InPaste(p), ~Bracket(p, "off") PROVE InPaste(p + 1)
    <2>1. PICK j \in 1 .. p - 1 : Bracket(j, "on") /\ \A l \in j + 1 .. p - 1 : ~Bracket(l, "off")
        BY <1>3 DEF InPaste
    <2>2. \A l \in j + 1 .. (p + 1) - 1 : l = p \/ l \in j + 1 .. p - 1
        OBVIOUS
    <2>3. j \in 1 .. (p + 1) - 1
        OBVIOUS
    <2>4. \A l \in j + 1 .. (p + 1) - 1 : ~Bracket(l, "off")
        BY <1>3, <2>1, <2>2
    <2>5. QED  BY <2>1, <2>3, <2>4 DEF InPaste
<1>4. QED  BY <1>1, <1>2, <1>3

\* A parser that knows what came before key p, and is given it.
Told(s, c) == (s.detach => DetachTyped) /\ (~s.detach => Knows(s.pending, s.pasted, c))

LEMMA PushKnows ==
    ASSUME NoDoubt, NEW s \in ParserStates, NEW c \in Nat, c + 1 \in 1 .. Len(keyed), Told(s, c)
    PROVE  Told(PushKey(s, c + 1), c + 1)
<1> DEFINE p == c + 1
           k == keyed[p]
           both == [s EXCEPT !.pending = 0, !.out = s.out \o <<s.pending, p>>]
           z == PushKey(s, p)
<1>1. /\ p \in Nat /\ p >= 1 /\ p # 0 /\ p > 0 /\ p - 1 = c /\ (p > 1 <=> c > 0)
      /\ s.pending \in Nat /\ s.pasted \in BOOLEAN /\ s.detach \in BOOLEAN
    BY DEF ParserStates
<1>2. \A edge : Bracket(p, edge) <=> c > 0 /\ keyed[c] = "esc" /\ k = edge
    BY <1>1 DEF Bracket
<1>3. InPaste(p + 1) <=> Bracket(p, "on") \/ (InPaste(p) /\ ~Bracket(p, "off"))
    BY <1>1, PasteStep
<1>4. DetachKey(p) => DetachTyped
    BY DEF DetachTyped
<1>5. CASE s.detach
    <2>1. z = s
        BY <1>5 DEF PushKey
    <2>2. QED  BY <1>5, <2>1 DEF Told
<1>6. CASE ~s.detach /\ s.pending = 0
    <2>1. ~(c > 0 /\ keyed[c] = "esc") /\ (s.pasted = TRUE <=> InPaste(p))
        BY <1>6 DEF Told, Knows, EscapeAt
    <2>2. InPaste(p + 1) <=> InPaste(p)
        BY <1>2, <1>3, <2>1
    <2>3. CASE k = "detach" /\ ~s.pasted
        <3>1. z = [s EXCEPT !.detach = TRUE]
            BY <1>6, <2>3 DEF PushKey
        <3>2. z.detach = TRUE
            BY <3>1 DEF ParserStates
        <3>3. DetachKey(p)
            BY <1>1, <2>1, <2>3 DEF DetachKey
        <3>4. QED  BY <1>4, <3>2, <3>3 DEF Told
    <2>4. CASE k = "esc"
        <3>1. z = [s EXCEPT !.pending = p]
            BY <1>6, <2>4 DEF PushKey
        <3>2. z.pending = p /\ z.pasted = s.pasted /\ z.detach = s.detach
            BY <3>1 DEF ParserStates
        <3>3. EscapeAt(p) = p
            BY <1>1, <2>4 DEF EscapeAt
        <3>4. QED  BY <1>6, <2>1, <2>2, <3>2, <3>3 DEF Told, Knows
    <2>5. CASE k # "esc" /\ ~(k = "detach" /\ ~s.pasted)
        <3>1. z = [s EXCEPT !.out = Append(s.out, p)]
            BY <1>6, <2>5 DEF PushKey
        <3>2. z.pending = 0 /\ z.pasted = s.pasted /\ z.detach = s.detach
            BY <1>6, <3>1 DEF ParserStates
        <3>3. EscapeAt(p) = 0
            BY <2>5 DEF EscapeAt
        <3>4. QED  BY <1>6, <2>1, <2>2, <3>2, <3>3 DEF Told, Knows
    <2>6. QED  BY <2>3, <2>4, <2>5
<1>7. CASE ~s.detach /\ s.pending # 0
    <2>1. c > 0 /\ keyed[c] = "esc" /\ (s.pasted = TRUE <=> InPaste(p))
        BY <1>7 DEF Told, Knows, EscapeAt
    <2>2. \A edge : Bracket(p, edge) <=> k = edge
        BY <1>2, <2>1
    <2>3. k # "esc" /\ EscapeAt(p) = 0
        <3>1. p \in 2 .. Len(keyed)
            BY <1>1, <2>1
        <3>2. k # "esc"
            BY <2>2, <3>1 DEF NoDoubt
        <3>3. QED  BY <3>2 DEF EscapeAt
    <2>4. ASSUME NEW pasted \in BOOLEAN, z = [both EXCEPT !.pasted = pasted], pasted = TRUE <=> InPaste(p + 1)
          PROVE  Told(z, p)
        <3>1. z.pending = 0 /\ z.pasted = pasted /\ z.detach = s.detach
            BY <2>4 DEF ParserStates
        <3>2. QED  BY <1>7, <2>3, <2>4, <3>1 DEF Told, Knows
    <2>5. CASE k = "on"
        <3>1. z = [both EXCEPT !.pasted = TRUE]
            BY <1>7, <2>5 DEF PushKey
        <3>2. QED  BY <1>3, <2>2, <2>4, <2>5, <3>1
    <2>6. CASE k = "off"
        <3>1. z = [both EXCEPT !.pasted = FALSE]
            BY <1>7, <2>6 DEF PushKey
        <3>2. ~InPaste(p + 1)
            BY <1>3, <2>2, <2>6
        <3>3. QED  BY <2>4, <3>1, <3>2
    <2>7. CASE k = "chord" /\ ~s.pasted
        <3>1. z = [s EXCEPT !.detach = TRUE]
            BY <1>7, <2>7 DEF PushKey
        <3>2. z.detach = TRUE
            BY <3>1 DEF ParserStates
        <3>3. DetachKey(p)
            BY <1>1, <2>1, <2>2, <2>7 DEF DetachKey
        <3>4. QED  BY <1>4, <3>2, <3>3 DEF Told
    <2>8. CASE k # "on" /\ k # "off" /\ ~(k = "chord" /\ ~s.pasted)
        <3>1. z = both
            BY <1>7, <2>8 DEF PushKey
        <3>2. both = [both EXCEPT !.pasted = s.pasted]
            BY DEF ParserStates
        <3>3. s.pasted = TRUE <=> InPaste(p + 1)
            BY <1>3, <2>1, <2>2, <2>8
        <3>4. QED  BY <1>1, <2>4, <3>1, <3>2, <3>3
    <2>9. QED  BY <2>5, <2>6, <2>7, <2>8
<1>8. QED  BY <1>5, <1>6, <1>7

LEMMA PushedTyped ==
    ASSUME NEW s \in ParserStates, NEW p \in Nat
    PROVE  PushKey(s, p) \in ParserStates
<1> DEFINE both == [s EXCEPT !.pending = 0, !.out = s.out \o <<s.pending, p>>]
           z == PushKey(s, p)
<1>1. /\ s = [pending |-> s.pending, pasted |-> s.pasted, out |-> s.out, detach |-> s.detach]
      /\ s.pending \in Nat /\ s.pasted \in BOOLEAN /\ s.out \in Seq(Nat) /\ s.detach \in BOOLEAN
    BY DEF ParserStates
<1>2. s.out \o <<s.pending, p>> \in Seq(Nat) /\ Append(s.out, p) \in Seq(Nat)
    <2>1. <<s.pending, p>> \in Seq(Nat)
        BY <1>1
    <2>2. QED  BY <1>1, <2>1
<1>3. \/ z = s \/ z = [s EXCEPT !.detach = TRUE]
      \/ z = [s EXCEPT !.pending = p] \/ z = [s EXCEPT !.out = Append(s.out, p)]
      \/ z = [both EXCEPT !.pasted = TRUE] \/ z = [both EXCEPT !.pasted = FALSE] \/ z = both
    BY DEF PushKey
<1>4. both \in ParserStates
    <2>1. \A out \in Seq(Nat) : [s EXCEPT !.pending = 0, !.out = out] \in ParserStates
        BY DEF ParserStates
    <2>2. QED  BY <1>2, <2>1
<1>5. [s EXCEPT !.out = Append(s.out, p)] \in ParserStates
    BY <1>2 DEF ParserStates
<1>6. [s EXCEPT !.detach = TRUE] \in ParserStates /\ [s EXCEPT !.pending = p] \in ParserStates
    BY DEF ParserStates
<1>7. \A pasted \in BOOLEAN : [both EXCEPT !.pasted = pasted] \in ParserStates
    BY <1>4 DEF ParserStates
<1>8. QED  BY <1>3, <1>4, <1>5, <1>6, <1>7

LEMMA ParsedKnows ==
    ASSUME UnreadLast, parser.pending \in Nat, parser.pasted \in BOOLEAN, NoDoubt,
           Knows(parser.pending, parser.pasted, ReadSoFar)
    PROVE  Told(Parsed, Len(keyed))
<1> DEFINE Good(n) == Pushed[n] \in ParserStates /\ Told(Pushed[n], ReadSoFar + n)
           Bad == {n \in 0 .. Len(unread) : ~Good(n)}
<1>1. /\ ReadSoFar \in Nat /\ Len(unread) \in Nat /\ unread \in Seq(Nat)
      /\ \A i \in 1 .. Len(unread) : unread[i] = ReadSoFar + i
      /\ ReadSoFar + Len(unread) = Len(keyed) /\ Len(keyed) \in Nat
    BY ReadFacts DEF UnreadLast, ReadSoFar
<1>2. Pushed[0] = [pending |-> parser.pending, pasted |-> parser.pasted, out |-> <<>>, detach |-> FALSE]
      /\ \A n \in 1 .. Len(unread) : Pushed[n] = PushKey(Pushed[n - 1], unread[n])
    <2>1. 0 \in 0 .. Len(unread) /\ \A n \in 1 .. Len(unread) : n \in 0 .. Len(unread) /\ n # 0
        BY <1>1
    <2>2. QED  BY <1>1, <2>1, PushedUnfolds
<1>3. Good(0)
    <2>1. Pushed[0] \in ParserStates /\ Pushed[0].pending = parser.pending /\ Pushed[0].pasted = parser.pasted
          /\ Pushed[0].detach = FALSE
        BY <1>2 DEF ParserStates
    <2>2. ReadSoFar + 0 = ReadSoFar
        BY <1>1
    <2>3. QED  BY <2>1, <2>2 DEF Told
<1>4. ASSUME NEW n \in 1 .. Len(unread), Good(n - 1) PROVE Good(n)
    <2>1. /\ n - 1 \in Nat /\ ReadSoFar + (n - 1) \in Nat /\ (ReadSoFar + (n - 1)) + 1 = ReadSoFar + n
          /\ unread[n] = ReadSoFar + n /\ ReadSoFar + n \in 1 .. Len(keyed)
        BY <1>1
    <2>2. Pushed[n] = PushKey(Pushed[n - 1], (ReadSoFar + (n - 1)) + 1)
        BY <1>2, <2>1
    <2>3. Told(Pushed[n], (ReadSoFar + (n - 1)) + 1)
        BY <1>4, <2>1, <2>2, PushKnows
    <2>4. Pushed[n] \in ParserStates
        BY <1>4, <2>1, <2>2, PushedTyped
    <2>5. QED  BY <2>1, <2>3, <2>4
<1> HIDE DEF Good
<1>5. Bad = {}
    <2> SUFFICES ASSUME Bad # {} PROVE FALSE
        OBVIOUS
    <2>1. Bad \in SUBSET Nat /\ \A n \in Bad : n \in 0 .. Len(unread)
        BY <1>1
    <2> HIDE DEF Bad
    <2>2. PICK n \in Bad : \A i \in Bad : n <= i
        BY <2>1, LeastExists
    <2>3. n # 0 /\ n \in 1 .. Len(unread)
        BY <1>1, <1>3, <2>1, <2>2 DEF Bad
    <2>4. n - 1 \in 0 .. Len(unread) /\ ~(n <= n - 1)
        BY <1>1, <2>3
    <2>5. Good(n - 1)
        BY <2>2, <2>4 DEF Bad
    <2>6. Good(n)
        BY <1>4, <2>3, <2>5
    <2>7. QED  BY <2>2, <2>6 DEF Bad
<1>6. Good(Len(unread))
    <2>1. Len(unread) \in 0 .. Len(unread)
        BY <1>1
    <2>2. QED  BY <1>5, <2>1
<1>7. QED  BY <1>1, <1>6 DEF Good, Parsed

\* Keys that were typed already are judged as they were.
LEMMA TypedKeepsKeys ==
    ASSUME UnreadLast, NEW k \in Keys, Types(k)
    PROVE  /\ NoDoubt' => NoDoubt
           /\ DetachTyped => DetachTyped'
           /\ \A c \in 0 .. Len(keyed) : EscapeAt(c)' = EscapeAt(c) /\ (InPaste(c + 1)' <=> InPaste(c + 1))
<1>1. /\ keyed \in Seq(Keys) /\ Len(keyed) \in Nat /\ keyed' = Append(keyed, k) /\ parser' = parser
    BY DEF UnreadLast, Types
<1>2. /\ Len(keyed') = Len(keyed) + 1 /\ \A i \in 1 .. Len(keyed) : keyed'[i] = keyed[i]
    BY <1>1
<1>3. ASSUME NEW i \in 1 .. Len(keyed), NEW edge PROVE Bracket(i, edge)' <=> Bracket(i, edge)
    <2>1. keyed'[i] = keyed[i] /\ (i > 1 => i - 1 \in 1 .. Len(keyed))
        BY <1>1, <1>2
    <2>2. QED  BY <1>2, <2>1 DEF Bracket
<1>4. ASSUME NEW c \in 0 .. Len(keyed) PROVE InPaste(c + 1)' <=> InPaste(c + 1)
    <2>1. (c + 1) - 1 = c /\ \A j \in 1 .. c : j \in 1 .. Len(keyed)
        BY <1>1
    <2>2. \A j \in 1 .. c : \A l \in j + 1 .. c : l \in 1 .. Len(keyed)
        BY <1>1
    <2>3. InPaste(c + 1) <=> \E j \in 1 .. c : Bracket(j, "on") /\ \A l \in j + 1 .. c : ~Bracket(l, "off")
        BY <2>1 DEF InPaste
    <2>4. InPaste(c + 1)' <=> \E j \in 1 .. c : Bracket(j, "on")' /\ \A l \in j + 1 .. c : ~Bracket(l, "off")'
        BY <2>1 DEF InPaste
    <2>5. \A j \in 1 .. c : /\ Bracket(j, "on")' <=> Bracket(j, "on")
                            /\ \A l \in j + 1 .. c : Bracket(l, "off")' <=> Bracket(l, "off")
        BY <1>3, <2>1, <2>2
    <2>6. QED  BY <2>3, <2>4, <2>5
<1>5. \A c \in 0 .. Len(keyed) : EscapeAt(c)' = EscapeAt(c)
    <2>1. \A c \in 0 .. Len(keyed) : c > 0 => c \in 1 .. Len(keyed)
        BY <1>1
    <2>2. QED  BY <1>2, <2>1 DEF EscapeAt
<1>6. NoDoubt' => NoDoubt
    <2>1. SUFFICES ASSUME NoDoubt' PROVE NoDoubt
        OBVIOUS
    <2>2. ASSUME NEW i \in 2 .. Len(keyed) PROVE ~Bracket(i, "esc")
        <3>1. i \in 1 .. Len(keyed) /\ i \in 2 .. Len(keyed')
            BY <1>1, <1>2
        <3>2. ~Bracket(i, "esc")'
            BY <2>1, <3>1 DEF NoDoubt
        <3>3. QED  BY <1>3, <3>1, <3>2
    <2>3. QED  BY <1>1, <2>1, <2>2 DEF NoDoubt
<1>7. DetachTyped => DetachTyped'
    <2>1. SUFFICES ASSUME DetachTyped PROVE DetachTyped'
        OBVIOUS
    <2>2. PICK i \in 1 .. Len(keyed) : DetachKey(i)
        BY <2>1 DEF DetachTyped
    <2>3. i \in 1 .. Len(keyed') /\ i - 1 \in 0 .. Len(keyed) /\ (i - 1) + 1 = i
        BY <1>1, <1>2
    <2>4. InPaste(i)' <=> InPaste(i)
        BY <1>4, <2>3
    <2>5. DetachKey(i)'
        BY <1>2, <1>3, <2>2, <2>4 DEF DetachKey
    <2>6. QED  BY <2>3, <2>5 DEF DetachTyped
<1>8. QED  BY <1>4, <1>5, <1>6, <1>7

LEMMA TypesKeepsDetach ==
    ASSUME UnreadLast, DetachInv, NEW k \in Keys, Types(k)
    PROVE  DetachInv'
<1>1. UNCHANGED <<use, parser, pump, control, ssh>> /\ keyed' = Append(keyed, k)
      /\ unread' = Append(unread, Len(keyed) + 1)
    BY DEF Types
<1>2. ReadSoFar' = ReadSoFar /\ ReadSoFar \in 0 .. Len(keyed)
    <2>1. keyed \in Seq(Keys) /\ unread \in Seq(Nat) /\ Len(keyed) \in Nat /\ Len(unread) \in Nat
          /\ Len(unread) <= Len(keyed)
        BY DEF UnreadLast
    <2>2. Len(keyed') = Len(keyed) + 1 /\ Len(unread') = Len(unread) + 1
        BY <1>1, <2>1
    <2>3. QED  BY <2>1, <2>2 DEF ReadSoFar
<1>3. ParserKnows'
    <2>1. SUFFICES ASSUME NoDoubt', pump'.at \in {"runs", "sends"}, use'.interactive
                   PROVE  Knows(parser.pending, parser.pasted, ReadSoFar)'
        BY DEF ParserKnows
    <2>2. Knows(parser.pending, parser.pasted, ReadSoFar)
        BY <1>1, <2>1, TypedKeepsKeys DEF DetachInv, ParserKnows
    <2>3. EscapeAt(ReadSoFar)' = EscapeAt(ReadSoFar) /\ (InPaste(ReadSoFar + 1)' <=> InPaste(ReadSoFar + 1))
        <3>1. PICK c \in 0 .. Len(keyed) : c = ReadSoFar
            BY <1>2
        <3>2. c = ReadSoFar' /\ EscapeAt(c)' = EscapeAt(c) /\ (InPaste(c + 1)' <=> InPaste(c + 1))
            BY <1>2, <3>1, TypedKeepsKeys
        <3>3. EscapeAt(c)' = EscapeAt(ReadSoFar)' /\ (InPaste(c + 1)' <=> InPaste(ReadSoFar + 1)')
            BY <3>2
        <3>4. QED  BY <3>1, <3>2, <3>3
    <2>4. QED  BY <1>1, <2>2, <2>3 DEF Knows
<1>4. QED  BY <1>1, <1>3, TypedKeepsKeys DEF DetachInv

\* Steps that type no key and read none.
LEMMA DetachStays ==
    ASSUME DetachInv, UNCHANGED <<use, keyed, unread, parser, control>>,
           pump'.at \in {"runs", "sends"} => pump.at \in {"runs", "sends"},
           pump.at = "done" => pump'.at = "done",
           ssh'.result = "detached" => ssh.result = "detached" \/ control = "detach"
    PROVE  DetachInv'
<1>1. NoDoubt' <=> NoDoubt
    BY DEF NoDoubt, Bracket
<1>2. DetachTyped' <=> DetachTyped
    BY DEF DetachTyped, DetachKey, InPaste, Bracket
<1>3. Knows(parser.pending, parser.pasted, ReadSoFar)' <=> Knows(parser.pending, parser.pasted, ReadSoFar)
    BY DEF Knows, EscapeAt, InPaste, Bracket, ReadSoFar
<1>4. ParserKnows'
    BY <1>1, <1>3 DEF DetachInv, ParserKnows
<1>5. QED  BY <1>1, <1>2, <1>4 DEF DetachInv

\* The thread ends with an error, or goes on.
LEMMA OffersKeepControl ==
    ASSUME DetachInv, pump.at = "runs", NEW keys, Offers(keys), UNCHANGED <<use, ssh>>,
           NoDoubt' /\ use.interactive => Knows(parser.pending, parser.pasted, ReadSoFar)'
    PROVE  DetachInv'
<1>1. control = "none" /\ ssh.result # "detached"
    BY DEF DetachInv
<1>2. (UNCHANGED <<pump, control>>) \/ (pump' = [at |-> "done", item |-> <<>>] /\ control' = "error")
    BY DEF Offers, EndsPump
<1>3. CASE UNCHANGED <<pump, control>>
    BY <1>1, <1>3 DEF DetachInv, ParserKnows
<1>4. CASE pump' = [at |-> "done", item |-> <<>>] /\ control' = "error"
    <2>1. pump'.at = "done"
        BY <1>4
    <2>2. QED  BY <1>1, <1>4, <2>1 DEF DetachInv, ParserKnows
<1>5. QED  BY <1>2, <1>3, <1>4

LEMMA ReadsKeepDetach ==
    ASSUME StreamInv, DetachInv, ReadsTerminal
    PROVE  DetachInv'
<1>1. /\ unread' = <<>> /\ pump.at = "runs" /\ use.interactive /\ UNCHANGED <<use, keyed, ssh>>
      /\ parser' = [parser EXCEPT !.pending = Parsed.pending, !.pasted = Parsed.pasted]
      /\ IF Parsed.detach THEN EndsPump("detach") /\ UNCHANGED <<typedKeys, early>> ELSE Offers(Parsed.out)
    BY DEF ReadsTerminal, PumpRuns
<1>2. UnreadLast /\ parser \in [pending : Nat, pasted : BOOLEAN, split : BOOLEAN]
    BY DEF StreamInv, StreamShape
<1>3. control = "none" /\ ssh.result # "detached"
    BY <1>1 DEF DetachInv
<1>4. /\ parser'.pending = Parsed.pending /\ parser'.pasted = Parsed.pasted /\ parser'.split = parser.split
    BY <1>1, <1>2
<1>5. NoDoubt' => NoDoubt
    BY <1>1, <1>4 DEF NoDoubt, Bracket
<1>6. NoDoubt => Told(Parsed, Len(keyed))
    <2>1. NoDoubt => Knows(parser.pending, parser.pasted, ReadSoFar)
        BY <1>1 DEF DetachInv, ParserKnows
    <2>2. QED  BY <1>2, <2>1, ParsedKnows
<1>7. CASE Parsed.detach
    <2>1. pump' = [at |-> "done", item |-> <<>>] /\ control' = "detach"
        BY <1>1, <1>7 DEF EndsPump
    <2>2. pump'.at = "done"
        BY <2>1
    <2>3. NoDoubt' => DetachTyped'
        <3>1. NoDoubt => DetachTyped
            BY <1>6, <1>7 DEF Told
        <3>2. DetachTyped => DetachTyped'
            BY <1>1 DEF DetachTyped, DetachKey, InPaste, Bracket
        <3>3. QED  BY <1>5, <3>1, <3>2
    <2>4. QED  BY <1>1, <1>3, <2>1, <2>2, <2>3 DEF DetachInv, ParserKnows
<1>8. CASE ~Parsed.detach
    <2>1. Offers(Parsed.out)
        BY <1>1, <1>8
    <2>2. ReadSoFar' = Len(keyed)
        <3>1. Len(keyed) \in Nat /\ Len(unread') = 0
            BY <1>1, <1>2 DEF UnreadLast
        <3>2. QED  BY <1>1, <3>1 DEF ReadSoFar
    <2>3. NoDoubt' => Knows(Parsed.pending, Parsed.pasted, Len(keyed))
        BY <1>5, <1>6, <1>8 DEF Told
    <2>4. NoDoubt' => Knows(parser.pending, parser.pasted, ReadSoFar)'
        BY <1>1, <1>4, <2>2, <2>3 DEF Knows, EscapeAt, InPaste, Bracket
    <2>5. PICK keys : Offers(keys)
        BY <2>1
    <2>6. QED  BY <1>1, <2>4, <2>5, OffersKeepControl
<1>9. QED  BY <1>7, <1>8

LEMMA PausesKeepDetach ==
    ASSUME StreamInv, DetachInv, Pauses
    PROVE  DetachInv'
<1>1. /\ pump.at = "runs" /\ UNCHANGED <<use, keyed, ssh>>
      /\ parser' = [parser EXCEPT !.pending = 0, !.split = TRUE]
    BY DEF Pauses, PumpRuns
<1>2. parser \in [pending : Nat, pasted : BOOLEAN, split : BOOLEAN]
    BY DEF StreamInv, StreamShape
<1>3. parser'.split = TRUE
    BY <1>1, <1>2
<1>4. ~NoDoubt'
    BY <1>3 DEF NoDoubt
<1>5. PICK keys : Offers(keys)
    BY DEF Pauses
<1>6. QED  BY <1>1, <1>4, <1>5, OffersKeepControl

LEMMA PumpKeepsDetach ==
    ASSUME StreamInv, DetachInv, ReadsPipe \/ PumpSends \/ PumpStops
    PROVE  DetachInv'
<1>1. UNCHANGED <<use, keyed, parser, ssh>>
    BY DEF ReadsPipe, PumpSends, PumpStops
<1>2. CASE ReadsPipe
    <2>1. ~use.interactive /\ UNCHANGED control /\ pump.at = "runs"
        BY <1>2 DEF ReadsPipe, PumpRuns
    <2>2. control = "none" /\ ssh.result # "detached"
        BY <2>1 DEF DetachInv
    <2>3. QED  BY <1>1, <2>1, <2>2 DEF DetachInv, ParserKnows
<1>3. CASE PumpSends /\ UNCHANGED control
    <2>1. pump.at = "sends" /\ UNCHANGED unread
        BY <1>3 DEF PumpSends
    <2>2. QED  BY <1>1, <1>3, <2>1, DetachStays
<1>4. CASE PumpSends /\ control' # control
    <2>1. pump.at = "sends" /\ pump' = [at |-> "done", item |-> <<>>] /\ control' = "error"
        BY <1>4 DEF PumpSends, EndsPump
    <2>2. control = "none" /\ ssh.result # "detached" /\ pump'.at = "done"
        BY <2>1 DEF DetachInv
    <2>3. QED  BY <1>1, <2>1, <2>2 DEF DetachInv, ParserKnows
<1>5. CASE PumpStops
    <2>1. pump' = [at |-> "done", item |-> <<>>] /\ UNCHANGED <<unread, control>>
        BY <1>5 DEF PumpStops
    <2>2. pump'.at = "done"
        BY <2>1
    <2>3. QED  BY <1>1, <2>1, <2>2, DetachStays
<1>6. QED  BY <1>2, <1>3, <1>4, <1>5

LEMMA DetachStep ==
    ASSUME StreamInv, OutputInv, DetachInv, [TerminalNext]_terminalVars
    PROVE  DetachInv'
<1>1. CASE \E k \in Keys : Types(k)
    BY <1>1, TypesKeepsDetach DEF StreamInv
<1>2. CASE ReadsTerminal
    BY <1>2, ReadsKeepDetach
<1>3. CASE Pauses
    BY <1>3, PausesKeepDetach
<1>4. CASE ReadsPipe \/ PumpSends \/ PumpStops
    BY <1>4, PumpKeepsDetach
<1>5. CASE \/ ResizesWindow \/ OutputHeld \/ RequestsSession \/ Attached \/ RelaysInput \/ RelaysResize \/ RemoteReads
           \/ RemoteWrites \/ RemoteEnds \/ RequestStreamCloses \/ UNCHANGED terminalVars
    <2>1. UNCHANGED <<use, keyed, unread, parser, control, pump, ssh>>
        BY <1>5 DEF ResizesWindow, OutputHeld, RequestsSession, Attached, RelaysInput, RelaysResize, RemoteReads, RemoteWrites,
                    RemoteEnds, RequestStreamCloses, terminalVars
    <2>2. QED  BY <2>1, DetachStays
<1>6. CASE \/ Signalled \/ Cancelled \/ Restores \/ EndsBySignal \/ OperationFails \/ RelaySends \/ ReadsEvent \/ Prints
           \/ OutputCloses
    <2>1. ssh \in [at : {"runs", "joins", "ends", "over"}, tty : {"raw", "cooked"}, result : SshResults]
          /\ printer \in [events : Seq(OutputEvents), at : PrinterStages, shown : Nat]
        BY DEF OutputInv, OutputShape
    <2>2. UNCHANGED <<use, keyed, unread, parser, control, pump>>
        BY <1>6 DEF Signalled, Cancelled, Restores, EndsBySignal, OperationFails, RelaySends, ReadsEvent, Prints,
                    OutputCloses
    <2>3. ASSUME NEW r \in {"failed", "exit"}, OperationEnds(r) PROVE ssh'.result # "detached"
        BY <2>1, <2>3 DEF OperationEnds
    <2>4. CASE Signalled
        <3>1. ssh'.result # "detached"
            BY <2>1, <2>4 DEF Signalled
        <3>2. QED  BY <2>2, <3>1, DetachStays
    <2>5. CASE Cancelled
        <3>1. ssh'.result = "detached" => control = "detach"
            BY <2>1, <2>5 DEF Cancelled
        <3>2. QED  BY <2>2, <3>1, DetachStays
    <2>6. CASE Restores \/ EndsBySignal
        <3>1. ssh'.result = ssh.result
            BY <2>1, <2>6 DEF Restores, EndsBySignal, WritesRestore
        <3>2. QED  BY <2>2, <3>1, DetachStays
    <2>7. CASE OperationFails \/ RelaySends \/ Prints \/ OutputCloses
        <3>1. UNCHANGED ssh \/ OperationEnds("failed") \/ OperationEnds("exit")
            BY <2>7 DEF OperationFails, RelaySends, Prints, OutputCloses
        <3>2. QED  BY <2>2, <2>3, <3>1, DetachStays
    <2>8. CASE ReadsEvent
        <3>1. printer.events # <<>> /\ printer.events \in Seq(OutputEvents)
            BY <2>1, <2>8 DEF ReadsEvent
        <3>2. Head(printer.events) \in OutputEvents
            BY <3>1
        <3>3. UNCHANGED ssh \/ OperationEnds("failed") \/ OperationEnds("exit")
            BY <2>8, <3>2 DEF ReadsEvent, OutputEvents
        <3>4. QED  BY <2>2, <2>3, <3>3, DetachStays
    <2>9. QED  BY <1>6, <2>4, <2>5, <2>6, <2>7, <2>8
<1>7. QED  BY <1>1, <1>2, <1>3, <1>4, <1>5, <1>6 DEF TerminalNext, LocalStep

LEMMA DetachStarts == TerminalInit => DetachInv
<1> SUFFICES ASSUME TerminalInit
             PROVE  DetachInv
    OBVIOUS
<1>1. /\ keyed = <<>> /\ unread = <<>> /\ control = "none"
      /\ parser = [pending |-> 0, pasted |-> FALSE, split |-> FALSE]
      /\ ssh.result = "none"
    BY DEF TerminalInit
<1>2. ReadSoFar = 0 /\ parser.pending = 0 /\ parser.pasted = FALSE
    BY <1>1 DEF ReadSoFar
<1>3. EscapeAt(0) = 0 /\ ~InPaste(0 + 1)
    <2>1. 1 .. (0 + 1) - 1 = {}
        OBVIOUS
    <2>2. QED  BY <2>1 DEF EscapeAt, InPaste
<1>4. Knows(parser.pending, parser.pasted, ReadSoFar)
    BY <1>2, <1>3 DEF Knows
<1>5. QED  BY <1>1, <1>4 DEF DetachInv, ParserKnows

LEMMA DetachToldMeant == DetachInv => DetachMeant
<1> SUFFICES ASSUME DetachInv, ssh.result = "detached", ~parser.split, \A i \in 2 .. Len(keyed) : ~Bracket(i, "esc")
             PROVE  \E i \in 1 .. Len(keyed) : (keyed[i] = "detach" \/ Bracket(i, "chord")) /\ ~InPaste(i)
    BY DEF DetachMeant
<1>1. NoDoubt
    BY DEF NoDoubt
<1>2. DetachTyped
    BY <1>1 DEF DetachInv
<1>3. QED  BY <1>2 DEF DetachTyped, DetachKey

\* The invariant of the whole client.
ClientInv == TerminalInv /\ HeldShape /\ StreamInv /\ DetachInv

LEMMA ClientStarts == ASSUME TerminalClientAssumption PROVE TerminalInit => ClientInv
BY TerminalStarts, HeldStarts, StreamStarts, DetachStarts DEF ClientInv

LEMMA ClientStep ==
    ASSUME ClientInv, TerminalClientAssumption, [TerminalNext]_terminalVars
    PROVE  ClientInv'
<1>1. TerminalInv /\ HeldShape /\ StreamInv /\ DetachInv /\ OutputInv
    BY DEF ClientInv, TerminalInv
<1>2. TerminalInv' /\ HeldShape'
    BY <1>1, TerminalStep, HeldStep
<1>3. StreamInv'
    BY <1>1, StreamStep
<1>4. DetachInv'
    BY <1>1, DetachStep
<1>5. QED  BY <1>2, <1>3, <1>4 DEF ClientInv

LEMMA ClientTold == ClientInv => TerminalTypeOK /\ InputFaithful /\ DetachMeant /\ OutputWhole
BY TerminalTold, InputToldFaithful, DetachToldMeant DEF ClientInv

\* The client alone: what reaches the program is what was typed while it was there, in
\* order, without gaps and in the size it was typed in (relay_terminal_input and
\* TerminalInput::push); only a detach key typed outside a paste detaches; an exit status
\* is reported when all output has been printed.
THEOREM ClientIsFaithful ==
    ASSUME TerminalClientAssumption PROVE TerminalSpec => [](InputFaithful /\ DetachMeant /\ OutputWhole)
<1>1. TerminalInit => ClientInv
    BY ClientStarts
<1>2. ClientInv /\ [TerminalNext]_terminalVars => ClientInv'
    BY ClientStep
<1>3. ClientInv => InputFaithful /\ DetachMeant /\ OutputWhole
    BY ClientTold
<1>4. QED  BY <1>1, <1>2, <1>3, PTL DEF TerminalSpec
=============================================================================
