-------------------------- MODULE GuestSupervision --------------------------
(***************************************************************************)
(* Who keeps the guest's processes alive, and how the agent is replaced.   *)
(* pbox's PID 1 (crates/pbox-agent/src/workspace.rs) or systemd starts the *)
(* network agent and the terminal supervisor, which owns the terminals     *)
(* (terminal_host.rs); "pbox agent update" and every session command       *)
(* (crates/pbox-cli/src/agent_update.rs) install the local agent over the  *)
(* guest's and restart it.  Builds: "legacy" agents own their terminals,   *)
(* "old" ones have a terminal supervisor without the newest capabilities,  *)
(* "new" is the build the controllers have.                                *)
(***************************************************************************)
EXTENDS Naturals, FiniteSets

CONSTANTS
    Controllers, \* calls that may update the agent
    Terms,       \* terminals, each opened at most once
    MaxDeaths    \* bound on crashes of the agent and the supervisor

ASSUME SupervisionAssumption == MaxDeaths \in Nat

VARIABLES
    box,      \* [init, app, shared]: the guest's init ("systemd", "pbox" or
              \* "other"), whether its image has an application, and whether
              \* the controllers run on one machine
    pid1,     \* "up", "stopping" or "over"
    disk,     \* build of /usr/local/bin/pbox-agent; "absent" while replaced
    agentRun, \* [at, build]: the network agent
    hostRun,  \* [at, build]: the terminal supervisor
    term,     \* term[t]: "unopened", its owner "agent" or "host", or "ended"
    update,   \* update[c]: the progress of a controller's call
    deaths

supervisionVars == <<box, pid1, disk, agentRun, hostRun, term, update, deaths>>

Builds == {"legacy", "old", "new"}
Owned(by) == {t \in Terms : term[t] = by}
Serves == agentRun.at = "serves"
\* The agent has a terminal supervisor to hand its sessions to.
Durable == agentRun.build # "legacy" /\ box.init # "other"
EndTerms(by) == [t \in Terms |-> IF term[t] = by THEN "ended" ELSE term[t]]

SupervisionInit ==
    /\ box \in [init : {"systemd", "pbox", "other"}, app : BOOLEAN, shared : BOOLEAN]
    /\ box.app => box.init = "pbox"
    /\ pid1 = "up"
    /\ disk \in IF box.init = "pbox" THEN {"old", "new"} ELSE Builds
    /\ agentRun = [at |-> "down", build |-> disk]
    \* systemd's unit is first started by the agent
    /\ hostRun = [at |-> IF box.init = "pbox" THEN "down" ELSE "off", build |-> disk]
    /\ term = [t \in Terms |-> "unopened"]
    /\ update \in [Controllers ->
           [at : {"idle"}, seen : {disk}, durable : {FALSE}, lacks : {FALSE},
            linked : {FALSE}, kills : BOOLEAN, shown : {{}}, result : {"none"}]]
    /\ deaths = 0
----------------------------------------------------------------------------
(* The guest's init.                                                       *)

\* update[c] for all c, once the agent's process ends: every connection of it
\* is cut, and where systemd kills the unit's processes so are the scripts.
Cut == [c \in Controllers |->
           [update[c] EXCEPT !.linked = FALSE,
                             !.at = IF box.init = "systemd" /\ @ \in {"copies", "restarts"}
                                    THEN "waits" ELSE @]]

AgentFalls ==
    /\ agentRun' = [agentRun EXCEPT !.at = "dead"]
    /\ term' = EndTerms("agent")
    /\ update' = Cut

AllEnds ==
    /\ pid1' = "over"
    /\ agentRun' = [agentRun EXCEPT !.at = "dead"]
    /\ hostRun' = [hostRun EXCEPT !.at = "dead"]
    /\ term' = [t \in Terms |-> IF term[t] = "unopened" THEN "unopened" ELSE "ended"]
    /\ update' = [c \in Controllers |->
           [update[c] EXCEPT !.linked = FALSE,
                             !.at = IF @ \in {"copies", "restarts"} THEN "waits" ELSE @]]
    /\ UNCHANGED <<box, disk, deaths>>

\* The image's application has exited.
StopRequested ==
    /\ pid1 = "up" /\ box.app
    /\ pid1' = "stopping"
    /\ UNCHANGED <<box, disk, agentRun, hostRun, term, update, deaths>>

\* SIGTERM to everything, SIGKILL after five seconds.
InitStops == pid1 = "stopping" /\ AllEnds

\* A failed spawn ends supervise, and PID 1 with it.
SpawnFails ==
    /\ pid1 = "up" /\ box.init = "pbox" /\ disk = "absent"
    /\ agentRun.at = "down" \/ hostRun.at = "down"
    /\ AllEnds

\* Mutant: looks at the other child.
AgentSpawnedWithHost ==
    /\ pid1 = "up" /\ agentRun.at = "down" /\ hostRun.at = "down" /\ disk # "absent"
    /\ agentRun' = [at |-> "starts", build |-> disk]
    /\ UNCHANGED <<box, pid1, disk, hostRun, term, update, deaths>>

AgentSpawned ==
    /\ pid1 = "up" /\ agentRun.at = "down" /\ disk # "absent"
    /\ agentRun' = [at |-> "starts", build |-> disk]
    /\ UNCHANGED <<box, pid1, disk, hostRun, term, update, deaths>>

HostSpawned ==
    /\ pid1 = "up" /\ hostRun.at = "down" /\ disk # "absent"
    /\ hostRun' = [at |-> "runs", build |-> disk]
    /\ UNCHANGED <<box, pid1, disk, agentRun, term, update, deaths>>

\* waitpid; the child is started again after two seconds.
ReapsAgent ==
    /\ pid1 = "up" /\ agentRun.at = "dead"
    /\ agentRun' = [agentRun EXCEPT !.at = "down"]
    /\ UNCHANGED <<box, pid1, disk, hostRun, term, update, deaths>>

ReapsHost ==
    /\ pid1 = "up" /\ hostRun.at = "dead"
    /\ hostRun' = [hostRun EXCEPT !.at = "down"]
    /\ UNCHANGED <<box, pid1, disk, agentRun, term, update, deaths>>

AgentCrashes ==
    /\ pid1 = "up" /\ deaths < MaxDeaths /\ agentRun.at \notin {"down", "dead"}
    /\ deaths' = deaths + 1
    /\ AgentFalls
    /\ UNCHANGED <<box, pid1, disk, hostRun>>

HostDies ==
    /\ pid1 = "up" /\ deaths < MaxDeaths /\ hostRun.at = "runs"
    /\ deaths' = deaths + 1
    /\ hostRun' = [hostRun EXCEPT !.at = "dead"]
    /\ term' = EndTerms("host")
    /\ UNCHANGED <<box, pid1, disk, agentRun, update>>
----------------------------------------------------------------------------
(* The agent's start: terminal_host::managed runs before it serves.        *)

AgentTo(at) == agentRun' = [agentRun EXCEPT !.at = at]

\* systemctl start leaves a running supervisor alone; PID 1 starts its own.
FindsHost ==
    /\ agentRun.at = "starts"
    /\ \/ /\ ~Durable
          /\ AgentTo("serves")
          /\ UNCHANGED hostRun
       \/ /\ Durable
          /\ AgentTo("compares")
          /\ \/ /\ hostRun.at = "runs"
                /\ UNCHANGED hostRun
             \/ /\ box.init = "systemd" /\ hostRun.at # "runs" /\ disk # "absent"
                /\ hostRun' = [at |-> "runs", build |-> disk]
    /\ UNCHANGED <<box, pid1, disk, term, update, deaths>>

\* wait_ready's ten seconds, a failed systemctl or RPC: the agent exits.
HostNotReady ==
    /\ agentRun.at \in {"starts", "compares", "lists"} /\ Durable /\ hostRun.at # "runs"
    \* where systemd is told to start the supervisor, it can
    /\ agentRun.at = "starts" => box.init = "pbox" \/ disk = "absent"
    /\ AgentFalls
    /\ UNCHANGED <<box, pid1, disk, hostRun, deaths>>

ComparesHost ==
    /\ agentRun.at = "compares" /\ hostRun.at = "runs"
    /\ AgentTo(IF box.init = "systemd" /\ hostRun.build # agentRun.build
               THEN "lists" ELSE "serves")
    /\ UNCHANGED <<box, pid1, disk, hostRun, term, update, deaths>>

\* Mutant: a supervisor of another build is always replaced.
ListsHostAnyway ==
    /\ agentRun.at = "lists" /\ hostRun.at = "runs"
    /\ AgentTo("refreshes")
    /\ UNCHANGED <<box, pid1, disk, hostRun, term, update, deaths>>

ListsHost ==
    /\ agentRun.at = "lists" /\ hostRun.at = "runs"
    /\ AgentTo(IF Owned("host") = {} THEN "refreshes" ELSE "serves")
    /\ UNCHANGED <<box, pid1, disk, hostRun, term, update, deaths>>

\* systemctl restart pbox-terminals.service.
RefreshesHost ==
    /\ agentRun.at = "refreshes" /\ disk # "absent"
    /\ AgentTo("serves")
    /\ hostRun' = [at |-> "runs", build |-> disk]
    /\ term' = EndTerms("host")
    /\ UNCHANGED <<box, pid1, disk, update, deaths>>

RefreshFails ==
    /\ agentRun.at = "refreshes" /\ disk = "absent"
    /\ hostRun' = [hostRun EXCEPT !.at = "dead"]
    /\ AgentTo("dead")
    /\ term' = EndTerms("host")
    /\ UNCHANGED <<box, pid1, disk, update, deaths>>

\* Session RPCs of any client; a durable agent passes them to the supervisor.
Opens(t) ==
    /\ Serves /\ term[t] = "unopened" /\ (Durable => hostRun.at = "runs")
    /\ term' = [term EXCEPT ![t] = IF Durable THEN "host" ELSE "agent"]
    /\ UNCHANGED <<box, pid1, disk, agentRun, hostRun, update, deaths>>

Closes(t) ==
    /\ term[t] \in {"agent", "host"}
    /\ term' = [term EXCEPT ![t] = "ended"]
    /\ UNCHANGED <<box, pid1, disk, agentRun, hostRun, update, deaths>>
----------------------------------------------------------------------------
(* agent_update::prepare.                                                  *)

UpdateAt(c, where) == update[c].at = where
UpdateEnds(c, result) ==
    update' = [update EXCEPT ![c].at = "done", ![c].result = result, ![c].linked = FALSE]
Goes(c, where) == update' = [update EXCEPT ![c].at = where]
\* The agent answers info, which asks the supervisor for its capabilities.
Answers == Serves /\ (Durable => hostRun.at = "runs")
\* terminal-owner-refresh without terminal-history or terminal-processes.
HostLacks == box.init = "systemd" /\ Durable /\ hostRun.build = "old" /\ agentRun.build = "new"

guestOnly == <<box, pid1, disk, agentRun, hostRun, term, deaths>>

\* raw_connect, before and again under the lock.
UpdateConnects(c) ==
    /\ update[c].at \in {"idle", "relock"} /\ Answers
    /\ update' = [update EXCEPT ![c] =
           [@ EXCEPT !.at = IF @ = "idle" THEN "judges" ELSE "rejudges",
                     !.linked = TRUE, !.seen = agentRun.build,
                     !.durable = Durable, !.lacks = HostLacks]]
    /\ UNCHANGED guestOnly

\* agent_is_current; an agent whose supervisor lacks capabilities counts as
\* current while the supervisor has sessions.
Judged(c) ==
    /\ update[c].at \in {"judges", "rejudges"} /\ update[c].linked
    /\ update[c].lacks => hostRun.at = "runs"
    /\ IF update[c].seen = "new" /\ (update[c].lacks => Owned("host") # {})
       THEN UpdateEnds(c, "current")
       ELSE Goes(c, IF UpdateAt(c, "judges") THEN "locks"
                    ELSE IF update[c].durable THEN "uploads" ELSE "asks")
    /\ UNCHANGED guestOnly

\* update_lock: one call of a machine at a time.
Locking ==
    {"relock", "rejudges", "asks", "closes", "relists", "uploads", "copies", "restarts", "waits"}
Locked(c) ==
    /\ UpdateAt(c, "locks")
    /\ \A d \in Controllers \ {c} : box.shared => update[d].at \notin Locking
    /\ Goes(c, "relock")
    /\ UNCHANGED guestOnly

\* The legacy terminals are shown; without --kill-sessions they block.
Asked(c) ==
    /\ UpdateAt(c, "asks") /\ update[c].linked
    /\ \/ /\ Owned("agent") = {}
          /\ Goes(c, "relists")
       \/ /\ Owned("agent") # {} /\ ~update[c].kills
          /\ UpdateEnds(c, "blocked")
       \/ /\ Owned("agent") # {} /\ update[c].kills
          /\ update' = [update EXCEPT ![c].at = "closes", ![c].shown = Owned("agent")]
    /\ UNCHANGED guestOnly

\* close_session, one after the other; one that is gone is an error.
ClosesLegacy(c) ==
    /\ UpdateAt(c, "closes") /\ update[c].linked
    /\ IF update[c].shown = {}
       THEN Goes(c, "relists") /\ UNCHANGED term
       ELSE \E t \in update[c].shown :
               IF term[t] = "agent"
               THEN /\ term' = [term EXCEPT ![t] = "ended"]
                    /\ update' = [update EXCEPT ![c].shown = @ \ {t}]
               ELSE UpdateEnds(c, "failed") /\ UNCHANGED term
    /\ UNCHANGED <<box, pid1, disk, agentRun, hostRun, deaths>>

Relisted(c) ==
    /\ UpdateAt(c, "relists") /\ update[c].linked
    /\ IF Owned("agent") = {} THEN Goes(c, "uploads") ELSE UpdateEnds(c, "blocked")
    /\ UNCHANGED guestOnly

\* put_file and exec; install removes the old binary before it writes the new.
ScriptStarts(c) ==
    /\ UpdateAt(c, "uploads") /\ update[c].linked
    /\ disk' = "absent"
    /\ Goes(c, "copies")
    /\ UNCHANGED <<box, pid1, agentRun, hostRun, term, deaths>>

ScriptInstalls(c) ==
    /\ UpdateAt(c, "copies")
    /\ disk' = "new"
    /\ Goes(c, "restarts")
    /\ UNCHANGED <<box, pid1, agentRun, hostRun, term, deaths>>

\* systemctl restart, or SIGTERM to the agent that runs the script; under any
\* other init the script fails at this point.
ScriptRestarts(c) ==
    /\ UpdateAt(c, "restarts")
    /\ IF \/ box.init = "systemd" /\ agentRun.at \notin {"down", "dead"}
          \/ box.init = "pbox" /\ update[c].linked
       THEN /\ agentRun' = [agentRun EXCEPT !.at = "dead"]
            /\ term' = EndTerms("agent")
            /\ update' = [Cut EXCEPT ![c].at = "waits"]
       ELSE /\ IF box.init = "other" /\ update[c].linked
               THEN UpdateEnds(c, "failed") ELSE Goes(c, "waits")
            /\ UNCHANGED <<agentRun, term>>
    /\ UNCHANGED <<box, pid1, disk, hostRun, deaths>>

\* The digest the reconnected agent reports decides.
Refreshed(c) ==
    /\ UpdateAt(c, "waits") /\ Answers /\ agentRun.build = "new"
    /\ UpdateEnds(c, "updated")
    /\ UNCHANGED guestOnly

\* A lost connection, a failed RPC, 45 seconds for the lock, 30 for the agent.
GivesUp(c) ==
    /\ \/ update[c].at \in {"idle", "relock", "locks", "waits"}
       \/ /\ update[c].at \in {"judges", "rejudges", "asks", "closes", "relists", "uploads"}
          /\ ~update[c].linked \/ (update[c].lacks /\ hostRun.at # "runs")
    /\ UpdateEnds(c, "failed")
    /\ UNCHANGED guestOnly

UpdateStep(c) ==
    \/ UpdateConnects(c) \/ Judged(c) \/ Locked(c) \/ Asked(c) \/ ClosesLegacy(c) \/ Relisted(c)
    \/ ScriptStarts(c) \/ ScriptInstalls(c) \/ ScriptRestarts(c) \/ Refreshed(c) \/ GivesUp(c)

AgentStart ==
    FindsHost \/ HostNotReady \/ ComparesHost \/ ListsHost \/ RefreshesHost \/ RefreshFails

SupervisionNext ==
    \/ StopRequested \/ InitStops \/ SpawnFails \/ AgentSpawned \/ HostSpawned
    \/ ReapsAgent \/ ReapsHost
    \/ AgentCrashes \/ HostDies \/ AgentStart
    \/ \E t \in Terms : Opens(t) \/ Closes(t)
    \/ \E c \in Controllers : UpdateStep(c)

SupervisionSpec == SupervisionInit /\ [][SupervisionNext]_supervisionVars
----------------------------------------------------------------------------
SupervisionTypeOK ==
    /\ pid1 \in {"up", "stopping", "over"}
    /\ disk \in Builds \cup {"absent"}
    /\ agentRun.at \in {"down", "dead", "starts", "compares", "lists", "refreshes", "serves"}
    /\ hostRun.at \in {"off", "down", "runs", "dead"}
    /\ term \in [Terms -> {"unopened", "agent", "host", "ended"}]
    /\ deaths \in 0 .. MaxDeaths

\* Terminals of the terminal supervisor outlive agents: whatever mix of
\* updates, restarts and refreshes of the supervisor goes on, one ends only by
\* being closed, or with the supervisor's own crash or the guest's shutdown.
TerminalsSurvive ==
    [][\A t \in Terms :
          term[t] = "host" /\ term'[t] = "ended"
             => Closes(t) \/ HostDies \/ pid1' = "over"]_supervisionVars

\* An agent that stops, by an update or by itself, serves again as long as the
\* guest runs and its binary is there.
AgentReturns ==
    agentRun.at = "dead" /\ pid1 = "up" ~> Serves \/ pid1 = "over" \/ disk = "absent"
=============================================================================
