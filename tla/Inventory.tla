------------------------------ MODULE Inventory ------------------------------
(***************************************************************************)
(* The inventory of boxes that commands read (crates/pbox-cli/src/         *)
(* inventory.rs and main.rs): pboxd lists the boxes over and over, overlays *)
(* the marks of queued deletions, probes the agents and replaces a file;   *)
(* commands start it, delete boxes and read the file without waiting.      *)
(***************************************************************************)
EXTENDS Naturals

CONSTANTS
    Boxes,       \* boxes of the cluster
    Daemons,     \* a command that looks for pboxd, then the pboxd it starts
    MaxDeletes,  \* deletions asked for, per box
    MaxUpdates,  \* replacements of the executable
    MaxFaults    \* PVE requests that fail, pboxds killed, starts disturbed

ASSUME InventoryAssumption == {MaxDeletes, MaxUpdates, MaxFaults} \subseteq Nat

VARIABLES
    vessel,    \* vessel[b]: the container, "running", "stopped" or "gone"
    deletion,  \* deletion[b]: [task, tries, told]; told: the mark is written
    mark,      \* mark[b]: <id>.delete, the deletion it names, 0 without one
    snapshot,  \* inventory.json: [written, rows, failed]
    daemon,    \* daemon[d]: the process, what it has listed, has yet to look at, and is over
    exe,       \* the version of the executable
    faults,
    ran        \* the boxes that ran since the present refresh began (history)

inventoryVars == <<vessel, deletion, mark, snapshot, daemon, exe, faults, ran>>

NoRows == [b \in Boxes |-> "none"]
OffDaemon == [at |-> "off", exe |-> 0, rows |-> NoRows, left |-> {}, over |-> {}]

InventoryInit ==
    /\ vessel \in [Boxes -> {"running", "stopped"}]
    /\ deletion = [b \in Boxes |-> [task |-> "none", tries |-> 0, told |-> TRUE]]
    /\ mark = [b \in Boxes |-> 0]
    /\ snapshot = [written |-> FALSE, rows |-> NoRows, failed |-> FALSE]
    /\ daemon = [d \in Daemons |-> OffDaemon]
    /\ exe = 0 /\ faults = 0 /\ ran = {}

Moves(d, at) == daemon' = [daemon EXCEPT ![d].at = at]
\* daemon.lock: of a command while it looks, of a pboxd until it exits.
LockHeld == \E d \in Daemons : daemon[d].at \notin {"off", "spawns", "starts"}
Fault == faults < MaxFaults /\ faults' = faults + 1

\* A command sees the file with the marks over it (read_at).
Shown(b) ==
    IF snapshot.rows[b] # "none" /\ mark[b] # 0 THEN "deleting" ELSE snapshot.rows[b]
----------------------------------------------------------------------------
(* The cluster and the commands that delete.                               *)

PowerTurns(b) ==
    /\ vessel[b] # "gone"
    /\ vessel' = [vessel EXCEPT ![b] = IF @ = "running" THEN "stopped" ELSE "running"]
    /\ ran' = IF vessel'[b] = "running" THEN ran \cup {b} ELSE ran
    /\ UNCHANGED <<deletion, mark, snapshot, daemon, exe, faults>>

\* queue_delete; a deletion may be asked for again when the first has failed.
QueuesDelete(b) ==
    /\ vessel[b] # "gone" /\ deletion[b].task # "runs" /\ deletion[b].told
    /\ deletion[b].tries < MaxDeletes
    /\ deletion' = [deletion EXCEPT ![b] = [task |-> "runs", tries |-> @.tries + 1, told |-> FALSE]]
    /\ UNCHANGED <<vessel, mark, snapshot, daemon, exe, faults, ran>>

\* mark_deleting, in place of the mark of an earlier deletion.
MarksDeleting(b) ==
    /\ ~deletion[b].told
    /\ mark' = [mark EXCEPT ![b] = deletion[b].tries]
    /\ deletion' = [deletion EXCEPT ![b].told = TRUE]
    /\ UNCHANGED <<vessel, snapshot, daemon, exe, faults, ran>>

DeletionEnds(b) ==
    /\ deletion[b].task = "runs"
    /\ deletion' = [deletion EXCEPT ![b].task = "ended"]
    /\ \/ vessel' = [vessel EXCEPT ![b] = "gone"]
       \/ deletion[b].tries < MaxDeletes /\ UNCHANGED vessel
    /\ UNCHANGED <<mark, snapshot, daemon, exe, faults, ran>>

ExecutableReplaced ==
    /\ exe < MaxUpdates
    /\ exe' = exe + 1
    /\ UNCHANGED <<vessel, deletion, mark, snapshot, daemon, faults, ran>>
----------------------------------------------------------------------------
(* ensure_daemon: the lock is tried, dropped, and a pboxd spawned.  A pboxd *)
(* that starts while another command tries the lock exits: commands that   *)
(* overlap a start are among the faults that MaxFaults bounds.             *)

LooksForDaemon(d) ==
    /\ daemon[d].at = "off" /\ ~LockHeld
    /\ Moves(d, "looks")
    /\ IF \E e \in Daemons : daemon[e].at # "off" THEN Fault ELSE UNCHANGED faults
    /\ UNCHANGED <<vessel, deletion, mark, snapshot, exe, ran>>

DropsLock(d) ==
    /\ daemon[d].at = "looks"
    /\ Moves(d, "spawns")
    /\ UNCHANGED <<vessel, deletion, mark, snapshot, exe, faults, ran>>

Spawns(d) ==
    /\ daemon[d].at = "spawns"
    /\ daemon' = [daemon EXCEPT ![d].at = "starts", ![d].exe = exe]
    /\ UNCHANGED <<vessel, deletion, mark, snapshot, exe, faults, ran>>
----------------------------------------------------------------------------
(* pboxd.                                                                  *)

Starts(d) ==
    /\ daemon[d].at = "starts"
    /\ daemon' = [daemon EXCEPT ![d] = IF LockHeld THEN OffDaemon ELSE [@ EXCEPT !.at = "checks"]]
    /\ UNCHANGED <<vessel, deletion, mark, snapshot, exe, faults, ran>>

\* Another executable, or another configuration: pboxd exits.
DaemonOutdated(d) ==
    /\ daemon[d].at = "checks" /\ daemon[d].exe # exe
    /\ daemon' = [daemon EXCEPT ![d] = OffDaemon]
    /\ UNCHANGED <<vessel, deletion, mark, snapshot, exe, faults, ran>>

\* list_cluster_resources.
Lists(d) ==
    /\ daemon[d].at = "checks" /\ daemon[d].exe = exe
    /\ daemon' = [daemon EXCEPT ![d].at = "reads", ![d].left = Boxes,
           ![d].rows = [b \in Boxes |-> IF vessel[b] = "gone" THEN "none" ELSE vessel[b]]]
    /\ ran' = {b \in Boxes : vessel[b] = "running"}
    /\ UNCHANGED <<vessel, deletion, mark, snapshot, exe, faults>>

\* Mutant: a container that has gone since is asked for again.
RetriesGoneBox(d, b) ==
    /\ daemon[d].at = "reads" /\ b \in daemon[d].left
    /\ daemon[d].rows[b] # "none" => vessel[b] # "gone"
    /\ LET next == daemon[d].left \ {b} IN
       daemon' = [daemon EXCEPT
           ![d].at = IF next = {} THEN "scans" ELSE "reads",
           ![d].left = IF next = {} THEN Boxes ELSE next,
           ![d].rows[b] = IF @ # "none" /\ deletion[b].task = "runs" THEN "deleting" ELSE @]
    /\ UNCHANGED <<vessel, deletion, mark, snapshot, exe, faults, ran>>

\* The configuration, the metadata and the destroy tasks of a listed box; a
\* container that has gone since fails the refresh.
ReadsBox(d, b) ==
    /\ daemon[d].at = "reads" /\ b \in daemon[d].left
    /\ IF daemon[d].rows[b] # "none" /\ vessel[b] = "gone"
       THEN Moves(d, "fails")
       ELSE LET next == daemon[d].left \ {b} IN
            daemon' = [daemon EXCEPT
                ![d].at = IF next = {} THEN "scans" ELSE "reads",
                ![d].left = IF next = {} THEN Boxes ELSE next,
                ![d].rows[b] =
                    IF @ # "none" /\ deletion[b].task = "runs" THEN "deleting" ELSE @]
    /\ UNCHANGED <<vessel, deletion, mark, snapshot, exe, faults, ran>>

\* active_delete_tasks counts none when it fails; other requests fail it all.
RequestFails(d) ==
    /\ daemon[d].at \in {"checks", "reads"} /\ Fault
    /\ Moves(d, "fails")
    /\ UNCHANGED <<vessel, deletion, mark, snapshot, exe, ran>>

TasksUnread(d, b) ==
    /\ daemon[d].at = "reads" /\ b \in daemon[d].left /\ vessel[b] # "gone" /\ Fault
    /\ LET next == daemon[d].left \ {b} IN
       daemon' = [daemon EXCEPT ![d].at = IF next = {} THEN "scans" ELSE "reads",
                                ![d].left = IF next = {} THEN Boxes ELSE next]
    /\ UNCHANGED <<vessel, deletion, mark, snapshot, exe, ran>>

\* Box b is dealt with; row is what its row becomes.
Scanned(d, b, row) ==
    LET next == daemon[d].left \ {b} IN
    daemon' = [daemon EXCEPT ![d].at = IF next = {} THEN "merges" ELSE "scans",
                             ![d].left = next, ![d].over = {}, ![d].rows[b] = row]

\* The task that a mark names has ended, whether or not it deleted the box.
MarkEnded(b) == mark[b] < deletion[b].tries \/ deletion[b].task = "ended"

\* One mark after the other, in the order of the directory; boxes without one
\* keep the row they have.
PassesBox(d, b) ==
    /\ daemon[d].at = "scans" /\ b \in daemon[d].left /\ mark[b] = 0
    /\ Scanned(d, b, daemon[d].rows[b])
    /\ UNCHANGED <<vessel, deletion, mark, snapshot, exe, faults, ran>>

ReadsMarkEnded(d, b) ==
    /\ daemon[d].at = "scans" /\ b \in daemon[d].left /\ mark[b] # 0 /\ daemon[d].over = {}
    /\ MarkEnded(b)
    /\ daemon' = [daemon EXCEPT ![d].over = {b}]
    /\ UNCHANGED <<vessel, deletion, mark, snapshot, exe, faults, ran>>

\* remove_file, of whatever mark is there by then.
RemovesMark(d, b) ==
    /\ daemon[d].at = "scans" /\ daemon[d].over = {b}
    /\ mark' = [mark EXCEPT ![b] = 0]
    /\ Scanned(d, b, daemon[d].rows[b])
    /\ UNCHANGED <<vessel, deletion, snapshot, exe, faults, ran>>

\* The task runs, or its status cannot be read.
ReadsMarkRunning(d, b) ==
    /\ daemon[d].at = "scans" /\ b \in daemon[d].left /\ mark[b] # 0 /\ daemon[d].over = {}
    /\ IF MarkEnded(b) THEN Fault ELSE UNCHANGED faults
    /\ Scanned(d, b, IF daemon[d].rows[b] = "none" THEN "none" ELSE "deleting")
    /\ UNCHANGED <<vessel, deletion, mark, snapshot, exe, ran>>

\* The last probe's result stays, but no other state than "running" does.
Keeps(fresh, old) ==
    IF fresh = "running" /\ old \in {"running", "disconnected"} THEN old ELSE fresh

Merges(d) ==
    /\ daemon[d].at = "merges"
    /\ snapshot' = [written |-> TRUE, failed |-> FALSE,
           rows |-> [b \in Boxes |-> Keeps(daemon[d].rows[b], snapshot.rows[b])]]
    /\ daemon' = [daemon EXCEPT ![d].at = "probes", ![d].left = Boxes]
    /\ UNCHANGED <<vessel, deletion, mark, exe, faults, ran>>

\* probe_box_agents, of the boxes listed as running, all at once: an agent may
\* not answer in 3 seconds, and that of a box which runs no more does not.
Probes(d, b) ==
    /\ daemon[d].at = "probes" /\ b \in daemon[d].left
    /\ LET next == daemon[d].left \ {b}
           fresh == daemon[d].rows[b]
           answers == {"disconnected"} \cup (IF vessel[b] = "running" THEN {"running"} ELSE {})
       IN \E row \in IF fresh = "running" THEN answers ELSE {fresh} :
              daemon' = [daemon EXCEPT ![d].at = IF next = {} THEN "publishes" ELSE "probes",
                                       ![d].left = next, ![d].rows[b] = row]
    /\ UNCHANGED <<vessel, deletion, mark, snapshot, exe, faults, ran>>

Publishes(d) ==
    /\ daemon[d].at = "publishes"
    /\ snapshot' = [written |-> TRUE, rows |-> daemon[d].rows, failed |-> FALSE]
    /\ Moves(d, "checks")
    /\ UNCHANGED <<vessel, deletion, mark, exe, faults, ran>>

\* A refresh that failed leaves the rows, and says so.
Fails(d) ==
    /\ daemon[d].at = "fails"
    /\ snapshot' = IF snapshot.written THEN [snapshot EXCEPT !.failed = TRUE] ELSE snapshot
    /\ Moves(d, "checks")
    /\ UNCHANGED <<vessel, deletion, mark, exe, faults, ran>>

\* The host restarts, or pboxd is killed: its lock goes with it.
DaemonKilled(d) ==
    /\ daemon[d].at # "off" /\ Fault
    /\ daemon' = [daemon EXCEPT ![d] = OffDaemon]
    /\ UNCHANGED <<vessel, deletion, mark, snapshot, exe, ran>>

DaemonStep(d) ==
    \/ DropsLock(d) \/ Spawns(d) \/ Starts(d) \/ DaemonOutdated(d) \/ Lists(d)
    \/ Merges(d) \/ Publishes(d) \/ Fails(d)
    \/ \E b \in Boxes :
        ReadsBox(d, b) \/ PassesBox(d, b) \/ ReadsMarkEnded(d, b) \/ RemovesMark(d, b)
        \/ ReadsMarkRunning(d, b) \/ Probes(d, b)

InventoryNext ==
    \/ \E b \in Boxes : PowerTurns(b) \/ QueuesDelete(b) \/ MarksDeleting(b) \/ DeletionEnds(b)
    \/ ExecutableReplaced
    \/ \E d \in Daemons :
        \/ LooksForDaemon(d) \/ DaemonStep(d) \/ RequestFails(d) \/ DaemonKilled(d)
        \/ \E b \in Boxes : TasksUnread(d, b)

InventorySpec == InventoryInit /\ [][InventoryNext]_inventoryVars
----------------------------------------------------------------------------
InventoryTypeOK ==
    /\ \A b \in Boxes :
        /\ vessel[b] \in {"running", "stopped", "gone"}
        /\ mark[b] \in 0 .. deletion[b].tries
        /\ snapshot.rows[b] \in {"none", "running", "stopped", "deleting", "disconnected"}
    /\ \A d \in Daemons :
        daemon[d].at \in {"off", "looks", "spawns", "starts", "checks", "reads", "scans", "merges",
                          "probes", "publishes", "fails"}

\* No probe result hides a lifecycle state that PVE has reported since: what the
\* file says of a box as running, or running without an agent, was so of the
\* container at some time since the refresh that wrote it began
\* (docs/cli-design.md: "Cached agent status must not replace a fresh PVE
\* lifecycle state").
FreshStateShown ==
    snapshot.written /\ ~snapshot.failed
        /\ (\E d \in Daemons : daemon[d].at \in {"probes", "publishes"}) =>
            \A b \in Boxes : snapshot.rows[b] \in {"running", "disconnected"} => b \in ran

\* While the task of a box's first queued deletion runs and its mark has been
\* written, the mark is there for every command to see.
DeletionShown ==
    \A b \in Boxes :
        deletion[b].task = "runs" /\ deletion[b].told /\ deletion[b].tries = 1 => mark[b] = 1

\* A box that is gone leaves the inventory that commands read, as long as
\* commands are used: whatever became of pboxd, one refreshes again.
GoneForgotten == \A b \in Boxes : vessel[b] = "gone" ~> snapshot.rows[b] = "none"
=============================================================================
