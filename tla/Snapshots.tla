----------------------------- MODULE Snapshots -----------------------------
(***************************************************************************)
(* Saved environments (pbox-cli/src/snapshots.rs): `pbox snapshot create`  *)
(* prepares a source box, stops it, copies it and restores it; `pbox       *)
(* snapshot repair-source` tidies up after an interrupted capture; `pbox   *)
(* new --snapshot` copies a saved environment and gives the clone an       *)
(* identity of its own, which `pbox repair` resumes.                       *)
(*                                                                         *)
(* There is one source box: captures of different boxes share nothing.     *)
(***************************************************************************)
EXTENDS Naturals, FiniteSets

CONSTANTS
    Commands,     \* running pbox processes
    Copies,       \* containers that can hold a saved environment
    Clones,       \* containers that can hold a box made from one
    MaxCaptures,  \* bound on the captures begun
    MaxFaults,    \* bound on crashes and failures
    None          \* no container, no command, nothing recorded

ASSUME SnapshotsAssumption ==
    /\ MaxCaptures \in Nat
    /\ MaxFaults \in Nat
    /\ None \notin Copies \cup Clones \cup {"running", "stopped"}

VARIABLES
    source,    \* the source box and its preparation files
    copies,    \* container -> the saved environment in it
    clones,    \* container -> the box made from a saved environment
    run,       \* command -> where it is
    captures,  \* captures begun
    before,    \* the source's state before the capture
    disturbed, \* others were at the source meanwhile, or its state is on no record
    faults     \* faults so far

history == <<captures, before, disturbed, faults>>
vars == <<source, copies, clones, run, history>>

\* The source: is it up, what is in /etc/pbox-snapshot, what prior-state says,
\* and whether PVE holds its disk lock.
Source ==
    [state: {"running", "stopped"}, prep: {"none", "partial", "full"},
     prior: {"running", "stopped", None}, locked: BOOLEAN]

\* A saved environment: with the complete preparation inside, or not.
Copy == [state: {"copying", "copied", "ready"}, prepared: BOOLEAN]

\* A clone: the agent that answers, the bootstrap files of the snapshot, the
\* files of its own identity, and the marker in its PVE description.
Clone ==
    [state: {"copying", "running", "stopped"},
     agent: {"none", "bootstrap", "own"},
     stage: BOOLEAN, own: BOOLEAN, marker: BOOLEAN]

\* The absence of a container is not a container.
ASSUME NoneIsNoContainer == None \notin Copy \cup Clone

CaptureSteps ==
    {"begun", "mark", "prepare", "halt", "clone", "copying", "convert"}
SourceSteps == CaptureSteps \cup {"read", "rise", "clean", "reshut"}
CloneSteps ==
    {"cloning", "adopt", "reach", "upload", "strip", "shut", "reboot", "greet",
     "finish"}

Idle == [step |-> "idle", verb |-> "none", was |-> None, at |-> None]

Init ==
    /\ source \in {[state |-> state, prep |-> "none", prior |-> None,
                    locked |-> FALSE] : state \in {"running", "stopped"}}
    /\ copies = [c \in Copies |-> None]
    /\ clones = [k \in Clones |-> None]
    /\ run = [p \in Commands |-> Idle]
    /\ captures = 0
    /\ before = None
    /\ disturbed = FALSE
    /\ faults = 0

Goto(p, step) == run' = [run EXCEPT ![p].step = step]
Exit(p) == run' = [run EXCEPT ![p] = Idle]
Doing(verb) == {p \in Commands : run[p].verb = verb}

\* After the cleanup of the source, a source that was stopped is stopped again.
AfterCleanup(p) ==
    IF run[p].was = "running" THEN Exit(p) ELSE Goto(p, "reshut")

-----------------------------------------------------------------------------
(***************************************************************************)
(* pbox snapshot create                                                    *)
(***************************************************************************)

\* The state of the source is read.  Captures may overlap.  The code does not look for
\* a repair of the source at work, nor does that look for a capture: it is left to the
\* user that the two do not overlap (docs/snapshots.md:103), and assumed here.
CaptureBegins(p) ==
    /\ run[p] = Idle
    /\ captures < MaxCaptures
    /\ Doing("repair-source") = {}
    /\ run' = [run EXCEPT ![p] =
           [Idle EXCEPT !.verb = "capture", !.was = source.state, !.step = "begun"]]
    /\ captures' = captures + 1
    /\ IF Doing("capture") = {} /\ source.prep = "none"
       THEN before' = source.state /\ disturbed' = FALSE
       ELSE disturbed' = TRUE /\ UNCHANGED before
    /\ UNCHANGED <<source, copies, clones, faults>>

\* A source that was stopped is started.  PVE refuses a box that is running
\* by now or has its disk locked, and the command ends.
Begins(p) ==
    LET next == IF run[p].verb = "capture" THEN "mark" ELSE "read"
    IN  /\ run[p].step = "begun"
        /\ \/ /\ run[p].was = "running"
              /\ Goto(p, next)
              /\ UNCHANGED source
           \/ /\ run[p].was = "stopped"
              /\ source.state = "stopped" /\ ~source.locked
              /\ source' = [source EXCEPT !.state = "running"]
              /\ Goto(p, next)
           \/ /\ run[p].was = "stopped"
              /\ source.state = "running" \/ source.locked
              /\ Exit(p)
              /\ UNCHANGED source
        /\ UNCHANGED <<copies, clones, history>>

\* Mutant: mkdir -p, which accepts the directory of another capture.
MarksAnyway(p) ==
    /\ run[p].step = "mark"
    /\ source.state = "running"
    /\ source' = [source EXCEPT !.prep = IF @ = "none" THEN "partial" ELSE @,
                                !.prior = run[p].was]
    /\ Goto(p, "prepare")
    /\ UNCHANGED <<copies, clones, history>>

\* mkdir fails when there is a preparation already; else it is this command's,
\* and prior-state says how to leave the source.
Marks(p) ==
    /\ run[p].step = "mark"
    /\ \/ /\ source.state = "running" /\ source.prep = "none"
          /\ source' = [source EXCEPT !.prep = "partial", !.prior = run[p].was]
          /\ Goto(p, "prepare")
       \/ /\ source.state = "stopped" \/ source.prep # "none"
          /\ AfterCleanup(p)
          /\ UNCHANGED source
    /\ UNCHANGED <<copies, clones, history>>

\* prepare_source uploads the bootstrap agent and enables it for the copy.
Prepares(p) ==
    /\ run[p].step = "prepare"
    /\ \/ /\ source.state = "running"
          /\ source' = [source EXCEPT !.prep = "full"]
          /\ Goto(p, "halt")
       \/ /\ source.state = "stopped"
          /\ Goto(p, "rise")
          /\ UNCHANGED source
    /\ UNCHANGED <<copies, clones, history>>

Halts(p) ==
    /\ run[p].step = "halt"
    /\ \/ /\ source.state = "running"
          /\ source' = [source EXCEPT !.state = "stopped"]
          /\ Goto(p, "clone")
       \/ /\ source.state = "stopped"
          /\ Goto(p, "rise")
          /\ UNCHANGED source
    /\ UNCHANGED <<copies, clones, history>>

\* clone_full: PVE locks the stopped source and copies it; a running source is
\* refused, a locked one is tried again.
ClonesSource(p) ==
    /\ run[p].step = "clone"
    /\ \/ /\ source.state = "stopped" /\ ~source.locked
          /\ \E c \in Copies :
                /\ copies[c] = None
                /\ copies' = [copies EXCEPT ![c] =
                       [state |-> "copying", prepared |-> source.prep = "full"]]
                /\ run' = [run EXCEPT ![p].at = c, ![p].step = "copying"]
          /\ source' = [source EXCEPT !.locked = TRUE]
       \/ /\ source.state = "running" \/ \A c \in Copies : copies[c] # None
          /\ Goto(p, "rise")
          /\ UNCHANGED <<source, copies>>
    /\ UNCHANGED <<clones, history>>

CopyAwaited(p) ==
    LET c == run[p].at
    IN  /\ run[p].step = "copying"
        /\ \/ copies[c] = None /\ Goto(p, "rise")
           \/ /\ copies[c] # None
              /\ copies[c].state # "copying"
              /\ Goto(p, "convert")
        /\ UNCHANGED <<source, copies, clones, history>>

\* template_lxc and its task.
Converts(p) ==
    LET c == run[p].at
    IN  /\ run[p].step = "convert"
        /\ \/ /\ copies[c] # None
              /\ copies' = [copies EXCEPT ![c].state = "ready"]
           \/ /\ copies[c] = None
              /\ UNCHANGED copies
        /\ Goto(p, "rise")
        /\ UNCHANGED <<source, clones, history>>

-----------------------------------------------------------------------------
(***************************************************************************)
(* restore_source, and pbox snapshot repair-source                         *)
(***************************************************************************)

\* Mutant: a source that was down is not started for the cleanup.
RisesUnlessDown(p) ==
    /\ run[p].step = "rise"
    /\ AfterCleanup(p)
    /\ source' = IF run[p].was = "running"
                 THEN [source EXCEPT !.prep = "none", !.prior = None] ELSE source
    /\ UNCHANGED <<copies, clones, history>>

\* The source is started for its cleanup; PVE refuses while the disk is locked.
Rises(p) ==
    /\ run[p].step = "rise"
    /\ \/ /\ source.state = "running" \/ ~source.locked
          /\ source' = [source EXCEPT !.state = "running"]
          /\ Goto(p, "clean")
       \/ /\ source.state = "stopped" /\ source.locked
          /\ Exit(p)
          /\ UNCHANGED source
    /\ UNCHANGED <<copies, clones, history>>

\* SOURCE_CLEANUP removes the preparation and with it prior-state.
Cleans(p) ==
    /\ run[p].step = "clean"
    /\ \/ /\ source.state = "running"
          /\ source' = [source EXCEPT !.prep = "none", !.prior = None]
       \/ /\ source.state = "stopped"
          /\ UNCHANGED source
    /\ AfterCleanup(p)
    /\ UNCHANGED <<copies, clones, history>>

Reshuts(p) ==
    /\ run[p].step = "reshut"
    /\ source' = [source EXCEPT !.state = "stopped"]
    /\ Exit(p)
    /\ UNCHANGED <<copies, clones, history>>

\* One repair at a time, and none during a capture: the documentation leaves
\* that to the user.
RepairSourceBegins(p) ==
    /\ run[p] = Idle
    /\ Doing("capture") \cup Doing("repair-source") = {}
    /\ run' = [run EXCEPT ![p] = [Idle EXCEPT !.verb = "repair-source",
                                      !.was = source.state, !.step = "begun"]]
    /\ UNCHANGED <<source, copies, clones, history>>

\* Mutant: the state found is restored, not the one recorded.
ReadsNothing(p) ==
    /\ run[p].step = "read"
    /\ Goto(p, "rise")
    /\ UNCHANGED <<source, copies, clones, history>>

\* Mutant: a missing prior-state is not provided for.
ReadsPriorOnly(p) ==
    /\ run[p].step = "read"
    /\ run' = [run EXCEPT ![p].step = "rise", ![p].was = source.prior]
    /\ UNCHANGED <<source, copies, clones, history>>

\* prior-state, or the state found when there is none.
ReadsPrior(p) ==
    /\ run[p].step = "read"
    /\ \/ /\ source.state = "running"
          /\ run' = [run EXCEPT ![p].step = "rise",
                         ![p].was = IF source.prior = None THEN @ ELSE source.prior]
       \/ /\ source.state = "stopped"
          /\ Exit(p)
    /\ UNCHANGED <<source, copies, clones, history>>

-----------------------------------------------------------------------------
(***************************************************************************)
(* pbox new --snapshot, and pbox repair of a clone                         *)
(***************************************************************************)

\* A boot runs the bootstrap agent while the snapshot's files are there: they
\* hold back the agent of the box itself.
Boots(k) ==
    clones' = [clones EXCEPT ![k].state = "running",
                   ![k].agent = IF clones[k].stage THEN "bootstrap"
                                ELSE IF clones[k].own THEN "own" ELSE "none"]
Stops(k) == clones' = [clones EXCEPT ![k].state = "stopped", ![k].agent = "none"]

\* Command p is at this step, with the clone k.
At(p, step, k) == run[p].step = step /\ run[p].at = k /\ clones[k] # None

\* The clone's description carries the marker from the first.
RestoreBegins(p, k) ==
    /\ run[p] = Idle
    /\ clones[k] = None
    /\ \E c \in Copies :
          /\ copies[c] # None
          /\ copies[c].state = "ready"
          /\ clones' = [clones EXCEPT ![k] =
                 [state |-> "copying", agent |-> "none",
                  stage |-> copies[c].prepared, own |-> FALSE, marker |-> TRUE]]
    /\ run' = [run EXCEPT ![p] =
           [Idle EXCEPT !.verb = "restore", !.step = "cloning", !.at = k]]
    /\ UNCHANGED <<source, copies, history>>

\* While PVE copies, the clone is locked and its configuration cannot change.
RepairBegins(p, k) ==
    /\ run[p] = Idle
    /\ clones[k] # None
    /\ clones[k].marker /\ clones[k].state # "copying"
    /\ run' = [run EXCEPT ![p] =
           [Idle EXCEPT !.verb = "repair", !.step = "adopt", !.at = k]]
    /\ UNCHANGED <<source, copies, clones, history>>

CloneAwaited(p) ==
    LET k == run[p].at
    IN  /\ run[p].step = "cloning"
        /\ \/ clones[k] = None /\ Exit(p)
           \/ /\ clones[k] # None
              /\ clones[k].state # "copying"
              /\ Goto(p, "adopt")
        /\ UNCHANGED <<source, copies, clones, history>>

\* finalize configures the clone and starts it.
Adopts(p, k) ==
    /\ At(p, "adopt", k)
    /\ \/ clones[k].state = "stopped" /\ Boots(k)
       \/ clones[k].state = "running" /\ UNCHANGED clones
    /\ Goto(p, "reach")
    /\ UNCHANGED <<source, copies, history>>

\* The box's own agent answers when the identity was handed over before; else
\* the bootstrap agent does, or neither within two minutes.
Reaches(p, k) ==
    /\ At(p, "reach", k)
    /\ \/ /\ clones[k].agent = "own"
          /\ clones' = [clones EXCEPT ![k].stage = FALSE]
          /\ Goto(p, "shut")
       \/ clones[k].agent = "bootstrap" /\ Goto(p, "upload") /\ UNCHANGED clones
       \/ clones[k].agent = "none" /\ Exit(p) /\ UNCHANGED clones
    /\ UNCHANGED <<source, copies, history>>

\* Mutant: the bootstrap files go before the identity is in place.
UploadsLate(p, k) ==
    /\ At(p, "upload", k)
    /\ \/ /\ clones[k].agent = "bootstrap"
          /\ clones' = [clones EXCEPT ![k].stage = FALSE]
          /\ Goto(p, "strip")
       \/ clones[k].agent # "bootstrap" /\ Exit(p) /\ UNCHANGED clones
    /\ UNCHANGED <<source, copies, history>>

\* upload_directory writes the identity of the new box.
Uploads(p, k) ==
    /\ At(p, "upload", k)
    /\ \/ /\ clones[k].agent = "bootstrap"
          /\ clones' = [clones EXCEPT ![k].own = TRUE]
          /\ Goto(p, "strip")
       \/ clones[k].agent # "bootstrap" /\ Exit(p) /\ UNCHANGED clones
    /\ UNCHANGED <<source, copies, history>>

\* SOURCE_CLEANUP in the clone; its bootstrap agent runs on until the shutdown.
Strips(p, k) ==
    /\ At(p, "strip", k)
    /\ \/ /\ clones[k].agent = "bootstrap"
          /\ clones' = [clones EXCEPT ![k].stage = FALSE]
          /\ Goto(p, "shut")
       \/ clones[k].agent # "bootstrap" /\ Exit(p) /\ UNCHANGED clones
    /\ UNCHANGED <<source, copies, history>>

\* PVE refuses to shut down a stopped box.  With --stopped the box stays down.
Shuts(p, k) ==
    /\ At(p, "shut", k)
    /\ \/ /\ clones[k].state = "running"
          /\ Stops(k)
          /\ \E next \in {"reboot", "finish"} : Goto(p, next)
       \/ clones[k].state # "running" /\ Exit(p) /\ UNCHANGED clones
    /\ UNCHANGED <<source, copies, history>>

Reboots(p, k) ==
    /\ At(p, "reboot", k)
    /\ \/ clones[k].state = "stopped" /\ Boots(k) /\ Goto(p, "greet")
       \/ clones[k].state # "stopped" /\ Exit(p) /\ UNCHANGED clones
    /\ UNCHANGED <<source, copies, history>>

\* wait_box: the box answers as itself.
Greets(p, k) ==
    /\ At(p, "greet", k)
    /\ IF clones[k].agent = "own" THEN Goto(p, "finish") ELSE Exit(p)
    /\ UNCHANGED <<source, copies, clones, history>>

\* The marker leaves the description.
Finishes(p, k) ==
    /\ At(p, "finish", k)
    /\ clones' = [clones EXCEPT ![k].marker = FALSE]
    /\ Exit(p)
    /\ UNCHANGED <<source, copies, history>>

-----------------------------------------------------------------------------
(***************************************************************************)
(* PVE, the boxes' users, and failures                                     *)
(***************************************************************************)

Fault == faults < MaxFaults /\ faults' = faults + 1

\* PVE ends the copy of the source and lifts the disk lock.
SourceCopyEnds(c) ==
    /\ copies[c] # None
    /\ copies[c].state = "copying"
    /\ \/ copies' = [copies EXCEPT ![c].state = "copied"] /\ UNCHANGED faults
       \/ copies' = [copies EXCEPT ![c] = None] /\ Fault
    /\ source' = [source EXCEPT !.locked = FALSE]
    /\ UNCHANGED <<clones, run, captures, before, disturbed>>

CloneCopyEnds(k) ==
    /\ clones[k] # None
    /\ clones[k].state = "copying"
    /\ \/ Stops(k) /\ UNCHANGED faults
       \/ clones' = [clones EXCEPT ![k] = None] /\ Fault
    /\ UNCHANGED <<source, copies, run, captures, before, disturbed>>

\* Somebody starts or stops the source, or it reboots by itself.
Engaged == Doing("capture") \cup Doing("repair-source") # {} \/ source.prep # "none"
SourceSwitched ==
    /\ ~source.locked
    /\ source' = [source EXCEPT !.state =
                     IF @ = "running" THEN "stopped" ELSE "running"]
    /\ Fault
    /\ IF Engaged
       THEN disturbed' = TRUE /\ UNCHANGED before
       ELSE before' = None /\ UNCHANGED disturbed
    /\ UNCHANGED <<copies, clones, run, captures>>

CloneSwitched(k) ==
    /\ clones[k] # None
    /\ \/ clones[k].state = "running" /\ (Stops(k) \/ Boots(k))
       \/ clones[k].state = "stopped" /\ Boots(k)
    /\ Fault
    /\ UNCHANGED <<source, copies, run, captures, before, disturbed>>

\* delete_saved: an unfinished copy can be removed too, and its own capture
\* may be at it still.
DeletesSaved(c) ==
    /\ copies[c] # None
    /\ copies[c].state # "copying"
    /\ copies' = [copies EXCEPT ![c] = None]
    /\ UNCHANGED <<source, clones, run, history>>

\* A command that ends here leaves the source as it is; without prior-state
\* nothing tells how it was.
LeavesSource(p) ==
    disturbed' = \/ disturbed
                 \/ /\ run[p].step \in SourceSteps
                    /\ source.prior = None
                    /\ source.state # run[p].was

\* The command is killed.
Killed(p) ==
    /\ run[p] # Idle
    /\ Fault
    /\ Exit(p)
    /\ LeavesSource(p)
    /\ UNCHANGED <<source, copies, clones, captures, before>>

\* A request fails or its answer is lost.  A capture goes on to restore the
\* source when it made the preparation; mkdir may have been done all the same.
Fails(p) ==
    /\ run[p] # Idle
    /\ Fault
    /\ \/ /\ run[p].step \in {"prepare", "halt", "clone", "copying", "convert"}
          /\ Goto(p, "rise")
          /\ UNCHANGED <<source, disturbed>>
       \/ /\ run[p].step \in {"mark", "clean"}
          /\ AfterCleanup(p)
          /\ \/ UNCHANGED source
             \/ /\ run[p].step = "mark"
                /\ source.state = "running" /\ source.prep = "none"
                /\ source' = [source EXCEPT !.prep = "partial", !.prior = run[p].was]
          /\ UNCHANGED disturbed
       \/ /\ run[p].step \in {"begun", "read", "rise", "reshut"} \cup CloneSteps
          /\ Exit(p)
          /\ LeavesSource(p)
          /\ UNCHANGED source
    /\ UNCHANGED <<copies, clones, captures, before>>

-----------------------------------------------------------------------------
CaptureStep(p) ==
    \/ Begins(p) \/ Marks(p) \/ Prepares(p) \/ Halts(p) \/ ClonesSource(p)
    \/ CopyAwaited(p) \/ Converts(p) \/ ReadsPrior(p) \/ Rises(p) \/ Cleans(p)
    \/ Reshuts(p)

CloneStep(p) ==
    \/ CloneAwaited(p)
    \/ \E k \in Clones :
          \/ Adopts(p, k) \/ Reaches(p, k) \/ Uploads(p, k) \/ Strips(p, k)
          \/ Shuts(p, k) \/ Reboots(p, k) \/ Greets(p, k) \/ Finishes(p, k)

PveStep ==
    \/ \E c \in Copies : SourceCopyEnds(c)
    \/ \E k \in Clones : CloneCopyEnds(k)

Next ==
    \/ PveStep
    \/ SourceSwitched
    \/ \E k \in Clones : CloneSwitched(k)
    \/ \E c \in Copies : DeletesSaved(c)
    \/ \E p \in Commands :
          \/ CaptureBegins(p) \/ RepairSourceBegins(p)
          \/ \E k \in Clones : RestoreBegins(p, k) \/ RepairBegins(p, k)
          \/ CaptureStep(p) \/ CloneStep(p)
          \/ Killed(p) \/ Fails(p)

\* A running command goes on and PVE ends its tasks.  The user is assumed to do
\* what docs/snapshots.md:103 says: repair a source that was left prepared.
SourceRepaired ==
    source.prep # "none" /\ \E p \in Commands : RepairSourceBegins(p)

Fairness ==
    /\ \A p \in Commands : WF_vars(CaptureStep(p)) /\ WF_vars(CloneStep(p))
    /\ WF_vars(PveStep)
    /\ SF_vars(SourceRepaired)

Spec == Init /\ [][Next]_vars /\ Fairness

-----------------------------------------------------------------------------
(***************************************************************************)
(* Properties                                                              *)
(***************************************************************************)

\* The states are well formed, and a command is at a container of its kind.
TypeOK ==
    /\ source \in Source
    /\ \A c \in Copies : copies[c] = None \/ copies[c] \in Copy
    /\ \A k \in Clones : clones[k] = None \/ clones[k] \in Clone
    /\ \A p \in Commands :
          /\ run[p].step \in SourceSteps \cup CloneSteps \cup {"idle"}
          /\ run[p].verb \in {"none", "capture", "repair-source", "restore", "repair"}
          /\ run[p].step \in SourceSteps => run[p].was \in {"running", "stopped"}
          /\ run[p].step \in {"copying", "convert"} => run[p].at \in Copies
          /\ run[p].step \in CloneSteps => run[p].at \in Clones
    /\ captures \in 0..MaxCaptures
    /\ before \in {"running", "stopped", None}
    /\ disturbed \in BOOLEAN
    /\ faults \in 0..MaxFaults

\* A finished saved environment holds the whole preparation, so that a box made
\* from it can come up, whatever other captures of the same source do (the
\* exclusive mkdir, the shutdown before the copy and PVE's disk lock).  A repair that
\* overlaps a capture could remove the preparation before the copy; the user is asked
\* not to run one.
ReadyCopyPrepared ==
    \A c \in Copies :
        copies[c] # None /\ copies[c].state = "ready" => copies[c].prepared

\* When no command is at the source and no preparation is left in it, it is up
\* or down as it was before the capture, also after a crash and a repair
\* (restore_source and prior-state).
SourceRestored ==
    /\ ~Engaged /\ ~disturbed /\ before # None
    => source.state = before

\* Whatever fails, a clone can be reached after its next boot: it has the
\* bootstrap agent or an identity of its own (the order of finalize).
CloneReachable ==
    \A k \in Clones :
        clones[k] # None /\ clones[k].state # "copying"
        => clones[k].stage \/ clones[k].own

\* Only a clone with its own identity and without the bootstrap credentials of
\* the snapshot loses the marker that `pbox repair` resumes from (finalize).
MarkerUntilOwn ==
    \A k \in Clones :
        clones[k] # None /\ ~clones[k].marker => clones[k].own /\ ~clones[k].stage

\* A clone keeps a way in until it has its own, and a way to repair it.
CloneRecoverable == CloneReachable /\ MarkerUntilOwn

\* A preparation does not stay in the source: the capture removes it, or after
\* a crash the repair that the documentation asks for (SOURCE_CLEANUP).
PreparationRemoved == source.prep # "none" ~> source.prep = "none"

=============================================================================
