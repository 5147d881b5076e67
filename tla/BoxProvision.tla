---------------------------- MODULE BoxProvision ----------------------------
(***************************************************************************)
(* Boxes from creation to deletion: `pbox new` (run_new of main.rs with an *)
(* SSH bootstrap, run_new of relay.rs with a private image), `pbox repair` *)
(* and `pbox rm`, each a process of its own, against Proxmox VE, whose     *)
(* tasks outlive the request that starts them.  What an interrupted        *)
(* command leaves behind is an operation on disk (BootstrapOperation).     *)
(*                                                                         *)
(* A box that nothing refers to any more stands for a new random           *)
(* identifier when it is used again.                                       *)
(***************************************************************************)
EXTENDS Naturals, FiniteSets

CONSTANTS
    Boxes,      \* pbox identifiers
    Commands,   \* running pbox processes
    Vmids,      \* numbers that the VMID pattern allows
    Relayed,    \* kinds of creation: TRUE through the relay, FALSE over SSH
    MaxFaults,  \* bound on crashes, failures and lost answers
    None        \* no container, operation, VMID or box

ASSUME ProvisionAssumption ==
    /\ Vmids \subseteq Nat
    /\ Relayed \subseteq BOOLEAN
    /\ MaxFaults \in Nat
    /\ None \notin Boxes \cup Vmids

VARIABLES
    containers,  \* VMID -> the container that PVE has there
    uploads,     \* boxes whose private template PVE is still storing
    templates,   \* boxes whose private template PVE has
    operations,  \* box -> its operation.json
    run,         \* command -> where it is
    unrecorded,  \* boxes with work at PVE of which no operation tells
    faults       \* faults so far

vars == <<containers, uploads, templates, operations, run, unrecorded, faults>>

Phases == {"started", "agent-ready", "guest-cleaned"}

\* BootstrapOperation without node, address and port.  `started` stands for
\* every phase that repair treats alike.
Operation ==
    [vmid: Vmids \cup {None}, phase: Phases, relay: BOOLEAN,
     template: BOOLEAN, task: {"none", "upload", "create"}]

\* A container: the box its metadata names, whether an agent of that box can
\* answer in it, and whether it has the temporary key and files of a bootstrap.
Container ==
    [box: Boxes, state: {"creating", "running", "stopped", "destroying"},
     agent: BOOLEAN, creds: BOOLEAN]

\* A record of an operation or a container is not the absence of one.
ASSUME NoneIsNoRecord == None \notin Operation \cup Container

Steps ==
    {"idle", "prepare", "uploaded", "uploading", "list", "create", "created",
     "creating", "bootstrap", "installed", "clean", "cleaned", "untask",
     "untemplate", "connect", "forget", "look", "enter", "queue", "stop",
     "destroy", "destroying", "pending"}

Idle ==
    [step |-> "idle", verb |-> "none", box |-> None, vmid |-> None,
     memory |-> None, occupied |-> {}]

Init ==
    /\ containers = [v \in Vmids |-> None]
    /\ uploads = {}
    /\ templates = {}
    /\ operations = [b \in Boxes |-> None]
    /\ run = [p \in Commands |-> Idle]
    /\ unrecorded = {}
    /\ faults = 0

-----------------------------------------------------------------------------

Has(v, b) == containers[v] # None /\ containers[v].box = b
Occupied == {v \in Vmids : containers[v] # None}
State(v) == IF containers[v] = None THEN "absent" ELSE containers[v].state

\* Nothing anywhere refers to the box.
Blank(b) ==
    /\ operations[b] = None
    /\ b \notin uploads \cup templates
    /\ \A v \in Vmids : ~Has(v, b)
    /\ \A p \in Commands : run[p].box # b

Creating(b) == \E p \in Commands : run[p].verb = "new" /\ run[p].box = b

Goto(p, step) == run' = [run EXCEPT ![p].step = step]
Exit(p) == run' = [run EXCEPT ![p] = Idle]

\* save_operation renames a file into the operation's directory, which fails
\* when another command has removed the directory; the command then ends.
Save(p, operation, step) ==
    LET b == run[p].box
    IN  \/ /\ operations[b] # None
           /\ operations' = [operations EXCEPT ![b] = operation]
           /\ run' = [run EXCEPT ![p].memory = operation, ![p].step = step]
        \/ /\ operations[b] = None
           /\ Exit(p)
           /\ UNCHANGED operations

\* BootstrapKey::cleanup removes the directory.
Forget(p) ==
    /\ operations' = [operations EXCEPT ![run[p].box] = None]
    /\ Exit(p)

-----------------------------------------------------------------------------
(***************************************************************************)
(* pbox new                                                                *)
(***************************************************************************)

\* A fresh identifier, the bootstrap key and the first save of the operation.
NewBegins(p, b, relay) ==
    /\ run[p] = Idle
    /\ Blank(b)
    /\ LET operation == [vmid |-> None, phase |-> "started", relay |-> relay,
                         template |-> relay, task |-> "none"]
       IN  /\ operations' = [operations EXCEPT ![b] = operation]
           /\ run' = [run EXCEPT ![p] =
                  [Idle EXCEPT !.verb = "new", !.box = b, !.memory = operation,
                               !.step = IF relay THEN "prepare" ELSE "list"]]
    /\ unrecorded' = unrecorded \ {b}
    /\ UNCHANGED <<containers, uploads, templates, faults>>

\* Relay: the image is built and PVE begins to store it as a template.
Uploads(p) ==
    /\ run[p].step = "prepare"
    /\ uploads' = uploads \cup {run[p].box}
    /\ Goto(p, "uploaded")
    /\ UNCHANGED <<containers, templates, operations, unrecorded, faults>>

RecordsUpload(p) ==
    /\ run[p].step = "uploaded"
    /\ Save(p, [run[p].memory EXCEPT !.task = "upload"], "uploading")
    /\ UNCHANGED <<containers, uploads, templates, unrecorded, faults>>

\* The upload's task ended, and phase relay-creating is saved.
UploadFinishes(p) ==
    /\ run[p].step = "uploading"
    /\ run[p].box \notin uploads
    /\ \/ /\ run[p].box \in templates
          /\ Save(p, run[p].memory, "list")
       \/ /\ run[p].box \notin templates
          /\ Exit(p)
          /\ UNCHANGED operations
    /\ UNCHANGED <<containers, uploads, templates, unrecorded, faults>>

\* create_lxc_with_retry lists the VMIDs in use.
Lists(p) ==
    /\ run[p].step = "list"
    /\ run' = [run EXCEPT ![p].occupied = Occupied, ![p].step = "create"]
    /\ UNCHANGED <<containers, uploads, templates, operations, unrecorded, faults>>

\* allocate_lowest.
Candidate(p) ==
    LET free == Vmids \ run[p].occupied
    IN  IF free = {} THEN None ELSE CHOOSE v \in free : \A w \in free : v <= w

\* The description names the box; an image for the relay contains its agent,
\* other containers get the bootstrap key.
NewContainer(p) ==
    [box |-> run[p].box, state |-> "creating",
     agent |-> run[p].memory.relay, creds |-> ~run[p].memory.relay]

\* PVE accepts the request: the VMID is free and the template is there.
Accepts(p) ==
    /\ Candidate(p) # None
    /\ containers[Candidate(p)] = None
    /\ run[p].memory.relay => run[p].box \in templates

Creates(p) ==
    /\ run[p].step = "create"
    /\ Accepts(p)
    /\ containers' = [containers EXCEPT ![Candidate(p)] = NewContainer(p)]
    /\ run' = [run EXCEPT ![p].vmid = Candidate(p), ![p].step = "created"]
    /\ UNCHANGED <<uploads, templates, operations, unrecorded, faults>>

\* is_vmid_conflict: the number is skipped and the list read again.
CreateConflicts(p) ==
    /\ run[p].step = "create"
    /\ Candidate(p) # None
    /\ containers[Candidate(p)] # None
    /\ run' = [run EXCEPT ![p].occupied = @ \cup {Candidate(p)} \cup Occupied]
    /\ UNCHANGED <<containers, uploads, templates, operations, unrecorded, faults>>

\* An error of the creation: over SSH cleanup_uncreated_bootstrap removes the
\* operation, through the relay it stays.
Abandon(p) ==
    \/ run[p].memory.relay /\ Exit(p) /\ UNCHANGED operations
    \/ ~run[p].memory.relay /\ Forget(p)

CreateRefused(p) ==
    /\ run[p].step = "create"
    /\ ~Accepts(p)
    /\ Candidate(p) # None => containers[Candidate(p)] = None
    /\ Abandon(p)
    /\ UNCHANGED <<containers, uploads, templates, unrecorded, faults>>

\* Mutant: a time-out counts as a conflict, and the creation is tried again.
CreateRetried(p) ==
    /\ run[p].step = "create"
    /\ Accepts(p)
    /\ faults < MaxFaults
    /\ containers' = [containers EXCEPT ![Candidate(p)] = NewContainer(p)]
    /\ run' = [run EXCEPT ![p].occupied = @ \cup {Candidate(p)}]
    /\ faults' = faults + 1
    /\ UNCHANGED <<uploads, templates, operations, unrecorded>>

\* The request times out after PVE has begun: an error like any other.
CreateUnheard(p) ==
    /\ run[p].step = "create"
    /\ Accepts(p)
    /\ faults < MaxFaults
    /\ containers' = [containers EXCEPT ![Candidate(p)] = NewContainer(p)]
    /\ Abandon(p)
    /\ unrecorded' = unrecorded \cup {run[p].box}
    /\ faults' = faults + 1
    /\ UNCHANGED <<uploads, templates>>

\* Mutant: the relay's creation keeps the task of the upload.
RecordsVmidOnly(p) ==
    /\ run[p].step = "created"
    /\ Save(p, [run[p].memory EXCEPT !.vmid = run[p].vmid], "creating")
    /\ UNCHANGED <<containers, uploads, templates, unrecorded, faults>>

\* The VMID is saved, and through the relay the task as well.  A command whose
\* operation was removed meanwhile knows of the container and cannot say so.
RecordsCreate(p) ==
    LET relay == run[p].memory.relay
        operation == [run[p].memory EXCEPT !.vmid = run[p].vmid,
                          !.task = IF relay THEN "create" ELSE "none"]
    IN  /\ run[p].step = "created"
        /\ Save(p, operation, "creating")
        /\ UNCHANGED <<containers, uploads, templates, unrecorded, faults>>

\* The creation's task ended; the next phase is saved.
CreateFinishes(p) ==
    LET v == run[p].vmid
        next == IF run[p].memory.relay THEN "untask" ELSE "bootstrap"
    IN  /\ run[p].step = "creating"
        /\ \/ /\ Has(v, run[p].box)
              /\ State(v) # "creating"
              /\ Save(p, run[p].memory, next)
           \/ /\ ~Has(v, run[p].box)
              /\ Exit(p)
              /\ UNCHANGED operations
        /\ UNCHANGED <<containers, uploads, templates, unrecorded, faults>>

-----------------------------------------------------------------------------
(***************************************************************************)
(* The guest over SSH, in `new` and in `repair`                            *)
(***************************************************************************)

\* The command reaches its own guest: the temporary key admits it, or the
\* agent does.
BySsh(p) ==
    /\ Has(run[p].vmid, run[p].box)
    /\ State(run[p].vmid) = "running"
    /\ containers[run[p].vmid].creds
ByAgent(p) ==
    /\ Has(run[p].vmid, run[p].box)
    /\ State(run[p].vmid) = "running"
    /\ containers[run[p].vmid].agent

\* bootstrap_box installs the agent and waits until it answers.
Bootstraps(p) ==
    /\ run[p].step = "bootstrap"
    /\ \/ /\ BySsh(p)
          /\ containers' = [containers EXCEPT ![run[p].vmid].agent = TRUE]
          /\ Goto(p, "installed")
       \/ /\ ~BySsh(p)
          /\ Exit(p)
          /\ UNCHANGED containers
    /\ UNCHANGED <<uploads, templates, operations, unrecorded, faults>>

\* Mutant: the operation is removed before the guest is cleaned.
RecordsReadyAndForgets(p) ==
    /\ run[p].step = "installed"
    /\ Forget(p)
    /\ UNCHANGED <<containers, uploads, templates, unrecorded, faults>>

RecordsReady(p) ==
    /\ run[p].step = "installed"
    /\ Save(p, [run[p].memory EXCEPT !.phase = "agent-ready"], "clean")
    /\ UNCHANGED <<containers, uploads, templates, unrecorded, faults>>

\* Mutant: no fallback to the agent.
CleansGuestBySsh(p) ==
    LET next == IF run[p].memory.phase = "guest-cleaned" THEN "forget"
                                                         ELSE "cleaned"
    IN  /\ run[p].step = "clean"
        /\ \/ /\ BySsh(p)
              /\ containers' = [containers EXCEPT ![run[p].vmid].creds = FALSE]
              /\ Goto(p, next)
           \/ /\ ~BySsh(p)
              /\ Exit(p)
              /\ UNCHANGED containers
        /\ UNCHANGED <<uploads, templates, operations, unrecorded, faults>>

\* cleanup_bootstrap_with_fallback: over SSH, else through the agent.
CleansGuest(p) ==
    LET next == IF run[p].memory.phase = "guest-cleaned" THEN "forget"
                                                         ELSE "cleaned"
    IN  /\ run[p].step = "clean"
        /\ \/ /\ BySsh(p) \/ ByAgent(p)
              /\ containers' = [containers EXCEPT ![run[p].vmid].creds = FALSE]
              /\ Goto(p, next)
           \/ /\ ~BySsh(p) /\ ~ByAgent(p)
              /\ Exit(p)
              /\ UNCHANGED containers
        /\ UNCHANGED <<uploads, templates, operations, unrecorded, faults>>

RecordsClean(p) ==
    LET operation == [run[p].memory EXCEPT !.vmid = run[p].vmid,
                          !.phase = "guest-cleaned"]
    IN  /\ run[p].step = "cleaned"
        /\ Save(p, operation, "forget")
        /\ UNCHANGED <<containers, uploads, templates, unrecorded, faults>>

\* key.cleanup at the end of a creation, a repair or a deletion.
Forgets(p) ==
    /\ run[p].step = "forget"
    /\ Forget(p)
    /\ UNCHANGED <<containers, uploads, templates, unrecorded, faults>>

-----------------------------------------------------------------------------
(***************************************************************************)
(* cleanup_template, in `new`, `repair` and `rm`, and the relay's wait     *)
(***************************************************************************)

\* get_task_status says `stopped`.
TaskStopped(b, task) ==
    CASE task = "upload" -> b \notin uploads
      [] task = "create" -> \A v \in Vmids : Has(v, b) => State(v) # "creating"
      [] task = "none"   -> TRUE

\* Goes on only when the recorded task has stopped.
Untasks(p) ==
    LET memory == run[p].memory
    IN  /\ run[p].step = "untask"
        /\ \/ /\ memory.task = "none"
              /\ Goto(p, "untemplate")
              /\ UNCHANGED operations
           \/ /\ memory.task # "none"
              /\ TaskStopped(run[p].box, memory.task)
              /\ Save(p, [memory EXCEPT !.task = "none"], "untemplate")
           \/ /\ ~TaskStopped(run[p].box, memory.task)
              /\ Exit(p)
              /\ UNCHANGED operations
        /\ UNCHANGED <<containers, uploads, templates, unrecorded, faults>>

AfterTemplate(p) == IF run[p].verb = "new" THEN "connect" ELSE "forget"

\* The template is deleted if PVE lists it, then the operation forgets it.
Untemplates(p) ==
    LET memory == run[p].memory
    IN  /\ run[p].step = "untemplate"
        /\ \/ /\ memory.template
              /\ templates' = templates \ {run[p].box}
              /\ Save(p, [memory EXCEPT !.template = FALSE], AfterTemplate(p))
           \/ /\ ~memory.template
              /\ Goto(p, AfterTemplate(p))
              /\ UNCHANGED <<templates, operations>>
        /\ UNCHANGED <<containers, uploads, unrecorded, faults>>

\* wait_ready: the agent of the box answers through the relay.
Connects(p) ==
    LET next == IF run[p].verb = "new" THEN "forget" ELSE "untask"
    IN  /\ run[p].step = "connect"
        /\ \/ /\ \E v \in Vmids : /\ Has(v, run[p].box)
                                  /\ State(v) = "running"
                                  /\ containers[v].agent
              /\ Goto(p, next)
           \/ /\ \A v \in Vmids : Has(v, run[p].box) => State(v) # "running"
              /\ Exit(p)
        /\ UNCHANGED <<containers, uploads, templates, operations, unrecorded,
                       faults>>

-----------------------------------------------------------------------------
(***************************************************************************)
(* pbox repair                                                             *)
(***************************************************************************)

\* find_pending reads the operation.
RepairBegins(p, b) ==
    /\ run[p] = Idle
    /\ operations[b] # None
    /\ run' = [run EXCEPT ![p] = [Idle EXCEPT !.verb = "repair", !.box = b,
                                      !.memory = operations[b], !.step = "look"]]
    /\ UNCHANGED <<containers, uploads, templates, operations, unrecorded, faults>>

\* discover_boxes lists the box at v.
RepairFinds(p, v) ==
    LET memory == run[p].memory
    IN  /\ run[p].step = "look"
        /\ Has(v, run[p].box)
        /\ \/ /\ memory.relay
              /\ State(v) = "running"
              /\ Goto(p, "connect")
           \/ /\ ~memory.relay
              /\ memory.vmid \in {None, v}
              /\ State(v) = "running"
              /\ run' = [run EXCEPT ![p].vmid = v, ![p].step = "enter"]
           \/ /\ \/ State(v) # "running"
                 \/ ~memory.relay /\ memory.vmid \notin {None, v}
              /\ Exit(p)
        /\ UNCHANGED <<containers, uploads, templates, operations, unrecorded,
                       faults>>

\* discover_boxes does not list the box: PVE has none, or one that is being
\* created and has no description yet.  While `new` still runs, or after it
\* saved more than the repair has read, the repair draws the wrong conclusion.
RepairMisses(p) ==
    LET b == run[p].box
        memory == run[p].memory
    IN  /\ run[p].step = "look"
        /\ \A v \in Vmids : Has(v, b) => State(v) = "creating"
        /\ \/ /\ memory.relay
              /\ Goto(p, "untask")
              /\ UNCHANGED operations
           \/ /\ ~memory.relay
              /\ memory.vmid = None
              /\ Forget(p)
           \/ /\ ~memory.relay
              /\ memory.vmid # None
              /\ Exit(p)
              /\ UNCHANGED operations
        /\ unrecorded' = IF Creating(b) \/ memory # operations[b]
                         THEN unrecorded \cup {b} ELSE unrecorded
        /\ UNCHANGED <<containers, uploads, templates, faults>>

\* The guest has an address; the phase says how much is left to do.
RepairEnters(p) ==
    LET memory == run[p].memory
        up == Has(run[p].vmid, run[p].box) /\ State(run[p].vmid) = "running"
    IN  /\ run[p].step = "enter"
        /\ \/ /\ up
              /\ memory.phase = "started" \/ (memory.phase = "agent-ready" /\ ~ByAgent(p))
              /\ Save(p, [memory EXCEPT !.vmid = run[p].vmid, !.phase = "started"],
                      "bootstrap")
           \/ /\ memory.phase # "started"
              /\ ByAgent(p)
              /\ Goto(p, "clean")
              /\ UNCHANGED operations
           \/ /\ ~up \/ (memory.phase = "guest-cleaned" /\ ~ByAgent(p))
              /\ Exit(p)
              /\ UNCHANGED operations
        /\ UNCHANGED <<containers, uploads, templates, unrecorded, faults>>

-----------------------------------------------------------------------------
(***************************************************************************)
(* pbox rm                                                                 *)
(***************************************************************************)

\* The box is found at v; with an operation pending the command waits.  (The
\* prompt for a confirmation comes after this, however long it takes.)
DeleteBegins(p, b, v) ==
    /\ run[p] = Idle
    /\ Has(v, b)
    /\ \E step \in (IF operations[b] # None THEN {"stop"} ELSE {"stop", "queue"}) :
           run' = [run EXCEPT ![p] = [Idle EXCEPT !.verb = "delete", !.box = b,
                                          !.vmid = v, !.step = step]]
    /\ UNCHANGED <<containers, uploads, templates, operations, unrecorded, faults>>

Destroy(v) == containers' = [containers EXCEPT ![v].state = "destroying"]

\* queue_delete: PVE stops and destroys whatever now has the VMID.
DeleteQueues(p) ==
    /\ run[p].step = "queue"
    /\ \/ /\ State(run[p].vmid) \in {"running", "stopped"}
          /\ Destroy(run[p].vmid)
       \/ /\ State(run[p].vmid) \notin {"running", "stopped"}
          /\ UNCHANGED containers
    /\ Exit(p)
    /\ UNCHANGED <<uploads, templates, operations, unrecorded, faults>>

\* delete_box: the guest is shut down first.
DeleteStops(p) ==
    LET v == run[p].vmid
    IN  /\ run[p].step = "stop"
        /\ \/ /\ State(v) = "running"
              /\ containers' = [containers EXCEPT ![v].state = "stopped"]
              /\ Goto(p, "destroy")
           \/ /\ State(v) \notin {"running", "absent"}
              /\ Goto(p, "destroy")
              /\ UNCHANGED containers
           \/ /\ State(v) = "absent"
              /\ Exit(p)
              /\ UNCHANGED containers
        /\ UNCHANGED <<uploads, templates, operations, unrecorded, faults>>

\* Mutant: the command does not wait for the task.
DeleteDestroysUnwatched(p) ==
    LET v == run[p].vmid
    IN  /\ run[p].step = "destroy"
        /\ \/ /\ State(v) = "stopped"
              /\ Destroy(v)
              /\ Goto(p, "pending")
           \/ /\ State(v) # "stopped"
              /\ Exit(p)
              /\ UNCHANGED containers
        /\ UNCHANGED <<uploads, templates, operations, unrecorded, faults>>

\* delete_lxc: PVE refuses a container that runs or is locked.
DeleteDestroys(p) ==
    LET v == run[p].vmid
    IN  /\ run[p].step = "destroy"
        /\ \/ /\ State(v) = "stopped"
              /\ Destroy(v)
              /\ Goto(p, "destroying")
           \/ /\ State(v) # "stopped"
              /\ Exit(p)
              /\ UNCHANGED containers
        /\ UNCHANGED <<uploads, templates, operations, unrecorded, faults>>

\* cleanup_pending_bootstrap reads the operation, if there is one.
DeleteCleans(p) ==
    LET b == run[p].box
    IN  /\ run[p].step = "pending"
        /\ \/ /\ operations[b] # None
              /\ run' = [run EXCEPT ![p].memory = operations[b], ![p].step = "untask"]
           \/ /\ operations[b] = None
              /\ Exit(p)
        /\ UNCHANGED <<containers, uploads, templates, operations, unrecorded,
                       faults>>

-----------------------------------------------------------------------------
(***************************************************************************)
(* Proxmox VE and the user's start of a box                                *)
(***************************************************************************)

UploadEnds(b) ==
    /\ b \in uploads
    /\ uploads' = uploads \ {b}
    /\ \/ templates' = templates \cup {b} /\ UNCHANGED faults
       \/ faults < MaxFaults /\ faults' = faults + 1 /\ UNCHANGED templates
    /\ UNCHANGED <<containers, operations, run, unrecorded>>

\* The container starts; or PVE keeps it stopped, or removes it again.
CreateEnds(v) ==
    /\ State(v) = "creating"
    /\ \/ /\ containers[v].agent => containers[v].box \in templates
          /\ containers' = [containers EXCEPT ![v].state = "running"]
          /\ UNCHANGED faults
       \/ /\ faults < MaxFaults
          /\ containers' \in {[containers EXCEPT ![v].state = "stopped"],
                              [containers EXCEPT ![v] = None]}
          /\ faults' = faults + 1
       \/ /\ containers[v].agent /\ containers[v].box \notin templates
          /\ containers' = [containers EXCEPT ![v] = None]
          /\ UNCHANGED faults
    /\ UNCHANGED <<uploads, templates, operations, run, unrecorded>>

\* The command that waits for the task learns how it ended.
DestroyEnds(v) ==
    /\ State(v) = "destroying"
    /\ LET waiting(p) == run[p].step = "destroying" /\ run[p].vmid = v
       IN  \/ /\ containers' = [containers EXCEPT ![v] = None]
              /\ run' = [p \in Commands |->
                     IF waiting(p) THEN [run[p] EXCEPT !.step = "pending"]
                                   ELSE run[p]]
              /\ UNCHANGED faults
           \/ /\ faults < MaxFaults
              /\ containers' = [containers EXCEPT ![v].state = "stopped"]
              /\ run' = [p \in Commands |-> IF waiting(p) THEN Idle ELSE run[p]]
              /\ faults' = faults + 1
    /\ UNCHANGED <<uploads, templates, operations, unrecorded>>

\* ensure_box_started, or someone at PVE.
GuestStarts(v) ==
    /\ State(v) = "stopped"
    /\ containers' = [containers EXCEPT ![v].state = "running"]
    /\ UNCHANGED <<uploads, templates, operations, run, unrecorded, faults>>

GuestStops(v) ==
    /\ State(v) = "running"
    /\ faults < MaxFaults
    /\ containers' = [containers EXCEPT ![v].state = "stopped"]
    /\ faults' = faults + 1
    /\ UNCHANGED <<uploads, templates, operations, run, unrecorded>>

\* A command is killed, or a step that changes nothing fails and the command
\* ends: a request refused, five minutes of waiting for a task, an agent that
\* does not answer.  What PVE has begun and was not saved yet stays unknown.
Killed(p) ==
    /\ run[p] # Idle
    /\ faults < MaxFaults
    /\ Exit(p)
    /\ unrecorded' = IF run[p].step \in {"uploaded", "created"}
                     THEN unrecorded \cup {run[p].box} ELSE unrecorded
    /\ faults' = faults + 1
    /\ UNCHANGED <<containers, uploads, templates, operations>>

\* Mutant: the operation is kept and marked complete.
CompletesEarly(p) ==
    /\ \/ run[p].step = "prepare"
       \/ run[p].step \in {"list", "create"} /\ ~run[p].memory.relay
    /\ faults < MaxFaults
    /\ operations[run[p].box] # None
    /\ operations' = [operations EXCEPT ![run[p].box].phase = "complete"]
    /\ Exit(p)
    /\ faults' = faults + 1
    /\ UNCHANGED <<containers, uploads, templates, unrecorded>>

\* An error before anything was asked of PVE removes the operation: building
\* the image, listing the VMIDs, a creation that PVE refuses.
FailsEarly(p) ==
    /\ \/ run[p].step = "prepare"
       \/ run[p].step \in {"list", "create"} /\ ~run[p].memory.relay
    /\ faults < MaxFaults
    /\ Forget(p)
    /\ faults' = faults + 1
    /\ UNCHANGED <<containers, uploads, templates, unrecorded>>

-----------------------------------------------------------------------------

Proceeds(p) ==
    \/ Uploads(p) \/ RecordsUpload(p) \/ UploadFinishes(p)
    \/ Lists(p) \/ Creates(p) \/ CreateConflicts(p) \/ CreateRefused(p)
    \/ RecordsCreate(p) \/ CreateFinishes(p)
    \/ Bootstraps(p) \/ RecordsReady(p) \/ CleansGuest(p) \/ RecordsClean(p)
    \/ Forgets(p) \/ Untasks(p) \/ Untemplates(p) \/ Connects(p)
    \/ \E v \in Vmids : RepairFinds(p, v)
    \/ RepairMisses(p) \/ RepairEnters(p)
    \/ DeleteQueues(p) \/ DeleteStops(p) \/ DeleteDestroys(p) \/ DeleteCleans(p)

Begins(p, b) ==
    \/ \E relay \in Relayed : NewBegins(p, b, relay)
    \/ RepairBegins(p, b)
    \/ \E v \in Vmids : DeleteBegins(p, b, v)

Breaks(p) == CreateUnheard(p) \/ Killed(p) \/ FailsEarly(p)

Next ==
    \/ \E p \in Commands : Proceeds(p) \/ Breaks(p) \/ \E b \in Boxes : Begins(p, b)
    \/ \E b \in Boxes : UploadEnds(b)
    \/ \E v \in Vmids : CreateEnds(v) \/ DestroyEnds(v) \/ GuestStarts(v) \/ GuestStops(v)

\* Commands run on, PVE ends its tasks, and the user starts a stopped box and
\* repairs a box whose creation was interrupted.
Fairness ==
    /\ \A p \in Commands : WF_vars(Proceeds(p))
    /\ \A b \in Boxes : /\ WF_vars(UploadEnds(b))
                        /\ SF_vars(\E p \in Commands : RepairBegins(p, b))
    /\ \A v \in Vmids : /\ WF_vars(CreateEnds(v))
                        /\ WF_vars(DestroyEnds(v))
                        /\ WF_vars(GuestStarts(v))

Spec == Init /\ [][Next]_vars /\ Fairness

-----------------------------------------------------------------------------

TypeOK ==
    /\ containers \in [Vmids -> Container \cup {None}]
    /\ uploads \subseteq Boxes
    /\ templates \subseteq Boxes
    /\ operations \in [Boxes -> Operation \cup {None}]
    /\ run \in [Commands ->
           [step: Steps, verb: {"none", "new", "repair", "delete"},
            box: Boxes \cup {None}, vmid: Vmids \cup {None},
            memory: Operation \cup {None}, occupied: SUBSET Vmids]]
    /\ unrecorded \subseteq Boxes
    /\ faults \in 0 .. MaxFaults

\* A container on its way: no agent yet, or the temporary key still in it, or
\* its private template still at PVE.
Unfinished(b) ==
    \E v \in Vmids : /\ Has(v, b)
                     /\ \/ ~containers[v].agent
                        \/ containers[v].creds
                        \/ b \in templates

\* PLAN.md: "Interrupted provisioning must retain enough state for repair."
\* An unfinished box has its operation, whatever commands run or were killed,
\* unless PVE did something of which the operation could not be told.
InterruptedRepairable ==
    \A b \in Boxes : Unfinished(b) => operations[b] # None \/ b \in unrecorded

\* The same without the exception.
ProvisioningRetained == \A b \in Boxes : Unfinished(b) => operations[b] # None

\* A private template, which holds credentials of the guest, never remains at
\* PVE without an operation that names it for deletion.
TemplateOwned ==
    \A b \in uploads \cup templates :
        \/ operations[b] # None /\ operations[b].template
        \/ b \in unrecorded

\* "Remove only this operation's private template after PVE has finished
\* extracting it" (cleanup_template): none is deleted under a creation.
TemplateKeptWhileRead ==
    \A v \in Vmids : State(v) = "creating" /\ containers[v].agent =>
        containers[v].box \in templates \cup unrecorded

\* A private template lives exactly as long as its operation needs it, but for a box
\* in `unrecorded`: PVE stored its upload, or ran its creation, without an operation
\* that could be told.
TemplateSafe == TemplateOwned /\ TemplateKeptWhileRead

\* Races for VMIDs and retries leave a box with one container at most (two
\* would make every command fail in discover_boxes).
NoDuplicateBox ==
    \A v, w \in Vmids : \A b \in Boxes : Has(v, b) /\ Has(w, b) => v = w

\* "cleanup only follows successful deletion" (run_delete): rm gives up the
\* recovery files only when the box is gone.
CleanupFollowsDeletion ==
    \A p \in Commands :
        run[p].verb = "delete"
            /\ run[p].step \in {"pending", "untask", "untemplate", "forget"}
        => \A v \in Vmids : ~Has(v, run[p].box)

\* Over SSH, an operation that recorded a VMID at which PVE has no such box:
\* neither repair nor rm finds it.
Stranded(b) ==
    /\ operations[b] # None
    /\ ~operations[b].relay
    /\ operations[b].vmid # None
    /\ \A v \in Vmids : ~Has(v, b)

\* A pending operation does not stay for ever: repair finishes it or removes
\* it, except one that is stranded.
PendingResolved ==
    \A b \in Boxes : operations[b] # None ~> operations[b] = None \/ Stranded(b)
=============================================================================
