---------------------------- MODULE RecipeApply ----------------------------
(***************************************************************************)
(* Applications of recipes to one box, from several machines: the          *)
(* temporary checkpoint, the Ansible run and its bridge to the agent       *)
(* (crates/pbox-cli/src/ansible.rs), the rollback and the provenance in    *)
(* the box's metadata (main.rs, run_recipe).  The local files of a run are *)
(* left out, but for the bridge's socket; the checkout is RecipeCache's.   *)
(***************************************************************************)
EXTENDS Naturals

CONSTANTS
    Applications, \* invocations of pbox recipe apply
    RecipeCount,  \* recipes of one application
    MaxBreaks     \* bound on killed invocations

ASSUME RecipeApplyAssumption == RecipeCount \in Nat \ {0} /\ MaxBreaks \in Nat

VARIABLES
    run,         \* run[c]: the invocation
    asked,       \* calls with an operation in their bridge
    checkpoints, \* calls whose temporary checkpoint exists
    metadata,    \* provenance in the box's description: an entry per recipe id
    settings,    \* snapshot-before-apply, rollback-on-failure, whether the storage
                 \* has snapshots and whether all apply the same recipes
    breaks

applyVars == <<run, asked, checkpoints, metadata, settings, breaks>>

ApplyInit ==
    /\ run = [c \in Applications |->
           [at |-> "finds_box", tries |-> 0, outcome |-> "none", done |-> 0, base |-> {},
            current |-> FALSE, told |-> FALSE, result |-> "none", broken |-> FALSE]]
    /\ asked = {} /\ checkpoints = {} /\ metadata = {}
    /\ settings \in [policy : {"never", "auto", "always"}, rollback : BOOLEAN, able : BOOLEAN,
                    shared : BOOLEAN]
    /\ breaks = 0

In(c, stages) == run[c].at \in stages
Puts(c, stage) == run' = [run EXCEPT ![c].at = stage]
----------------------------------------------------------------------------
(* create_recipe_snapshot.                                                 *)

WithoutCheckpoint(c) ==
    /\ In(c, {"finds_box"})
    /\ settings.policy = "never" \/ (settings.policy = "auto" /\ ~settings.able)
    /\ Puts(c, "plays")
    /\ UNCHANGED <<asked, checkpoints, metadata, settings, breaks>>

TakesCheckpoint(c) ==
    /\ In(c, {"finds_box"}) /\ settings.policy # "never" /\ settings.able
    /\ checkpoints' = checkpoints \cup {c}
    /\ Puts(c, "plays")
    /\ UNCHANGED <<asked, metadata, settings, breaks>>

\* The request or its task fails, having made a checkpoint or not; what is
\* left is removed, or named in the error.
CheckpointFails(c) ==
    /\ In(c, {"finds_box"}) /\ settings.policy # "never"
    /\ settings.able \/ settings.policy = "always"
    /\ \E left \in {{}, {c}} :
          /\ left # {} => settings.able
          /\ checkpoints' = checkpoints \cup left
          /\ run' = [run EXCEPT ![c].at = "records", ![c].outcome = "failed",
                                ![c].told = left # {}]
    /\ UNCHANGED <<asked, metadata, settings, breaks>>
----------------------------------------------------------------------------
(* ansible::apply_recipes.                                                 *)

\* A task has the bridge's thread run one "pbox exec" or "pbox scp".
TaskAsked(c) ==
    /\ In(c, {"plays"}) /\ c \notin asked /\ ~run[c].broken
    /\ asked' = asked \cup {c}
    /\ UNCHANGED <<run, checkpoints, metadata, settings, breaks>>

\* The operation ends in the box; it does so too when pbox was killed.
TaskRun(c) ==
    /\ c \in asked
    /\ asked' = asked \ {c}
    /\ UNCHANGED <<run, checkpoints, metadata, settings, breaks>>

\* ansible-playbook may fail, by its own timeout, with an operation under way.
AnsibleExits(c) ==
    /\ In(c, {"plays"})
    /\ \E outcome \in {"applied", "failed"} :
          /\ outcome = "applied" => c \notin asked
          /\ run' = [run EXCEPT ![c].at = "stops", ![c].outcome = outcome]
    /\ UNCHANGED <<asked, checkpoints, metadata, settings, breaks>>

\* bridge_loop returns: accept failed, or the join of a client thread that panicked.
\* The threads that still run are not joined.
BridgeBreaks(c) ==
    /\ In(c, {"plays", "stops"}) /\ ~run[c].broken
    /\ run' = [run EXCEPT ![c].broken = TRUE]
    /\ UNCHANGED <<asked, checkpoints, metadata, settings, breaks>>

\* BridgeHandle::stop joins the loop, which joins every client thread unless it has
\* returned with an error: that fails the run, whatever Ansible says.
BridgeStopped(c) ==
    /\ In(c, {"stops"})
    /\ \/ /\ ~run[c].broken /\ c \notin asked
          /\ Puts(c, IF run[c].outcome = "applied" THEN "records" ELSE "recovers")
       \/ /\ run[c].broken
          /\ run' = [run EXCEPT ![c].at = "recovers", ![c].outcome = "failed"]
    /\ UNCHANGED <<asked, checkpoints, metadata, settings, breaks>>
----------------------------------------------------------------------------
(* finish_recipe_failure and finish_recipe_success.                        *)

Recovers(c) ==
    /\ In(c, {"recovers"})
    /\ IF c \in checkpoints /\ settings.rollback
       THEN \E rolledBack \in BOOLEAN :
               run' = [run EXCEPT ![c].at = IF rolledBack THEN "removes" ELSE "records",
                                  ![c].told = ~rolledBack]
       ELSE run' = [run EXCEPT ![c].at = "records", ![c].told = c \in checkpoints]
    /\ UNCHANGED <<asked, checkpoints, metadata, settings, breaks>>

\* delete_recipe_snapshot, before a failure and after a success is recorded.
RemovesCheckpoint(c) ==
    /\ In(c, {"removes"})
    /\ \E removed \in BOOLEAN :
          /\ checkpoints' = IF removed THEN checkpoints \ {c} ELSE checkpoints
          /\ run' = [run EXCEPT ![c].told = ~removed,
                 ![c].at = IF run[c].outcome = "failed" THEN "records" ELSE "done",
                 ![c].result = IF run[c].outcome = "failed" THEN @
                               ELSE IF removed THEN "applied" ELSE "failed"]
    /\ UNCHANGED <<asked, metadata, settings, breaks>>

\* record_recipe_provenance: the description is read with its digest.
ReadsMetadata(c) ==
    /\ In(c, {"records"}) /\ run[c].tries < 3
    /\ run' = [run EXCEPT ![c].at = "writes", ![c].base = metadata, ![c].current = TRUE]
    /\ UNCHANGED <<asked, checkpoints, metadata, settings, breaks>>

\* The id of a recipe, told by the applications that name it.
Id(c, number) == [of |-> IF settings.shared THEN Applications ELSE {c}, number |-> number]

\* A failed application is recorded under the names of its recipes, joined.
Record(c) ==
    IF run[c].outcome = "failed"
    THEN [id |-> Id(c, IF RecipeCount = 1 THEN 1 ELSE 0), by |-> c, result |-> "failed"]
    ELSE [id |-> Id(c, run[c].done + 1), by |-> c, result |-> "success"]

\* The description c would write: an entry of the same id is replaced.
WithRecord(c) == {e \in run[c].base : e.id # Record(c).id} \cup {Record(c)}

\* run after c has written the description: every other digest is outdated.
Outdated(c) ==
    [d \in Applications |-> IF d = c THEN run[c] ELSE [run[d] EXCEPT !.current = FALSE]]

Recorded(c) ==
    /\ metadata' = WithRecord(c)
    /\ IF run[c].outcome = "failed"
       THEN run' = [Outdated(c) EXCEPT ![c].at = "done", ![c].result = "failed"]
       ELSE LET last == run[c].done + 1 = RecipeCount IN
            run' = [Outdated(c) EXCEPT ![c].done = @ + 1, ![c].tries = 0,
                ![c].at = CASE ~last -> "records"
                            [] last /\ c \in checkpoints -> "removes"
                            [] OTHER -> "done",
                ![c].result = IF last /\ c \notin checkpoints THEN "applied" ELSE @]

\* PVE takes the update if the digest is current.
WritesRecord(c) ==
    /\ In(c, {"writes"}) /\ run[c].current
    /\ Recorded(c)
    /\ UNCHANGED <<asked, checkpoints, settings, breaks>>

\* A failed read, a refused or an unheard update is tried again.
RecordWriteFails(c) ==
    /\ In(c, {"writes"})
    /\ \E unheard \in BOOLEAN :
          /\ unheard => run[c].current
          /\ metadata' = IF unheard THEN WithRecord(c) ELSE metadata
          /\ run' = [(IF unheard THEN Outdated(c) ELSE run) EXCEPT
                 ![c].at = "records", ![c].tries = @ + 1, ![c].current = FALSE]
    /\ UNCHANGED <<asked, checkpoints, settings, breaks>>

\* Three attempts, or a description that is not this box's.  Of a success the
\* error names the checkpoint if it was the last recipe's record that failed.
RecordFails(c) ==
    /\ In(c, {"records"})
    /\ run' = [run EXCEPT ![c].at = "done", ![c].result = "failed",
           ![c].told = @ \/ (run[c].outcome = "applied" /\ run[c].done + 1 = RecipeCount)]
    /\ UNCHANGED <<asked, checkpoints, metadata, settings, breaks>>

\* An interrupt or SIGKILL.
RunKilled(c) ==
    /\ breaks < MaxBreaks /\ ~In(c, {"done", "killed"})
    /\ breaks' = breaks + 1
    /\ Puts(c, "killed")
    /\ UNCHANGED <<asked, checkpoints, metadata, settings>>

ApplyNext ==
    \E c \in Applications :
       \/ WithoutCheckpoint(c) \/ TakesCheckpoint(c) \/ CheckpointFails(c)
       \/ TaskAsked(c) \/ TaskRun(c) \/ AnsibleExits(c) \/ BridgeBreaks(c)
       \/ BridgeStopped(c)
       \/ Recovers(c) \/ RemovesCheckpoint(c)
       \/ ReadsMetadata(c) \/ WritesRecord(c) \/ RecordWriteFails(c) \/ RecordFails(c)
       \/ RunKilled(c)

ApplySpec == ApplyInit /\ [][ApplyNext]_applyVars
----------------------------------------------------------------------------
ApplyTypeOK ==
    /\ \A c \in Applications :
          /\ In(c, {"finds_box", "plays", "stops", "recovers", "removes", "records",
                    "writes", "done", "killed"})
          /\ run[c].done \in 0 .. RecipeCount /\ run[c].tries \in 0 .. 3
    /\ asked \subseteq Applications /\ checkpoints \subseteq Applications
    /\ \A e \in metadata : e.id.number \in 0 .. RecipeCount /\ e.by \in Applications
    /\ breaks \in 0 .. MaxBreaks

\* The box's metadata has a record of c's i-th recipe: its success, or what another
\* application of the same recipe has put in its place.
Noted(c, i) ==
    \E e \in metadata :
        /\ e.id = Id(c, i)
        /\ e.by = c => e.result = "success"
        /\ e.by # c => settings.shared

\* Concurrent applications do not lose each other's provenance, though each writes the
\* whole description and may do so unheard: of one that reports success every recipe
\* stays noted, one of the same id alone replaces it, and its checkpoint is gone.
RunRecorded ==
    \A c \in Applications : run[c].result = "applied" =>
        /\ \A i \in 1 .. RecipeCount : Noted(c, i)
        /\ c \notin checkpoints

\* A checkpoint that stays behind is named by the error, except where the
\* record of an earlier one of several recipes failed (or pbox was killed).
CheckpointTold ==
    \A c \in checkpoints : In(c, {"done"}) =>
        run[c].told \/ (run[c].outcome = "applied" /\ run[c].done + 1 < RecipeCount)

\* No operation of a run is still to reach the box once its rollback or its
\* provenance is under way, but for one whose bridge broke: its threads were not
\* joined, and that run is never taken for a success.
BridgeQuiet ==
    \A c \in asked :
        \/ In(c, {"plays", "stops", "killed"})
        \/ run[c].broken /\ run[c].outcome = "failed"
=============================================================================
