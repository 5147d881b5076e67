---------------------------- MODULE ImageTemplates ----------------------------
(***************************************************************************)
(* Where a new box goes and how its image gets there (crates/pbox-cli/src/ *)
(* main.rs, images.rs, relay.rs): "pbox new" and "pbox image pull" choose a *)
(* node and its storages, use a template that is there, have Proxmox pull  *)
(* the image, or build an archive with podman and upload it; several       *)
(* commands at once, on a site that may change.                            *)
(***************************************************************************)
EXTENDS Naturals

CONSTANTS
    Preparations,  \* the commands
    Nodes,         \* numbers in the order of the nodes' names
    Storages,      \* the same of their storages
    Layouts,       \* what the storages of a node may hold
    Requests,          \* what a command may ask for
    MaxErrors,     \* requests and local commands that fail, commands killed
    MaxChanges     \* changes of the site

ASSUME TemplatesAssumption ==
    /\ Nodes \cup Storages \subseteq Nat \ {0} /\ {MaxErrors, MaxChanges} \subseteq Nat
    /\ Layouts \subseteq [Storages -> SUBSET {"rootdir", "vztmpl"}]
    /\ Requests \subseteq [kind : {"new", "relay", "pull"}, node : {0} \cup Nodes, given : BOOLEAN,
                       rootfs : BOOLEAN, root : {0} \cup Storages, tmpl : {0} \cup Storages]
    \* An existing template is no relay's, and is not pulled.
    /\ \A r \in Requests : r.given => r.kind = "new"

VARIABLES
    online,   \* the nodes Proxmox shows online
    site,     \* site[n][s]: what storage s of node n is active, enabled and good for
    skopeo,   \* Proxmox has what it needs to pull images
    natives,  \* templates of the image's own flavour in each template storage
    stored,   \* <<node, storage, form>>: pulled (.tar) and uploaded (.tar.zst) archives
    ask,      \* ask[c]: node and storages, 0 for "auto"; given: --ostemplate; rootfs: --rootfs
    prep,     \* prep[c]: the command, its task, and what it has left on this machine
    errors, changes

templateVars == <<online, site, skopeo, natives, stored, ask, prep, errors, changes>>
siteVars == <<online, site, skopeo, natives>>

TemplatesInit ==
    /\ online \in SUBSET Nodes
    /\ site \in [Nodes -> Layouts]
    /\ skopeo \in BOOLEAN /\ natives \in 0..2 /\ stored = {}
    /\ ask \in [Preparations -> Requests]
    /\ prep = [c \in Preparations |->
                  [at |-> "starts", node |-> 0, store |-> 0, root |-> 0, form |-> "none",
                   task |-> "none", why |-> "none", disturbed |-> FALSE,
                   workspace |-> FALSE, container |-> FALSE, litter |-> FALSE]]
    /\ errors = 0 /\ changes = 0

Settled(c) == prep[c].at \in {"done", "failed", "killed"}
Turns(c, becomes) == prep' = [prep EXCEPT ![c] = becomes]
TurnsTo(c, at) == Turns(c, [prep[c] EXCEPT !.at = at])
FailsWith(c, why) == Turns(c, [prep[c] EXCEPT !.at = "failed", !.why = why])
Blames == errors < MaxErrors /\ errors' = errors + 1
\* Only command c moves.
Alone == UNCHANGED <<siteVars, stored, ask, changes>>

LeastOf(S) == CHOOSE x \in S : \A y \in S : x <= y
\* storage_supports; setting 0 is "auto" (storage_matches_requirement).
Supporting(n, setting, content) ==
    {s \in Storages : content \in site[n][s] /\ setting \in {0, s}}
\* select_pve_storage: 0 when there is none.
Selected(n, setting, content) ==
    LET S == Supporting(n, setting, content) IN IF S = {} THEN 0 ELSE LeastOf(S)

NeedsRoot(c) == ask[c].kind # "pull" /\ ~ask[c].rootfs
NeedsTemplate(c) == ~ask[c].given
\* resolve_new_node, resolve_pve_node_with_storage
Fits(c, n) ==
    /\ n \in online
    /\ NeedsRoot(c) => Supporting(n, ask[c].root, "rootdir") # {}
    /\ NeedsTemplate(c) => Supporting(n, ask[c].tmpl, "vztmpl") # {}

\* The archive of command c is in the storage it selected.
Volume(c, form) == <<prep[c].node, prep[c].store, form>>
Present(c, form) == Volume(c, form) \in stored
----------------------------------------------------------------------------
(* The node and the storages.                                              *)

\* A node that is named is not looked at.
ResolvesNode(c) ==
    /\ prep[c].at = "starts"
    /\ LET N == {n \in Nodes : Fits(c, n)} IN
       IF ask[c].node = 0 /\ N = {} THEN FailsWith(c, "node")
       ELSE Turns(c, [prep[c] EXCEPT
                !.node = IF ask[c].node # 0 THEN ask[c].node ELSE LeastOf(N),
                !.form = IF ask[c].given THEN "given" ELSE "none",
                !.at = IF ask[c].given THEN "places" ELSE "selects"])
    /\ Alone /\ UNCHANGED errors

\* The storages are listed again; those of a node that is off cannot be.
SelectsStore(c) ==
    /\ prep[c].at = "selects"
    /\ LET s == Selected(prep[c].node, ask[c].tmpl, "vztmpl") IN
       IF prep[c].node \notin online THEN FailsWith(c, "request")
       ELSE IF s = 0 THEN FailsWith(c, "storage")
       ELSE Turns(c, [prep[c] EXCEPT
                !.store = s,
                !.at = CASE ask[c].kind = "new"   -> "finds"
                            [] ask[c].kind = "relay" -> "places"
                            [] ask[c].kind = "pull"  -> "checks"])
    /\ Alone /\ UNCHANGED errors

\* find_pve_template: one is used, of several none is chosen.
FindsNative(c) ==
    /\ prep[c].at = "finds"
    /\ CASE natives = 0 -> TurnsTo(c, "checks")
         [] natives = 1 -> Turns(c, [prep[c] EXCEPT !.at = "places", !.form = "native"])
         [] natives = 2 -> FailsWith(c, "ambiguous")
    /\ Alone /\ UNCHANGED errors

\* A new box is placed once its template is there, a pull is over.
Prepared(c) == IF ask[c].kind = "new" THEN "places" ELSE "done"
Uses(c, form) == Turns(c, [prep[c] EXCEPT !.at = Prepared(c), !.form = form])

\* The rootfs storage is selected from yet another listing.
Places(c) ==
    /\ prep[c].at = "places"
    /\ LET s == Selected(prep[c].node, ask[c].root, "rootdir") IN
       IF NeedsRoot(c) /\ prep[c].node \notin online THEN FailsWith(c, "request")
       ELSE IF NeedsRoot(c) /\ s = 0 THEN FailsWith(c, "storage")
       ELSE Turns(c, [prep[c] EXCEPT
                !.root = IF NeedsRoot(c) THEN s ELSE 0,
                !.at = IF ask[c].kind = "relay" THEN "builds" ELSE "done"])
    /\ Alone /\ UNCHANGED errors
----------------------------------------------------------------------------
(* Proxmox pulls the image.                                                *)

ChecksPresent(c) ==
    /\ prep[c].at = "checks"
    /\ IF Present(c, "pulled") THEN Uses(c, "pulled") ELSE TurnsTo(c, "asks")
    /\ Alone /\ UNCHANGED errors

\* Others at work on the volume of c.
InProgress(c) ==
    \E d \in Preparations : prep[d].task = "runs" /\ Volume(d, prep[d].form) = Volume(c, "pulled")

\* pull_oci_registry: refused where the file exists, if only in part.
AsksPull(c) ==
    /\ prep[c].at = "asks"
    /\ \/ skopeo /\ ~Present(c, "pulled")
          /\ Turns(c, [prep[c] EXCEPT !.at = "waits", !.form = "pulled", !.task = "runs"])
       \/ skopeo /\ (Present(c, "pulled") \/ InProgress(c))
          /\ Turns(c, [prep[c] EXCEPT !.at = "rechecks", !.form = "pulled",
                                  !.task = IF Present(c, "pulled") THEN "exists" ELSE "bad"])
       \/ ~skopeo /\ TurnsTo(c, "builds")
    /\ Alone /\ UNCHANGED errors

\* The task of c stores the volume, or fails; where it exists, it fails for that.
TaskEnds(c) ==
    /\ prep[c].task = "runs"
    /\ \/ /\ ~Present(c, prep[c].form)
          /\ stored' = stored \cup {Volume(c, prep[c].form)}
          /\ Turns(c, [prep[c] EXCEPT !.task = "ok"]) /\ UNCHANGED errors
       \/ /\ Present(c, prep[c].form)
          /\ Turns(c, [prep[c] EXCEPT !.task = "exists"]) /\ UNCHANGED <<errors, stored>>
       \/ Blames /\ Turns(c, [prep[c] EXCEPT !.task = "bad"]) /\ UNCHANGED stored
    /\ UNCHANGED <<siteVars, ask, changes>>

\* Mutant: the error of the task is the command's.
AwaitsOnce(c) ==
    /\ prep[c].at = "waits"
    /\ CASE prep[c].task = "ok"             -> Uses(c, prep[c].form) /\ UNCHANGED errors
         [] prep[c].task \in {"exists", "bad"} -> FailsWith(c, "task") /\ UNCHANGED errors
         [] prep[c].task = "runs"           -> Blames /\ TurnsTo(c, "rechecks")
    /\ Alone

\* wait_for_oci_template_task: a task that failed, or that the command gives up
\* on, may have found the volume there.
AwaitsTask(c) ==
    /\ prep[c].at = "waits"
    /\ CASE prep[c].task = "ok"             -> Uses(c, prep[c].form) /\ UNCHANGED errors
         [] prep[c].task \in {"exists", "bad"} -> TurnsTo(c, "rechecks") /\ UNCHANGED errors
         [] prep[c].task = "runs"           -> Blames /\ TurnsTo(c, "rechecks")
    /\ Alone

Rechecks(c) ==
    /\ prep[c].at = "rechecks"
    /\ IF Present(c, prep[c].form) THEN Uses(c, prep[c].form)
       ELSE FailsWith(c, IF prep[c].task = "runs" THEN "late" ELSE "task")
    /\ Alone /\ UNCHANGED errors
----------------------------------------------------------------------------
(* The image is built here (build_local_oci_archive); podman and zstd may   *)
(* fail, or are killed when they take too long.                            *)

\* create_local_oci_workspace
MakesWorkspace(c) ==
    /\ prep[c].at = "builds"
    /\ \/ Turns(c, [prep[c] EXCEPT !.at = "creates", !.workspace = TRUE]) /\ UNCHANGED errors
       \/ Blames /\ FailsWith(c, "build")
    /\ Alone

\* run_local_process: a command ends, well or not, or is killed at its timeout.
LocalCommand(well, badly) == (well /\ UNCHANGED errors) \/ (badly /\ Blames)

\* podman pull and podman create; what a create that is reported to have failed
\* has made is left.
CreatesContainer(c) ==
    /\ prep[c].at = "creates"
    /\ LocalCommand(
           Turns(c, [prep[c] EXCEPT !.at = "prepares", !.container = TRUE]),
           \E made \in BOOLEAN :
               Turns(c, [prep[c] EXCEPT !.at = "failed", !.why = "build",
                   !.workspace = FALSE, !.container = made, !.litter = TRUE]))
    /\ Alone

\* The container runs the preparation, is exported and compressed.
PreparesImage(c) ==
    /\ prep[c].at = "prepares"
    /\ LocalCommand(TurnsTo(c, "removes"),
                    Turns(c, [prep[c] EXCEPT !.at = "removes", !.why = "build"]))
    /\ Alone

\* podman rm whatever the preparation gave; then its error, if any, or rm's.
RemovesContainer(c) ==
    /\ prep[c].at = "removes"
    /\ \E gone \in BOOLEAN :
        /\ IF gone THEN UNCHANGED errors ELSE Blames
        /\ IF gone /\ prep[c].why = "none"
           THEN Turns(c, [prep[c] EXCEPT !.container = FALSE,
                    !.at = IF ask[c].kind = "relay" THEN "sends" ELSE "compares"])
           ELSE Turns(c, [prep[c] EXCEPT !.at = "failed", !.why = "build",
                    !.container = ~gone, !.litter = ~gone, !.workspace = FALSE])
    /\ Alone

\* upload_local_oci_template: an archive that is there is not uploaded again.
ChecksUploaded(c) ==
    /\ prep[c].at = "compares"
    /\ IF Present(c, "uploaded")
       THEN Turns(c, [prep[c] EXCEPT !.at = Prepared(c), !.form = "uploaded",
                                 !.workspace = FALSE])
       ELSE TurnsTo(c, "sends")
    /\ Alone /\ UNCHANGED errors

\* The upload is accepted, and the workspace removed whether or not it is.
UploadsArchive(c) ==
    /\ prep[c].at = "sends"
    /\ Turns(c, [prep[c] EXCEPT !.workspace = FALSE,
           !.at = IF ask[c].kind = "relay" THEN "done" ELSE "waits",
           !.form = IF ask[c].kind = "relay" THEN "private" ELSE "uploaded",
           !.task = IF ask[c].kind = "relay" THEN "none" ELSE "runs"])
    /\ Alone /\ UNCHANGED errors
----------------------------------------------------------------------------
(* What may go wrong, and the site.                                        *)

SiteRequestFails(c) ==
    /\ prep[c].at \in {"starts", "selects", "finds", "checks", "asks", "rechecks", "compares",
                       "sends", "places"}
    /\ Blames
    /\ Turns(c, [prep[c] EXCEPT !.at = "failed", !.why = "request", !.workspace = FALSE])
    /\ Alone

\* Nothing is undone: what is on this machine stays, a task goes on.
PreparationKilled(c) ==
    /\ ~Settled(c) /\ prep[c].at # "starts"
    /\ Blames /\ TurnsTo(c, "killed") /\ Alone

Disturbs == prep' = [c \in Preparations |->
                        [prep[c] EXCEPT !.disturbed = @ \/ prep[c].at # "starts"]]
Changes == changes < MaxChanges /\ changes' = changes + 1 /\ UNCHANGED <<ask, errors>> /\ Disturbs

NodeTurns(n) ==
    /\ online' = (online \ {n}) \cup ({n} \ online)
    /\ Changes /\ UNCHANGED <<site, stored, skopeo, natives>>

StorageChanges(n) ==
    /\ \E l \in Layouts : l # site[n] /\ site' = [site EXCEPT ![n] = l]
    /\ Changes /\ UNCHANGED <<online, stored, skopeo, natives>>

TemplateRemoved ==
    /\ \E v \in stored : stored' = stored \ {v}
    /\ Changes /\ UNCHANGED siteVars

PreparationStep(c) ==
    \/ ResolvesNode(c) \/ SelectsStore(c) \/ FindsNative(c) \/ Places(c) \/ ChecksPresent(c)
    \/ AsksPull(c) \/ TaskEnds(c) \/ AwaitsTask(c) \/ Rechecks(c) \/ MakesWorkspace(c)
    \/ CreatesContainer(c) \/ PreparesImage(c) \/ RemovesContainer(c) \/ ChecksUploaded(c)
    \/ UploadsArchive(c) \/ SiteRequestFails(c) \/ PreparationKilled(c)

TemplatesNext ==
    \/ \E n \in Nodes : NodeTurns(n) \/ StorageChanges(n)
    \/ TemplateRemoved
    \/ \E c \in Preparations : PreparationStep(c)

TemplatesSpec == TemplatesInit /\ [][TemplatesNext]_templateVars
----------------------------------------------------------------------------
TemplatesTypeOK ==
    /\ online \subseteq Nodes /\ site \in [Nodes -> Layouts] /\ ask \in [Preparations -> Requests]
    /\ stored \subseteq Nodes \X Storages \X {"pulled", "uploaded"}
    /\ \A c \in Preparations :
        /\ prep[c].node \in {0} \cup Nodes /\ {prep[c].store, prep[c].root} \subseteq {0} \cup Storages
        /\ prep[c].form \in {"none", "given", "native", "pulled", "uploaded", "private"}
        /\ prep[c].task \in {"none", "runs", "ok", "exists", "bad"}

\* As long as the site does not change behind a command, what it ends with is
\* so: the template is stored on the node it chose, and both storages are good
\* for what they are to hold and those that the settings name.
TemplateThere ==
    \A c \in Preparations : prep[c].at = "done" /\ ~prep[c].disturbed =>
        /\ prep[c].form \in {"pulled", "uploaded"} => Present(c, prep[c].form)
        /\ prep[c].form # "given" => prep[c].store \in Supporting(prep[c].node, ask[c].tmpl, "vztmpl")
        /\ NeedsRoot(c) => prep[c].root \in Supporting(prep[c].node, ask[c].root, "rootdir")

\* Nor does a command that chose the node by itself find out later, the image
\* pulled and built, that a storage it needs is not there.
ChoiceHolds ==
    \A c \in Preparations :
        ask[c].node = 0 /\ prep[c].why = "storage" => prep[c].disturbed

\* A command that comes second to store an image uses what the first stored.
RaceAbsorbed ==
    \A c \in Preparations :
        prep[c].task = "exists" /\ prep[c].why = "task" => prep[c].disturbed

\* A command that ends by itself, however it ends, leaves no workspace, and a
\* container only when podman could not create or remove it.
ScratchRemoved ==
    \A c \in Preparations : prep[c].at \in {"done", "failed"} =>
        ~prep[c].workspace /\ (prep[c].container => prep[c].litter)
=============================================================================
