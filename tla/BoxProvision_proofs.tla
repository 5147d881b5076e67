-------------------------- MODULE BoxProvision_proofs --------------------------
(***************************************************************************)
(* What creations, repairs and deletions leave behind when they interleave *)
(* and are interrupted, for any number of boxes, commands, VMIDs and       *)
(* faults.                                                                 *)
(***************************************************************************)
EXTENDS BoxProvision, TLAPS, WellFoundedInduction

-----------------------------------------------------------------------------
(***************************************************************************)
(* The inductive invariant                                                 *)
(***************************************************************************)

RunStates ==
    [step: Steps, verb: {"none", "new", "repair", "delete"},
     box: Boxes \cup {None}, vmid: Vmids \cup {None},
     memory: Operation \cup {None}, occupied: SUBSET Vmids]
Runs == [Commands -> RunStates]

Early == {"prepare", "uploaded", "uploading", "list", "create"}
SshSteps == {"enter", "bootstrap", "installed", "clean", "cleaned"}
TemplateSteps == {"untask", "untemplate", "forget"}
NewSteps ==
    Early \cup {"created", "creating", "connect"} \cup (SshSteps \ {"enter"})
          \cup TemplateSteps
RepairSteps == {"look", "connect"} \cup SshSteps \cup TemplateSteps
DeleteSteps == {"queue", "stop", "destroy", "destroying", "pending"} \cup TemplateSteps

Remembers(p) == run[p].verb \in {"new", "repair"} \/ run[p].step \in TemplateSteps
NewOf(p, b) == run[p].verb = "new" /\ run[p].box = b
EarlyNew(b) == \E p \in Commands : NewOf(p, b) /\ run[p].step \in Early
Absent(b) == \A v \in Vmids : ~Has(v, b)
Settled(b) == b \notin uploads \cup templates

\* A command's step fits its verb and the kind of its box.
Fitting ==
    \A p \in Commands :
        /\ \/ run[p].verb = "none" /\ run[p].step = "idle"
           \/ run[p].verb = "new" /\ run[p].step \in NewSteps
           \/ run[p].verb = "repair" /\ run[p].step \in RepairSteps
           \/ run[p].verb = "delete" /\ run[p].step \in DeleteSteps
        /\ run[p].verb # "none" => run[p].box \in Boxes
        /\ Remembers(p) <=> run[p].memory # None
        /\ run[p].verb \in {"new", "repair"} =>
            /\ run[p].step \in {"prepare", "uploaded", "uploading", "connect", "untask",
                                "untemplate"} => run[p].memory.relay
            /\ run[p].step \in SshSteps => ~run[p].memory.relay
        /\ run[p].verb = "delete" \/ run[p].step \in SshSteps \cup {"created", "creating"}
               => run[p].vmid \in Vmids
        /\ run[p].step \in {"creating", "bootstrap", "installed"} => run[p].memory.vmid # None
        /\ run[p].verb = "new" /\ run[p].memory.relay =>
            /\ run[p].step \in Early \cup {"created", "creating", "untask", "untemplate"} =>
                   run[p].memory.template
            /\ run[p].step = "creating" => run[p].memory.task = "create"

\* Only the creation of a box makes its container, and only one creation does.
Single ==
    /\ \A p, q \in Commands, b \in Boxes : NewOf(p, b) /\ NewOf(q, b) => p = q
    /\ NoDuplicateBox
    /\ \A b \in Boxes : EarlyNew(b) => Absent(b)

\* A deletion knows where the box is, or that it is gone.
Deleting ==
    \A p \in Commands :
        run[p].verb = "delete" =>
            /\ \A v \in Vmids : Has(v, run[p].box) => v = run[p].vmid
            /\ run[p].step \in {"pending"} \cup TemplateSteps => Absent(run[p].box)
            /\ ~EarlyNew(run[p].box)

\* All that is known of a box agrees on how it is created; one made over SSH has
\* no template, and one made of an image has its agent and no temporary key.
OfOneKind ==
    /\ \A p, q \in Commands :
           Remembers(p) /\ Remembers(q) /\ run[p].box = run[q].box =>
               (run[p].memory.relay <=> run[q].memory.relay)
    /\ \A p \in Commands :
           Remembers(p) =>
               /\ operations[run[p].box] # None =>
                      (operations[run[p].box].relay <=> run[p].memory.relay)
               /\ ~run[p].memory.relay =>
                      /\ Settled(run[p].box)
                      /\ ~run[p].memory.template /\ run[p].memory.task = "none"
               /\ run[p].memory.relay =>
                      \A v \in Vmids : Has(v, run[p].box) =>
                          containers[v].agent /\ ~containers[v].creds
    /\ \A b \in Boxes :
           operations[b] # None =>
               /\ ~operations[b].relay =>
                      /\ Settled(b)
                      /\ ~operations[b].template /\ operations[b].task = "none"
               /\ operations[b].relay =>
                      \A v \in Vmids : Has(v, b) =>
                          containers[v].agent /\ ~containers[v].creds

\* Over SSH, what a command that goes on has found or done in the guest.
GuestCleaned ==
    \A p \in Commands :
        /\ run[p].verb = "repair" /\ ~run[p].memory.relay
               /\ run[p].step \in SshSteps \cup {"forget"} => ~EarlyNew(run[p].box)
        /\ run[p].verb \in {"new", "repair"} /\ ~run[p].memory.relay =>
               \A v \in Vmids : Has(v, run[p].box) =>
                   /\ run[p].step \in {"installed", "clean", "cleaned", "forget"} =>
                          containers[v].agent
                   /\ run[p].step \in {"cleaned", "forget"} => ~containers[v].creds

\* The operation of a box of which everything could be told.
Recorded ==
    \A b \in Boxes \ unrecorded :
        /\ EarlyNew(b) => operations[b] # None
        /\ Unfinished(b) => operations[b] # None
        /\ operations[b] # None /\ ~operations[b].relay /\ operations[b].vmid = None
               /\ ~Absent(b)
               => \E p \in Commands : NewOf(p, b) /\ run[p].step = "created"

\* The private template and the tasks of such a box.
Uploaded ==
    \A b \in Boxes \ unrecorded :
        /\ b \in uploads \cup templates => operations[b] # None /\ operations[b].template
        /\ EarlyNew(b) =>
               /\ operations[b].relay => operations[b].template
               /\ operations[b] # None => operations[b].task # "create"
               /\ \A p \in Commands :
                      run[p].box = b /\ Remembers(p) =>
                          /\ run[p].memory.relay => run[p].memory.template
                          /\ run[p].memory.task # "create"
               /\ \A p \in Commands :
                      run[p].box = b => ~(run[p].verb = "repair"
                                          /\ run[p].step \in TemplateSteps)
        /\ ~Absent(b) => b \notin uploads
        /\ b \in uploads /\ operations[b].task = "none" =>
               \E p \in Commands : NewOf(p, b) /\ run[p].step = "uploaded"
        /\ operations[b] # None /\ operations[b].task = "create" => b \notin uploads
        /\ \A p \in Commands :
               NewOf(p, b) =>
                   /\ run[p].step \notin {"uploaded", "uploading"} => b \notin uploads
                   /\ run[p].step = "prepare" => b \notin templates
        /\ \A p \in Commands :
               run[p].box = b /\ Remembers(p) =>
                   /\ ~run[p].memory.template => Settled(b)
                   /\ run[p].memory.task = "create" => b \notin uploads
                   /\ run[p].step = "untask" /\ run[p].memory.task = "none" => b \notin uploads
                   /\ run[p].step = "untemplate" => b \notin uploads
                   /\ run[p].step = "forget" \/ (NewOf(p, b) /\ run[p].step = "connect") =>
                          Settled(b)

\* A creation that PVE runs has its template until its task is known to be over.
Extracting ==
    \A b \in Boxes \ unrecorded, v \in Vmids :
        Has(v, b) /\ State(v) = "creating" =>
            /\ containers[v].agent => b \in templates
            /\ operations[b] # None /\ operations[b].relay =>
                   \/ operations[b].task = "create"
                   \/ \E p \in Commands : NewOf(p, b) /\ run[p].step = "created"
            /\ \A p \in Commands :
                   run[p].box = b /\ run[p].step \in {"untask", "untemplate"} =>
                       run[p].step = "untask" /\ run[p].memory.task = "create"

IInv ==
    /\ TypeOK /\ Fitting /\ Single /\ Deleting
    /\ OfOneKind /\ GuestCleaned /\ Recorded /\ Uploaded /\ Extracting

-----------------------------------------------------------------------------
(***************************************************************************)
(* Effects of a step                                                       *)
(***************************************************************************)

OnlyMoves(p) == run' \in Runs /\ \A q \in Commands : q # p => run'[q] = run[q]

Becomes(p, step, verb, box, vmid, memory) ==
    /\ run'[p].step = step
    /\ run'[p].verb = verb
    /\ run'[p].box = box
    /\ run'[p].vmid = vmid
    /\ run'[p].memory = memory

\* The command goes on with the same box.
Advances(p, step) ==
    OnlyMoves(p) /\ Becomes(p, step, run[p].verb, run[p].box, run[p].vmid, run[p].memory)

Ends(p) == OnlyMoves(p) /\ Becomes(p, "idle", "none", None, None, None)

\* The operation of one box changes.
Records(b, operation) ==
    /\ operations' \in [Boxes -> Operation \cup {None}]
    /\ operations'[b] = operation
    /\ \A c \in Boxes : c # b => operations'[c] = operations[c]

\* The container at one VMID changes.
Alters(v) ==
    /\ containers' \in [Vmids -> Container \cup {None}]
    /\ \A w \in Vmids : w # v => containers'[w] = containers[w]

\* It is the one of the same box.
Keeps(v, state, agent, creds) ==
    /\ Alters(v)
    /\ containers[v] # None
    /\ containers'[v] # None
    /\ containers'[v].box = containers[v].box
    /\ containers'[v].state = state
    /\ containers'[v].agent = agent
    /\ containers'[v].creds = creds

\* A command that goes on changes its step only.
LEMMA GotoMoves ==
    ASSUME TypeOK, NEW p \in Commands, NEW s \in Steps, Goto(p, s)
    PROVE  Advances(p, s)
<1>1. run \in Runs /\ run[p] \in RunStates
    BY DEF TypeOK, Runs, RunStates
<1>2. run' = [run EXCEPT ![p].step = s]
    BY DEF Goto
<1>3. QED  BY <1>1, <1>2 DEF Advances, OnlyMoves, Becomes, Runs, RunStates

\* A command that ends leaves nothing behind but what it did.
LEMMA ExitMoves ==
    ASSUME TypeOK, NEW p \in Commands, Exit(p)
    PROVE  Ends(p)
<1>1. run \in Runs /\ Idle \in RunStates
    BY DEF TypeOK, Runs, RunStates, Idle, Steps
<1>2. QED  BY <1>1 DEF Exit, Idle, Ends, OnlyMoves, Becomes, Runs

\* A saved operation is both on disk and in the command's memory.
LEMMA SaveMoves ==
    ASSUME TypeOK, NEW p \in Commands, run[p].box \in Boxes,
           NEW operation \in Operation, NEW s \in Steps,
           Save(p, operation, s)
    PROVE  \/ /\ operations[run[p].box] # None
              /\ OnlyMoves(p)
              /\ Becomes(p, s, run[p].verb, run[p].box, run[p].vmid, operation)
              /\ Records(run[p].box, operation)
           \/ /\ operations[run[p].box] = None
              /\ Ends(p)
              /\ UNCHANGED operations
<1>1. run \in Runs /\ run[p] \in RunStates
    BY DEF TypeOK, Runs, RunStates
<1>2. CASE /\ operations[run[p].box] = None
           /\ Exit(p)
           /\ UNCHANGED operations
    BY <1>2, ExitMoves
<1>3. CASE /\ operations[run[p].box] # None
           /\ operations' = [operations EXCEPT ![run[p].box] = operation]
           /\ run' = [run EXCEPT ![p].memory = operation, ![p].step = s]
    <2>1. OnlyMoves(p) /\ Becomes(p, s, run[p].verb, run[p].box, run[p].vmid, operation)
        BY <1>1, <1>3 DEF OnlyMoves, Becomes, Runs, RunStates
    <2>2. Records(run[p].box, operation)
        BY <1>3 DEF Records, TypeOK
    <2>3. QED  BY <1>3, <2>1, <2>2
<1>4. QED  BY <1>2, <1>3 DEF Save

\* A command that forgets its operation ends.
LEMMA ForgetMoves ==
    ASSUME TypeOK, NEW p \in Commands, run[p].box \in Boxes, Forget(p)
    PROVE  Ends(p) /\ Records(run[p].box, None)
<1>1. Ends(p)
    BY ExitMoves DEF Forget
<1>2. Records(run[p].box, None)
    BY DEF Forget, Records, TypeOK
<1>3. QED  BY <1>1, <1>2

\* The number that the lowest free VMID is.
LEMMA CandidateIsFree ==
    ASSUME ProvisionAssumption, TypeOK, NEW p \in Commands, Candidate(p) # None
    PROVE  Candidate(p) \in Vmids
<1> DEFINE free == Vmids \ run[p].occupied
           R == OpToRel(<, Nat)
<1>1. free # {} /\ free \subseteq Nat
    BY DEF Candidate, ProvisionAssumption
<1>2. IsWellFoundedOn(R, Nat)
    BY NatLessThanWellFounded
<1>3. \A v, w \in Nat : <<w, v>> \in R <=> w < v
    BY DEF OpToRel
<1>4. Candidate(p) = CHOOSE v \in free : \A w \in free : v <= w
    BY <1>1 DEF Candidate
<1> HIDE DEF free, R
<1>5. \E v \in free : \A w \in free : ~(<<w, v>> \in R)
    BY <1>1, <1>2, WFMin
<1>6. \E v \in free : \A w \in free : v <= w
    <2>1. PICK v \in free : \A w \in free : ~(<<w, v>> \in R)
        BY <1>5
    <2>2. ASSUME NEW w \in free
          PROVE  v <= w
        <3>1. v \in Nat /\ w \in Nat
            BY <1>1
        <3>2. ~(w < v)
            BY <1>3, <2>1, <3>1
        <3>3. QED  BY <3>1, <3>2
    <2>3. QED  BY <2>2
<1>7. Candidate(p) \in free
    BY <1>4, <1>6
<1>8. QED  BY <1>7 DEF free

\* The operation as the command saves it, on disk and in its memory.
Saved(p, step, vmid, phase, template, task) ==
    /\ OnlyMoves(p)
    /\ Becomes(p, step, run[p].verb, run[p].box, run[p].vmid, run'[p].memory)
    /\ operations[run[p].box] # None
    /\ Records(run[p].box, run'[p].memory)
    /\ run'[p].memory # None
    /\ run'[p].memory.vmid = vmid
    /\ run'[p].memory.phase = phase
    /\ run'[p].memory.relay <=> run[p].memory.relay
    /\ run'[p].memory.template <=> template
    /\ run'[p].memory.task = task

Unsaved(p) == operations[run[p].box] = None /\ Ends(p) /\ UNCHANGED operations

\* Saving tells of the kind of the box what was told before, or ends the command.
LEMMA SaveAmends ==
    ASSUME TypeOK, NEW p \in Commands, run[p].box \in Boxes,
           NEW operation \in Operation, NEW s \in Steps,
           operation.relay = run[p].memory.relay,
           Save(p, operation, s)
    PROVE  \/ Saved(p, s, operation.vmid, operation.phase, operation.template,
                    operation.task)
           \/ Unsaved(p)
<1>1. operation # None
    BY NoneIsNoRecord
<1>2. QED
    BY <1>1, SaveMoves DEF Saved, Unsaved, Becomes

-----------------------------------------------------------------------------
(***************************************************************************)
(* The steps                                                               *)
(***************************************************************************)

\* A command that ends, and leaves PVE and its operation alone, loses nothing.
LEMMA EndKeeps ==
    ASSUME IInv, NEW p \in Commands, Ends(p),
           UNCHANGED <<containers, uploads, templates, operations>>,
           faults' \in 0 .. MaxFaults,
           unrecorded \subseteq unrecorded', unrecorded' \subseteq Boxes,
           run[p].step \in {"uploaded", "created"} =>
               run[p].box \in unrecorded' \/ operations[run[p].box] = None
    PROVE  IInv'
<1>0. /\ TypeOK /\ Fitting /\ Single /\ Deleting /\ OfOneKind /\ GuestCleaned
      /\ Recorded /\ Uploaded /\ Extracting
      /\ None \notin Boxes \cup Vmids \cup Operation \cup Container
    BY ProvisionAssumption, NoneIsNoRecord DEF IInv
<1> USE DEF OnlyMoves, Becomes, Ends,
           Early, SshSteps, TemplateSteps, NewSteps, RepairSteps, DeleteSteps,
           EarlyNew, NewOf, Absent, Settled, Has, Remembers
<1>1. TypeOK'  BY <1>0 DEF TypeOK, Runs, RunStates
<1>2. Fitting'  BY <1>0 DEF Fitting
<1>3. Single'  BY <1>0 DEF Fitting, Single, NoDuplicateBox
<1>4. Deleting'  BY <1>0 DEF Fitting, Single, NoDuplicateBox, Deleting
<1>5. OfOneKind'  BY <1>0 DEF Fitting, Single, OfOneKind
<1>6. GuestCleaned'  BY <1>0 DEF Fitting, Single, NoDuplicateBox, OfOneKind, GuestCleaned
<1>7. Recorded'
    BY <1>0 DEF Fitting, Single, Deleting, OfOneKind, GuestCleaned, Recorded,
       Uploaded, Unfinished
<1>8. Uploaded'
    BY <1>0 DEF Fitting, Single, Deleting, OfOneKind, GuestCleaned, Recorded, Uploaded
<1>9. Extracting'
    BY <1>0 DEF Fitting, Single, NoDuplicateBox, Deleting, OfOneKind, Recorded,
       Uploaded, Extracting, State
<1>10. QED  BY <1>1, <1>2, <1>3, <1>4, <1>5, <1>6, <1>7, <1>8, <1>9 DEF IInv

\* A creation begins with a box that nothing refers to.
LEMMA NewBeginsKeeps ==
    ASSUME IInv, NEW p \in Commands, NEW b \in Boxes, NEW relay \in Relayed,
           NewBegins(p, b, relay)
    PROVE  IInv'
<1>0. /\ TypeOK /\ Fitting /\ Single /\ Deleting /\ OfOneKind /\ GuestCleaned
      /\ Recorded /\ Uploaded /\ Extracting
      /\ None \notin Boxes \cup Vmids \cup Operation \cup Container
    BY ProvisionAssumption, NoneIsNoRecord DEF IInv
<1> USE DEF OnlyMoves, Becomes, Advances, Ends, Records, Alters, Keeps, Saved,
           Early, SshSteps, TemplateSteps, NewSteps, RepairSteps, DeleteSteps,
           EarlyNew, NewOf, Absent, Settled, Has, Remembers
<1> DEFINE operation == [vmid |-> None, phase |-> "started", relay |-> relay,
                         template |-> relay, task |-> "none"]
           step == IF relay THEN "prepare" ELSE "list"
           state == [Idle EXCEPT !.verb = "new", !.box = b, !.memory = operation,
                                 !.step = step]
<1>1. relay \in BOOLEAN /\ run[p] = Idle /\ Blank(b)
    BY ProvisionAssumption DEF NewBegins
<1>2. operation \in Operation
    BY <1>1 DEF Operation, Phases
<1>3. /\ state \in RunStates
      /\ state.step = step /\ state.verb = "new" /\ state.box = b
      /\ state.vmid = None /\ state.memory = operation
    BY <1>2, <1>1 DEF RunStates, Idle, Steps
<1>4. /\ run' = [run EXCEPT ![p] = state]
      /\ operations' = [operations EXCEPT ![b] = operation]
    BY DEF NewBegins
<1>5. /\ operation # None /\ operation.vmid = None /\ (operation.relay <=> relay)
      /\ (operation.template <=> relay) /\ operation.task = "none"
    BY <1>0, <1>2
<1>6. step \in {"prepare", "list"} /\ (relay <=> step = "prepare")
    OBVIOUS
<1>7. run[p].step = "idle" /\ run[p].verb = "none" /\ run[p].box = None
    BY <1>1 DEF Idle
<1>8. /\ unrecorded' = unrecorded \ {b}
      /\ UNCHANGED <<containers, uploads, templates, faults>>
    BY DEF NewBegins
<1>9. /\ operations[b] = None /\ Settled(b) /\ Absent(b)
      /\ \A q \in Commands : run[q].box # b
    BY <1>1 DEF Blank, Settled, Absent
<1> HIDE DEF operation, step, state
<1>10. OnlyMoves(p) /\ Becomes(p, step, "new", b, None, operation)
    BY <1>0, <1>3, <1>4 DEF TypeOK, Runs, RunStates
<1>11. Records(b, operation)
    BY <1>0, <1>2, <1>4 DEF TypeOK
<1>12. TypeOK'
    BY <1>0, <1>1, <1>5, <1>6, <1>7, <1>8, <1>9, <1>10, <1>11 DEF TypeOK, Runs,
       RunStates
<1>13. Fitting'  BY <1>0, <1>1, <1>5, <1>6, <1>7, <1>8, <1>9, <1>10, <1>11 DEF Fitting
<1>14. Single'
    BY <1>0, <1>1, <1>5, <1>6, <1>7, <1>8, <1>9, <1>10, <1>11 DEF Fitting, Single,
       NoDuplicateBox
<1>15. Deleting'
    BY <1>0, <1>1, <1>5, <1>6, <1>7, <1>8, <1>9, <1>10, <1>11 DEF Fitting, Single,
       NoDuplicateBox, Deleting
<1>16. OfOneKind'
    BY <1>0, <1>1, <1>5, <1>6, <1>7, <1>8, <1>9, <1>10, <1>11 DEF Fitting, Single,
       OfOneKind
<1>17. GuestCleaned'
    BY <1>0, <1>1, <1>5, <1>6, <1>7, <1>8, <1>9, <1>10, <1>11 DEF Fitting, Single,
       NoDuplicateBox, OfOneKind, GuestCleaned
<1>18. Recorded'
    BY <1>0, <1>1, <1>5, <1>6, <1>7, <1>8, <1>9, <1>10, <1>11 DEF Fitting, Single,
       Deleting, OfOneKind, GuestCleaned, Recorded, Uploaded, Unfinished
<1>19. Uploaded'
    BY <1>0, <1>1, <1>5, <1>6, <1>7, <1>8, <1>9, <1>10, <1>11 DEF Fitting, Single,
       Deleting, OfOneKind, GuestCleaned, Recorded, Uploaded
<1>20. Extracting'
    BY <1>0, <1>1, <1>5, <1>6, <1>7, <1>8, <1>9, <1>10, <1>11 DEF Fitting, Single,
       NoDuplicateBox, Deleting, OfOneKind, Recorded, Uploaded, Extracting, State
<1>21. QED  BY <1>12, <1>13, <1>14, <1>15, <1>16, <1>17, <1>18, <1>19, <1>20 DEF IInv

\* PVE stores a template of a box whose operation names it.
LEMMA UploadsKeeps ==
    ASSUME IInv, NEW p \in Commands, Uploads(p)
    PROVE  IInv'
<1>0. /\ TypeOK /\ Fitting /\ Single /\ Deleting /\ OfOneKind /\ GuestCleaned
      /\ Recorded /\ Uploaded /\ Extracting
      /\ None \notin Boxes \cup Vmids \cup Operation \cup Container
    BY ProvisionAssumption, NoneIsNoRecord DEF IInv
<1> USE DEF OnlyMoves, Becomes, Advances, Ends, Records, Alters, Keeps, Saved,
           Early, SshSteps, TemplateSteps, NewSteps, RepairSteps, DeleteSteps,
           EarlyNew, NewOf, Absent, Settled, Has, Remembers
<1>1. CASE /\ run[p].step = "prepare"
           /\ uploads' = uploads \cup {run[p].box}
           /\ Goto(p, "uploaded")
           /\ UNCHANGED <<containers, templates, operations, unrecorded, faults>>
    <2>1. Advances(p, "uploaded")
        BY <1>0, <1>1, GotoMoves DEF Steps
    <2>2. run[p].box \in Boxes /\ run[p].verb = "new" /\ run[p].memory # None /\ run[p].memory.relay
        BY <1>0, <1>1 DEF Fitting, Remembers
    <2>3. TypeOK'  BY <1>0, <1>1, <2>1, <2>2 DEF TypeOK, Runs, RunStates
    <2>4. Fitting'  BY <1>0, <1>1, <2>1, <2>2 DEF Fitting
    <2>5. Single'  BY <1>0, <1>1, <2>1, <2>2 DEF Fitting, Single, NoDuplicateBox
    <2>6. Deleting'  BY <1>0, <1>1, <2>1, <2>2 DEF Fitting, Single, NoDuplicateBox, Deleting
    <2>7. OfOneKind'  BY <1>0, <1>1, <2>1, <2>2 DEF Fitting, Single, OfOneKind
    <2>8. GuestCleaned'
        BY <1>0, <1>1, <2>1, <2>2 DEF Fitting, Single, NoDuplicateBox, OfOneKind,
           GuestCleaned
    <2>9. Recorded'
        BY <1>0, <1>1, <2>1, <2>2 DEF Fitting, Single, Deleting, OfOneKind,
           GuestCleaned, Recorded, Uploaded, Unfinished
    <2>10. Uploaded'
        BY <1>0, <1>1, <2>1, <2>2 DEF Fitting, Single, Deleting, OfOneKind,
           GuestCleaned, Recorded, Uploaded
    <2>11. Extracting'
        BY <1>0, <1>1, <2>1, <2>2 DEF Fitting, Single, NoDuplicateBox, Deleting,
           OfOneKind, Recorded, Uploaded, Extracting, State
    <2>12. QED  BY <2>3, <2>4, <2>5, <2>6, <2>7, <2>8, <2>9, <2>10, <2>11 DEF IInv
<1>2. QED
    BY <1>1 DEF Uploads

\* The task of the upload is recorded before anything else is done.
LEMMA RecordsUploadKeeps ==
    ASSUME IInv, NEW p \in Commands, RecordsUpload(p)
    PROVE  IInv'
<1>0. /\ TypeOK /\ Fitting /\ Single /\ Deleting /\ OfOneKind /\ GuestCleaned
      /\ Recorded /\ Uploaded /\ Extracting
      /\ None \notin Boxes \cup Vmids \cup Operation \cup Container
    BY ProvisionAssumption, NoneIsNoRecord DEF IInv
<1> USE DEF OnlyMoves, Becomes, Advances, Ends, Records, Alters, Keeps, Saved,
           Early, SshSteps, TemplateSteps, NewSteps, RepairSteps, DeleteSteps,
           EarlyNew, NewOf, Absent, Settled, Has, Remembers
<1>1. CASE /\ run[p].step = "uploaded"
           /\ Save(p, [run[p].memory EXCEPT !.task = "upload"], "uploading")
           /\ UNCHANGED <<containers, uploads, templates, unrecorded, faults>>
    <2> DEFINE operation == [run[p].memory EXCEPT !.task = "upload"]
    <2>1. run[p].box \in Boxes /\ run[p].memory \in Operation
        BY <1>0, <1>1 DEF TypeOK, Fitting, Remembers
    <2>2. /\ operation \in Operation
          /\ operation.vmid = run[p].memory.vmid
          /\ operation.phase = run[p].memory.phase
          /\ operation.relay = run[p].memory.relay
          /\ operation.template = run[p].memory.template
          /\ operation.task = "upload"
        BY <1>0, <1>1, <2>1 DEF Operation, Phases, TypeOK, Fitting
    <2> HIDE DEF operation
    <2>3. Save(p, operation, "uploading")
        BY <1>1 DEF operation
    <2>4. Saved(p, "uploading", run[p].memory.vmid, run[p].memory.phase, run[p].memory.template, "upload") \/ Unsaved(p)
        BY <1>0, <2>1, <2>2, <2>3, SaveAmends DEF Steps
    <2>5. CASE Unsaved(p)
        BY <1>0, <1>1, <2>5, EndKeeps DEF Unsaved, TypeOK
    <2>6. CASE Saved(p, "uploading", run[p].memory.vmid, run[p].memory.phase, run[p].memory.template, "upload")
        <3>1. TypeOK'  BY <1>0, <1>1, <2>1, <2>6 DEF TypeOK, Runs, RunStates
        <3>2. Fitting'  BY <1>0, <1>1, <2>1, <2>6 DEF Fitting
        <3>3. Single'  BY <1>0, <1>1, <2>1, <2>6 DEF Fitting, Single, NoDuplicateBox
        <3>4. Deleting'
            BY <1>0, <1>1, <2>1, <2>6 DEF Fitting, Single, NoDuplicateBox, Deleting
        <3>5. OfOneKind'  BY <1>0, <1>1, <2>1, <2>6 DEF Fitting, Single, OfOneKind
        <3>6. GuestCleaned'
            BY <1>0, <1>1, <2>1, <2>6 DEF Fitting, Single, NoDuplicateBox, OfOneKind,
               GuestCleaned
        <3>7. Recorded'
            BY <1>0, <1>1, <2>1, <2>6 DEF Fitting, Single, Deleting, OfOneKind,
               GuestCleaned, Recorded, Uploaded, Unfinished
        <3>8. Uploaded'
            BY <1>0, <1>1, <2>1, <2>6 DEF Fitting, Single, Deleting, OfOneKind,
               GuestCleaned, Recorded, Uploaded
        <3>9. Extracting'
            BY <1>0, <1>1, <2>1, <2>6 DEF Fitting, Single, NoDuplicateBox, Deleting,
               OfOneKind, Recorded, Uploaded, Extracting, State
        <3>10. QED  BY <3>1, <3>2, <3>3, <3>4, <3>5, <3>6, <3>7, <3>8, <3>9 DEF IInv
    <2>7. QED  BY <2>4, <2>5, <2>6
<1>2. QED
    BY <1>1 DEF RecordsUpload

\* The creation goes on once its upload is over.
LEMMA UploadFinishesKeeps ==
    ASSUME IInv, NEW p \in Commands, UploadFinishes(p)
    PROVE  IInv'
<1>0. /\ TypeOK /\ Fitting /\ Single /\ Deleting /\ OfOneKind /\ GuestCleaned
      /\ Recorded /\ Uploaded /\ Extracting
      /\ None \notin Boxes \cup Vmids \cup Operation \cup Container
    BY ProvisionAssumption, NoneIsNoRecord DEF IInv
<1> USE DEF OnlyMoves, Becomes, Advances, Ends, Records, Alters, Keeps, Saved,
           Early, SshSteps, TemplateSteps, NewSteps, RepairSteps, DeleteSteps,
           EarlyNew, NewOf, Absent, Settled, Has, Remembers
<1>1. CASE /\ run[p].step = "uploading"
           /\ run[p].box \notin uploads
           /\ run[p].box \in templates
           /\ Save(p, run[p].memory, "list")
           /\ UNCHANGED <<containers, uploads, templates, unrecorded, faults>>
    <2> DEFINE operation == run[p].memory
    <2>1. run[p].box \in Boxes /\ run[p].memory \in Operation
        BY <1>0, <1>1 DEF TypeOK, Fitting, Remembers
    <2>2. /\ operation \in Operation
          /\ operation.vmid = run[p].memory.vmid
          /\ operation.phase = run[p].memory.phase
          /\ operation.relay = run[p].memory.relay
          /\ operation.template = run[p].memory.template
          /\ operation.task = run[p].memory.task
        BY <1>0, <1>1, <2>1 DEF Operation, Phases, TypeOK, Fitting
    <2> HIDE DEF operation
    <2>3. Save(p, operation, "list")
        BY <1>1 DEF operation
    <2>4. Saved(p, "list", run[p].memory.vmid, run[p].memory.phase, run[p].memory.template, run[p].memory.task) \/ Unsaved(p)
        BY <1>0, <2>1, <2>2, <2>3, SaveAmends DEF Steps
    <2>5. CASE Unsaved(p)
        BY <1>0, <1>1, <2>5, EndKeeps DEF Unsaved, TypeOK
    <2>6. CASE Saved(p, "list", run[p].memory.vmid, run[p].memory.phase, run[p].memory.template, run[p].memory.task)
        <3>1. TypeOK'  BY <1>0, <1>1, <2>1, <2>6 DEF TypeOK, Runs, RunStates
        <3>2. Fitting'  BY <1>0, <1>1, <2>1, <2>6 DEF Fitting
        <3>3. Single'  BY <1>0, <1>1, <2>1, <2>6 DEF Fitting, Single, NoDuplicateBox
        <3>4. Deleting'
            BY <1>0, <1>1, <2>1, <2>6 DEF Fitting, Single, NoDuplicateBox, Deleting
        <3>5. OfOneKind'  BY <1>0, <1>1, <2>1, <2>6 DEF Fitting, Single, OfOneKind
        <3>6. GuestCleaned'
            BY <1>0, <1>1, <2>1, <2>6 DEF Fitting, Single, NoDuplicateBox, OfOneKind,
               GuestCleaned
        <3>7. Recorded'
            BY <1>0, <1>1, <2>1, <2>6 DEF Fitting, Single, Deleting, OfOneKind,
               GuestCleaned, Recorded, Uploaded, Unfinished
        <3>8. Uploaded'
            BY <1>0, <1>1, <2>1, <2>6 DEF Fitting, Single, Deleting, OfOneKind,
               GuestCleaned, Recorded, Uploaded
        <3>9. Extracting'
            BY <1>0, <1>1, <2>1, <2>6 DEF Fitting, Single, NoDuplicateBox, Deleting,
               OfOneKind, Recorded, Uploaded, Extracting, State
        <3>10. QED  BY <3>1, <3>2, <3>3, <3>4, <3>5, <3>6, <3>7, <3>8, <3>9 DEF IInv
    <2>7. QED  BY <2>4, <2>5, <2>6
<1>2. CASE /\ run[p].step = "uploading"
           /\ Exit(p)
           /\ UNCHANGED <<containers, uploads, templates, operations, unrecorded, faults>>
    <2>1. Ends(p)
        BY <1>0, <1>2, ExitMoves
    <2>2. QED
        BY <1>0, <1>2, <2>1, EndKeeps DEF TypeOK
<1>3. QED
    BY <1>1, <1>2 DEF UploadFinishes

\* Listing changes nothing that the invariant speaks of.
LEMMA ListsKeeps ==
    ASSUME IInv, NEW p \in Commands, Lists(p)
    PROVE  IInv'
<1>0. /\ TypeOK /\ Fitting /\ Single /\ Deleting /\ OfOneKind /\ GuestCleaned
      /\ Recorded /\ Uploaded /\ Extracting
      /\ None \notin Boxes \cup Vmids \cup Operation \cup Container
    BY ProvisionAssumption, NoneIsNoRecord DEF IInv
<1> USE DEF OnlyMoves, Becomes, Advances, Ends, Records, Alters, Keeps, Saved,
           Early, SshSteps, TemplateSteps, NewSteps, RepairSteps, DeleteSteps,
           EarlyNew, NewOf, Absent, Settled, Has, Remembers
<1>1. CASE /\ run[p].step = "list"
           /\ run' = [run EXCEPT ![p].occupied = Occupied, ![p].step = "create"]
           /\ UNCHANGED <<containers, uploads, templates, operations, unrecorded, faults>>
    <2>1. run \in Runs /\ run[p] \in RunStates /\ Occupied \in SUBSET Vmids
        BY <1>0 DEF TypeOK, Runs, RunStates, Occupied
    <2>2. Advances(p, "create")
        BY <1>1, <2>1 DEF Runs, RunStates, Steps
    <2>3. run[p].step = "list" /\ UNCHANGED <<containers, uploads, templates, operations, unrecorded, faults>>
        BY <1>1
    <2>4. TypeOK'  BY <1>0, <2>2, <2>3 DEF TypeOK, Runs, RunStates
    <2>5. Fitting'  BY <1>0, <2>2, <2>3 DEF Fitting
    <2>6. Single'  BY <1>0, <2>2, <2>3 DEF Fitting, Single, NoDuplicateBox
    <2>7. Deleting'  BY <1>0, <2>2, <2>3 DEF Fitting, Single, NoDuplicateBox, Deleting
    <2>8. OfOneKind'  BY <1>0, <2>2, <2>3 DEF Fitting, Single, OfOneKind
    <2>9. GuestCleaned'
        BY <1>0, <2>2, <2>3 DEF Fitting, Single, NoDuplicateBox, OfOneKind, GuestCleaned
    <2>10. Recorded'
        BY <1>0, <2>2, <2>3 DEF Fitting, Single, Deleting, OfOneKind, GuestCleaned,
           Recorded, Uploaded, Unfinished
    <2>11. Uploaded'
        BY <1>0, <2>2, <2>3 DEF Fitting, Single, Deleting, OfOneKind, GuestCleaned,
           Recorded, Uploaded
    <2>12. Extracting'
        BY <1>0, <2>2, <2>3 DEF Fitting, Single, NoDuplicateBox, Deleting, OfOneKind,
           Recorded, Uploaded, Extracting, State
    <2>13. QED  BY <2>4, <2>5, <2>6, <2>7, <2>8, <2>9, <2>10, <2>11, <2>12 DEF IInv
<1>2. QED
    BY <1>1 DEF Lists

\* Only the creation of a box that has no container makes one.
LEMMA CreatesKeeps ==
    ASSUME IInv, NEW p \in Commands, Creates(p)
    PROVE  IInv'
<1>0. /\ TypeOK /\ Fitting /\ Single /\ Deleting /\ OfOneKind /\ GuestCleaned
      /\ Recorded /\ Uploaded /\ Extracting
      /\ None \notin Boxes \cup Vmids \cup Operation \cup Container
    BY ProvisionAssumption, NoneIsNoRecord DEF IInv
<1> USE DEF OnlyMoves, Becomes, Advances, Ends, Records, Alters, Keeps, Saved,
           Early, SshSteps, TemplateSteps, NewSteps, RepairSteps, DeleteSteps,
           EarlyNew, NewOf, Absent, Settled, Has, Remembers
<1>1. CASE /\ run[p].step = "create"
           /\ Accepts(p)
           /\ containers' = [containers EXCEPT ![Candidate(p)] = NewContainer(p)]
           /\ run' = [run EXCEPT ![p].vmid = Candidate(p), ![p].step = "created"]
           /\ UNCHANGED <<uploads, templates, operations, unrecorded, faults>>
    <2>1. run[p].box \in Boxes /\ run[p].memory \in Operation
        BY <1>0, <1>1 DEF TypeOK, Fitting, Remembers
    <2>2. NewContainer(p) \in Container /\ Candidate(p) \in Vmids
        <3>1. run[p].memory.relay \in BOOLEAN
            BY <2>1 DEF Operation
        <3>2. NewContainer(p) \in Container
            BY <2>1, <3>1 DEF NewContainer, Container
        <3>3. Candidate(p) \in Vmids
            BY <1>0, <1>1, CandidateIsFree, ProvisionAssumption DEF Accepts
        <3>4. QED  BY <3>2, <3>3
    <2>3. /\ Alters(Candidate(p)) /\ Candidate(p) \in Vmids
          /\ containers[Candidate(p)] = None
          /\ containers'[Candidate(p)] # None
          /\ containers'[Candidate(p)].box = run[p].box
          /\ containers'[Candidate(p)].state = "creating"
          /\ containers'[Candidate(p)].agent <=> run[p].memory.relay
          /\ containers'[Candidate(p)].creds <=> ~run[p].memory.relay
          /\ run[p].memory.relay => run[p].box \in templates
        BY <1>0, <1>1, <2>1, <2>2 DEF NewContainer, Accepts, TypeOK
    <2>4. OnlyMoves(p) /\ Becomes(p, "created", run[p].verb, run[p].box, Candidate(p), run[p].memory)
        BY <1>0, <1>1, <2>2 DEF TypeOK, Runs, RunStates, Steps
    <2>5. run[p].step = "create" /\ UNCHANGED <<uploads, templates, operations, unrecorded, faults>>
        BY <1>1
    <2>6. TypeOK'  BY <1>0, <2>1, <2>3, <2>4, <2>5 DEF TypeOK, Runs, RunStates
    <2>7. Fitting'  BY <1>0, <2>1, <2>3, <2>4, <2>5 DEF Fitting
    <2>8. Single'  BY <1>0, <2>1, <2>3, <2>4, <2>5 DEF Fitting, Single, NoDuplicateBox
    <2>9. Deleting'
        BY <1>0, <2>1, <2>3, <2>4, <2>5 DEF Fitting, Single, NoDuplicateBox, Deleting
    <2>10. OfOneKind'  BY <1>0, <2>1, <2>3, <2>4, <2>5 DEF Fitting, Single, OfOneKind
    <2>11. GuestCleaned'
        BY <1>0, <2>1, <2>3, <2>4, <2>5 DEF Fitting, Single, NoDuplicateBox, OfOneKind,
           GuestCleaned
    <2>12. Recorded'
        BY <1>0, <2>1, <2>3, <2>4, <2>5 DEF Fitting, Single, Deleting, OfOneKind,
           GuestCleaned, Recorded, Uploaded, Unfinished
    <2>13. Uploaded'
        BY <1>0, <2>1, <2>3, <2>4, <2>5 DEF Fitting, Single, Deleting, OfOneKind,
           GuestCleaned, Recorded, Uploaded
    <2>14. Extracting'
        BY <1>0, <2>1, <2>3, <2>4, <2>5 DEF Fitting, Single, NoDuplicateBox, Deleting,
           OfOneKind, Recorded, Uploaded, Extracting, State
    <2>15. QED  BY <2>6, <2>7, <2>8, <2>9, <2>10, <2>11, <2>12, <2>13, <2>14 DEF IInv
<1>2. QED
    BY <1>1 DEF Creates

\* A number in use is skipped.
LEMMA CreateConflictsKeeps ==
    ASSUME IInv, NEW p \in Commands, CreateConflicts(p)
    PROVE  IInv'
<1>0. /\ TypeOK /\ Fitting /\ Single /\ Deleting /\ OfOneKind /\ GuestCleaned
      /\ Recorded /\ Uploaded /\ Extracting
      /\ None \notin Boxes \cup Vmids \cup Operation \cup Container
    BY ProvisionAssumption, NoneIsNoRecord DEF IInv
<1> USE DEF OnlyMoves, Becomes, Advances, Ends, Records, Alters, Keeps, Saved,
           Early, SshSteps, TemplateSteps, NewSteps, RepairSteps, DeleteSteps,
           EarlyNew, NewOf, Absent, Settled, Has, Remembers
<1>1. CASE /\ run[p].step = "create"
           /\ Candidate(p) # None
           /\ run' = [run EXCEPT ![p].occupied = @ \cup {Candidate(p)} \cup Occupied]
           /\ UNCHANGED <<containers, uploads, templates, operations, unrecorded, faults>>
    <2>1. Candidate(p) \in Vmids
        BY <1>0, <1>1, CandidateIsFree, ProvisionAssumption
    <2>2. Advances(p, run[p].step)
        BY <1>0, <1>1, <2>1 DEF TypeOK, Runs, RunStates, Occupied
    <2>3. TypeOK'  BY <1>0, <1>1, <2>2 DEF TypeOK, Runs, RunStates
    <2>4. Fitting'  BY <1>0, <1>1, <2>2 DEF Fitting
    <2>5. Single'  BY <1>0, <1>1, <2>2 DEF Fitting, Single, NoDuplicateBox
    <2>6. Deleting'  BY <1>0, <1>1, <2>2 DEF Fitting, Single, NoDuplicateBox, Deleting
    <2>7. OfOneKind'  BY <1>0, <1>1, <2>2 DEF Fitting, Single, OfOneKind
    <2>8. GuestCleaned'
        BY <1>0, <1>1, <2>2 DEF Fitting, Single, NoDuplicateBox, OfOneKind, GuestCleaned
    <2>9. Recorded'
        BY <1>0, <1>1, <2>2 DEF Fitting, Single, Deleting, OfOneKind, GuestCleaned,
           Recorded, Uploaded, Unfinished
    <2>10. Uploaded'
        BY <1>0, <1>1, <2>2 DEF Fitting, Single, Deleting, OfOneKind, GuestCleaned,
           Recorded, Uploaded
    <2>11. Extracting'
        BY <1>0, <1>1, <2>2 DEF Fitting, Single, NoDuplicateBox, Deleting, OfOneKind,
           Recorded, Uploaded, Extracting, State
    <2>12. QED  BY <2>3, <2>4, <2>5, <2>6, <2>7, <2>8, <2>9, <2>10, <2>11 DEF IInv
<1>2. QED
    BY <1>1 DEF CreateConflicts

\* A creation that PVE refused leaves no container.
LEMMA CreateRefusedKeeps ==
    ASSUME IInv, NEW p \in Commands, CreateRefused(p)
    PROVE  IInv'
<1>0. /\ TypeOK /\ Fitting /\ Single /\ Deleting /\ OfOneKind /\ GuestCleaned
      /\ Recorded /\ Uploaded /\ Extracting
      /\ None \notin Boxes \cup Vmids \cup Operation \cup Container
    BY ProvisionAssumption, NoneIsNoRecord DEF IInv
<1> USE DEF OnlyMoves, Becomes, Advances, Ends, Records, Alters, Keeps, Saved,
           Early, SshSteps, TemplateSteps, NewSteps, RepairSteps, DeleteSteps,
           EarlyNew, NewOf, Absent, Settled, Has, Remembers
<1>1. CASE /\ run[p].step = "create"
           /\ Exit(p)
           /\ UNCHANGED <<containers, uploads, templates, operations, unrecorded, faults>>
    <2>1. Ends(p)
        BY <1>0, <1>1, ExitMoves
    <2>2. QED
        BY <1>0, <1>1, <2>1, EndKeeps DEF TypeOK
<1>2. CASE /\ run[p].step = "create"
           /\ ~run[p].memory.relay
           /\ Forget(p)
           /\ UNCHANGED <<containers, uploads, templates, unrecorded, faults>>
    <2>1. run[p].box \in Boxes
        BY <1>0, <1>2 DEF Fitting
    <2>2. Ends(p) /\ Records(run[p].box, None)
        BY <1>0, <1>2, <2>1, ForgetMoves
    <2>3. TypeOK'  BY <1>0, <1>2, <2>1, <2>2 DEF TypeOK, Runs, RunStates
    <2>4. Fitting'  BY <1>0, <1>2, <2>1, <2>2 DEF Fitting
    <2>5. Single'  BY <1>0, <1>2, <2>1, <2>2 DEF Fitting, Single, NoDuplicateBox
    <2>6. Deleting'  BY <1>0, <1>2, <2>1, <2>2 DEF Fitting, Single, NoDuplicateBox, Deleting
    <2>7. OfOneKind'  BY <1>0, <1>2, <2>1, <2>2 DEF Fitting, Single, OfOneKind
    <2>8. GuestCleaned'
        BY <1>0, <1>2, <2>1, <2>2 DEF Fitting, Single, NoDuplicateBox, OfOneKind,
           GuestCleaned
    <2>9. Recorded'
        BY <1>0, <1>2, <2>1, <2>2 DEF Fitting, Single, Deleting, OfOneKind,
           GuestCleaned, Recorded, Uploaded, Unfinished
    <2>10. Uploaded'
        BY <1>0, <1>2, <2>1, <2>2 DEF Fitting, Single, Deleting, OfOneKind,
           GuestCleaned, Recorded, Uploaded
    <2>11. Extracting'
        BY <1>0, <1>2, <2>1, <2>2 DEF Fitting, Single, NoDuplicateBox, Deleting,
           OfOneKind, Recorded, Uploaded, Extracting, State
    <2>12. QED  BY <2>3, <2>4, <2>5, <2>6, <2>7, <2>8, <2>9, <2>10, <2>11 DEF IInv
<1>3. QED
    BY <1>1, <1>2 DEF CreateRefused, Abandon

\* Of a creation whose answer was lost the operation cannot tell.
LEMMA CreateUnheardKeeps ==
    ASSUME IInv, NEW p \in Commands, CreateUnheard(p)
    PROVE  IInv'
<1>0. /\ TypeOK /\ Fitting /\ Single /\ Deleting /\ OfOneKind /\ GuestCleaned
      /\ Recorded /\ Uploaded /\ Extracting
      /\ None \notin Boxes \cup Vmids \cup Operation \cup Container
    BY ProvisionAssumption, NoneIsNoRecord DEF IInv
<1> USE DEF OnlyMoves, Becomes, Advances, Ends, Records, Alters, Keeps, Saved,
           Early, SshSteps, TemplateSteps, NewSteps, RepairSteps, DeleteSteps,
           EarlyNew, NewOf, Absent, Settled, Has, Remembers
<1>1. CASE /\ run[p].step = "create"
           /\ Accepts(p)
           /\ faults < MaxFaults
           /\ containers' = [containers EXCEPT ![Candidate(p)] = NewContainer(p)]
           /\ unrecorded' = unrecorded \cup {run[p].box}
           /\ faults' = faults + 1
           /\ UNCHANGED <<uploads, templates>>
           /\ run[p].memory.relay
           /\ Exit(p)
           /\ UNCHANGED operations
    <2>1. run[p].box \in Boxes /\ run[p].memory \in Operation
        BY <1>0, <1>1 DEF TypeOK, Fitting, Remembers
    <2>2. NewContainer(p) \in Container /\ Candidate(p) \in Vmids
        <3>1. run[p].memory.relay \in BOOLEAN
            BY <2>1 DEF Operation
        <3>2. NewContainer(p) \in Container
            BY <2>1, <3>1 DEF NewContainer, Container
        <3>3. Candidate(p) \in Vmids
            BY <1>0, <1>1, CandidateIsFree, ProvisionAssumption DEF Accepts
        <3>4. QED  BY <3>2, <3>3
    <2>3. /\ Alters(Candidate(p)) /\ Candidate(p) \in Vmids
          /\ containers[Candidate(p)] = None
          /\ containers'[Candidate(p)] # None
          /\ containers'[Candidate(p)].box = run[p].box
          /\ containers'[Candidate(p)].state = "creating"
          /\ containers'[Candidate(p)].agent <=> run[p].memory.relay
          /\ containers'[Candidate(p)].creds <=> ~run[p].memory.relay
          /\ run[p].memory.relay => run[p].box \in templates
        BY <1>0, <1>1, <2>1, <2>2 DEF NewContainer, Accepts, TypeOK
    <2>4. Ends(p)
        BY <1>0, <1>1, ExitMoves
    <2>5. faults' \in 0 .. MaxFaults
        BY <1>0, <1>1, ProvisionAssumption DEF TypeOK
    <2>6. TypeOK'  BY <1>0, <1>1, <2>1, <2>3, <2>4, <2>5 DEF TypeOK, Runs, RunStates
    <2>7. Fitting'  BY <1>0, <1>1, <2>1, <2>3, <2>4, <2>5 DEF Fitting
    <2>8. Single'  BY <1>0, <1>1, <2>1, <2>3, <2>4, <2>5 DEF Fitting, Single, NoDuplicateBox
    <2>9. Deleting'
        BY <1>0, <1>1, <2>1, <2>3, <2>4, <2>5 DEF Fitting, Single, NoDuplicateBox,
           Deleting
    <2>10. OfOneKind'  BY <1>0, <1>1, <2>1, <2>3, <2>4, <2>5 DEF Fitting, Single, OfOneKind
    <2>11. GuestCleaned'
        BY <1>0, <1>1, <2>1, <2>3, <2>4, <2>5 DEF Fitting, Single, NoDuplicateBox,
           OfOneKind, GuestCleaned
    <2>12. Recorded'
        BY <1>0, <1>1, <2>1, <2>3, <2>4, <2>5 DEF Fitting, Single, Deleting, OfOneKind,
           GuestCleaned, Recorded, Uploaded, Unfinished
    <2>13. Uploaded'
        BY <1>0, <1>1, <2>1, <2>3, <2>4, <2>5 DEF Fitting, Single, Deleting, OfOneKind,
           GuestCleaned, Recorded, Uploaded
    <2>14. Extracting'
        BY <1>0, <1>1, <2>1, <2>3, <2>4, <2>5 DEF Fitting, Single, NoDuplicateBox,
           Deleting, OfOneKind, Recorded, Uploaded, Extracting, State
    <2>15. QED  BY <2>6, <2>7, <2>8, <2>9, <2>10, <2>11, <2>12, <2>13, <2>14 DEF IInv
<1>2. CASE /\ run[p].step = "create"
           /\ Accepts(p)
           /\ faults < MaxFaults
           /\ containers' = [containers EXCEPT ![Candidate(p)] = NewContainer(p)]
           /\ unrecorded' = unrecorded \cup {run[p].box}
           /\ faults' = faults + 1
           /\ UNCHANGED <<uploads, templates>>
           /\ ~run[p].memory.relay
           /\ Forget(p)
    <2>1. run[p].box \in Boxes /\ run[p].memory \in Operation
        BY <1>0, <1>2 DEF TypeOK, Fitting, Remembers
    <2>2. NewContainer(p) \in Container /\ Candidate(p) \in Vmids
        <3>1. run[p].memory.relay \in BOOLEAN
            BY <2>1 DEF Operation
        <3>2. NewContainer(p) \in Container
            BY <2>1, <3>1 DEF NewContainer, Container
        <3>3. Candidate(p) \in Vmids
            BY <1>0, <1>2, CandidateIsFree, ProvisionAssumption DEF Accepts
        <3>4. QED  BY <3>2, <3>3
    <2>3. /\ Alters(Candidate(p)) /\ Candidate(p) \in Vmids
          /\ containers[Candidate(p)] = None
          /\ containers'[Candidate(p)] # None
          /\ containers'[Candidate(p)].box = run[p].box
          /\ containers'[Candidate(p)].state = "creating"
          /\ containers'[Candidate(p)].agent <=> run[p].memory.relay
          /\ containers'[Candidate(p)].creds <=> ~run[p].memory.relay
          /\ run[p].memory.relay => run[p].box \in templates
        BY <1>0, <1>2, <2>1, <2>2 DEF NewContainer, Accepts, TypeOK
    <2>4. Ends(p) /\ Records(run[p].box, None)
        BY <1>0, <1>2, <2>1, ForgetMoves
    <2>5. faults' \in 0 .. MaxFaults
        BY <1>0, <1>2, ProvisionAssumption DEF TypeOK
    <2>6. TypeOK'  BY <1>0, <1>2, <2>1, <2>3, <2>4, <2>5 DEF TypeOK, Runs, RunStates
    <2>7. Fitting'  BY <1>0, <1>2, <2>1, <2>3, <2>4, <2>5 DEF Fitting
    <2>8. Single'  BY <1>0, <1>2, <2>1, <2>3, <2>4, <2>5 DEF Fitting, Single, NoDuplicateBox
    <2>9. Deleting'
        BY <1>0, <1>2, <2>1, <2>3, <2>4, <2>5 DEF Fitting, Single, NoDuplicateBox,
           Deleting
    <2>10. OfOneKind'  BY <1>0, <1>2, <2>1, <2>3, <2>4, <2>5 DEF Fitting, Single, OfOneKind
    <2>11. GuestCleaned'
        BY <1>0, <1>2, <2>1, <2>3, <2>4, <2>5 DEF Fitting, Single, NoDuplicateBox,
           OfOneKind, GuestCleaned
    <2>12. Recorded'
        BY <1>0, <1>2, <2>1, <2>3, <2>4, <2>5 DEF Fitting, Single, Deleting, OfOneKind,
           GuestCleaned, Recorded, Uploaded, Unfinished
    <2>13. Uploaded'
        BY <1>0, <1>2, <2>1, <2>3, <2>4, <2>5 DEF Fitting, Single, Deleting, OfOneKind,
           GuestCleaned, Recorded, Uploaded
    <2>14. Extracting'
        BY <1>0, <1>2, <2>1, <2>3, <2>4, <2>5 DEF Fitting, Single, NoDuplicateBox,
           Deleting, OfOneKind, Recorded, Uploaded, Extracting, State
    <2>15. QED  BY <2>6, <2>7, <2>8, <2>9, <2>10, <2>11, <2>12, <2>13, <2>14 DEF IInv
<1>3. QED
    BY <1>1, <1>2 DEF CreateUnheard, Abandon

\* The container is recorded before anything else is done.
LEMMA RecordsCreateKeeps ==
    ASSUME IInv, NEW p \in Commands, RecordsCreate(p)
    PROVE  IInv'
<1>0. /\ TypeOK /\ Fitting /\ Single /\ Deleting /\ OfOneKind /\ GuestCleaned
      /\ Recorded /\ Uploaded /\ Extracting
      /\ None \notin Boxes \cup Vmids \cup Operation \cup Container
    BY ProvisionAssumption, NoneIsNoRecord DEF IInv
<1> USE DEF OnlyMoves, Becomes, Advances, Ends, Records, Alters, Keeps, Saved,
           Early, SshSteps, TemplateSteps, NewSteps, RepairSteps, DeleteSteps,
           EarlyNew, NewOf, Absent, Settled, Has, Remembers
<1>1. CASE /\ run[p].step = "created"
           /\ run[p].memory.relay
           /\ Save(p, [run[p].memory EXCEPT !.vmid = run[p].vmid, !.task = "create"], "creating")
           /\ UNCHANGED <<containers, uploads, templates, unrecorded, faults>>
    <2> DEFINE operation == [run[p].memory EXCEPT !.vmid = run[p].vmid, !.task = "create"]
    <2>1. run[p].box \in Boxes /\ run[p].memory \in Operation
        BY <1>0, <1>1 DEF TypeOK, Fitting, Remembers
    <2>2. /\ operation \in Operation
          /\ operation.vmid = run[p].vmid
          /\ operation.phase = run[p].memory.phase
          /\ operation.relay = run[p].memory.relay
          /\ operation.template = run[p].memory.template
          /\ operation.task = "create"
        BY <1>0, <1>1, <2>1 DEF Operation, Phases, TypeOK, Fitting
    <2> HIDE DEF operation
    <2>3. Save(p, operation, "creating")
        BY <1>1 DEF operation
    <2>4. Saved(p, "creating", run[p].vmid, run[p].memory.phase, run[p].memory.template, "create") \/ Unsaved(p)
        BY <1>0, <2>1, <2>2, <2>3, SaveAmends DEF Steps
    <2>5. CASE Unsaved(p)
        BY <1>0, <1>1, <2>5, EndKeeps DEF Unsaved, TypeOK
    <2>6. CASE Saved(p, "creating", run[p].vmid, run[p].memory.phase, run[p].memory.template, "create")
        <3>1. TypeOK'  BY <1>0, <1>1, <2>1, <2>6 DEF TypeOK, Runs, RunStates
        <3>2. Fitting'  BY <1>0, <1>1, <2>1, <2>6 DEF Fitting
        <3>3. Single'  BY <1>0, <1>1, <2>1, <2>6 DEF Fitting, Single, NoDuplicateBox
        <3>4. Deleting'
            BY <1>0, <1>1, <2>1, <2>6 DEF Fitting, Single, NoDuplicateBox, Deleting
        <3>5. OfOneKind'  BY <1>0, <1>1, <2>1, <2>6 DEF Fitting, Single, OfOneKind
        <3>6. GuestCleaned'
            BY <1>0, <1>1, <2>1, <2>6 DEF Fitting, Single, NoDuplicateBox, OfOneKind,
               GuestCleaned
        <3>7. Recorded'
            BY <1>0, <1>1, <2>1, <2>6 DEF Fitting, Single, Deleting, OfOneKind,
               GuestCleaned, Recorded, Uploaded, Unfinished
        <3>8. Uploaded'
            BY <1>0, <1>1, <2>1, <2>6, SMTT(30) DEF Fitting, Single, Deleting, OfOneKind,
               GuestCleaned, Recorded, Uploaded
        <3>9. Extracting'
            BY <1>0, <1>1, <2>1, <2>6 DEF Fitting, Single, NoDuplicateBox, Deleting,
               OfOneKind, Recorded, Uploaded, Extracting, State
        <3>10. QED  BY <3>1, <3>2, <3>3, <3>4, <3>5, <3>6, <3>7, <3>8, <3>9 DEF IInv
    <2>7. QED  BY <2>4, <2>5, <2>6
<1>2. CASE /\ run[p].step = "created"
           /\ ~run[p].memory.relay
           /\ Save(p, [run[p].memory EXCEPT !.vmid = run[p].vmid, !.task = "none"], "creating")
           /\ UNCHANGED <<containers, uploads, templates, unrecorded, faults>>
    <2> DEFINE operation == [run[p].memory EXCEPT !.vmid = run[p].vmid, !.task = "none"]
    <2>1. run[p].box \in Boxes /\ run[p].memory \in Operation
        BY <1>0, <1>2 DEF TypeOK, Fitting, Remembers
    <2>2. /\ operation \in Operation
          /\ operation.vmid = run[p].vmid
          /\ operation.phase = run[p].memory.phase
          /\ operation.relay = run[p].memory.relay
          /\ operation.template = run[p].memory.template
          /\ operation.task = "none"
        BY <1>0, <1>2, <2>1 DEF Operation, Phases, TypeOK, Fitting
    <2> HIDE DEF operation
    <2>3. Save(p, operation, "creating")
        BY <1>2 DEF operation
    <2>4. Saved(p, "creating", run[p].vmid, run[p].memory.phase, run[p].memory.template, "none") \/ Unsaved(p)
        BY <1>0, <2>1, <2>2, <2>3, SaveAmends DEF Steps
    <2>5. CASE Unsaved(p)
        BY <1>0, <1>2, <2>5, EndKeeps DEF Unsaved, TypeOK
    <2>6. CASE Saved(p, "creating", run[p].vmid, run[p].memory.phase, run[p].memory.template, "none")
        <3>1. TypeOK'  BY <1>0, <1>2, <2>1, <2>6 DEF TypeOK, Runs, RunStates
        <3>2. Fitting'  BY <1>0, <1>2, <2>1, <2>6 DEF Fitting
        <3>3. Single'  BY <1>0, <1>2, <2>1, <2>6 DEF Fitting, Single, NoDuplicateBox
        <3>4. Deleting'
            BY <1>0, <1>2, <2>1, <2>6 DEF Fitting, Single, NoDuplicateBox, Deleting
        <3>5. OfOneKind'  BY <1>0, <1>2, <2>1, <2>6 DEF Fitting, Single, OfOneKind
        <3>6. GuestCleaned'
            BY <1>0, <1>2, <2>1, <2>6 DEF Fitting, Single, NoDuplicateBox, OfOneKind,
               GuestCleaned
        <3>7. Recorded'
            BY <1>0, <1>2, <2>1, <2>6 DEF Fitting, Single, Deleting, OfOneKind,
               GuestCleaned, Recorded, Uploaded, Unfinished
        <3>8. Uploaded'
            BY <1>0, <1>2, <2>1, <2>6, SMTT(30) DEF Fitting, Single, Deleting, OfOneKind,
               GuestCleaned, Recorded, Uploaded
        <3>9. Extracting'
            BY <1>0, <1>2, <2>1, <2>6 DEF Fitting, Single, NoDuplicateBox, Deleting,
               OfOneKind, Recorded, Uploaded, Extracting, State
        <3>10. QED  BY <3>1, <3>2, <3>3, <3>4, <3>5, <3>6, <3>7, <3>8, <3>9 DEF IInv
    <2>7. QED  BY <2>4, <2>5, <2>6
<1>3. QED
    BY <1>1, <1>2 DEF RecordsCreate

\* The creation goes on once the container is there.
LEMMA CreateFinishesKeeps ==
    ASSUME IInv, NEW p \in Commands, CreateFinishes(p)
    PROVE  IInv'
<1>0. /\ TypeOK /\ Fitting /\ Single /\ Deleting /\ OfOneKind /\ GuestCleaned
      /\ Recorded /\ Uploaded /\ Extracting
      /\ None \notin Boxes \cup Vmids \cup Operation \cup Container
    BY ProvisionAssumption, NoneIsNoRecord DEF IInv
<1> USE DEF OnlyMoves, Becomes, Advances, Ends, Records, Alters, Keeps, Saved,
           Early, SshSteps, TemplateSteps, NewSteps, RepairSteps, DeleteSteps,
           EarlyNew, NewOf, Absent, Settled, Has, Remembers
<1>1. CASE /\ run[p].step = "creating"
           /\ run[p].memory.relay
           /\ Has(run[p].vmid, run[p].box)
           /\ State(run[p].vmid) # "creating"
           /\ Save(p, run[p].memory, "untask")
           /\ UNCHANGED <<containers, uploads, templates, unrecorded, faults>>
    <2> DEFINE operation == run[p].memory
    <2>1. run[p].box \in Boxes /\ run[p].memory \in Operation
        BY <1>0, <1>1 DEF TypeOK, Fitting, Remembers
    <2>2. /\ operation \in Operation
          /\ operation.vmid = run[p].memory.vmid
          /\ operation.phase = run[p].memory.phase
          /\ operation.relay = run[p].memory.relay
          /\ operation.template = run[p].memory.template
          /\ operation.task = run[p].memory.task
        BY <1>0, <1>1, <2>1 DEF Operation, Phases, TypeOK, Fitting
    <2> HIDE DEF operation
    <2>3. Save(p, operation, "untask")
        BY <1>1 DEF operation
    <2>4. Saved(p, "untask", run[p].memory.vmid, run[p].memory.phase, run[p].memory.template, run[p].memory.task) \/ Unsaved(p)
        BY <1>0, <2>1, <2>2, <2>3, SaveAmends DEF Steps
    <2>5. CASE Unsaved(p)
        BY <1>0, <1>1, <2>5, EndKeeps DEF Unsaved, TypeOK
    <2>6. CASE Saved(p, "untask", run[p].memory.vmid, run[p].memory.phase, run[p].memory.template, run[p].memory.task)
        <3>1. TypeOK'  BY <1>0, <1>1, <2>1, <2>6 DEF TypeOK, Runs, RunStates
        <3>2. Fitting'  BY <1>0, <1>1, <2>1, <2>6 DEF Fitting
        <3>3. Single'  BY <1>0, <1>1, <2>1, <2>6 DEF Fitting, Single, NoDuplicateBox
        <3>4. Deleting'
            BY <1>0, <1>1, <2>1, <2>6 DEF Fitting, Single, NoDuplicateBox, Deleting
        <3>5. OfOneKind'  BY <1>0, <1>1, <2>1, <2>6 DEF Fitting, Single, OfOneKind
        <3>6. GuestCleaned'
            BY <1>0, <1>1, <2>1, <2>6 DEF Fitting, Single, NoDuplicateBox, OfOneKind,
               GuestCleaned
        <3>7. Recorded'
            BY <1>0, <1>1, <2>1, <2>6 DEF Fitting, Single, Deleting, OfOneKind,
               GuestCleaned, Recorded, Uploaded, Unfinished
        <3>8. Uploaded'
            BY <1>0, <1>1, <2>1, <2>6 DEF Fitting, Single, Deleting, OfOneKind,
               GuestCleaned, Recorded, Uploaded
        <3>9. Extracting'
            BY <1>0, <1>1, <2>1, <2>6 DEF Fitting, Single, NoDuplicateBox, Deleting,
               OfOneKind, Recorded, Uploaded, Extracting, State
        <3>10. QED  BY <3>1, <3>2, <3>3, <3>4, <3>5, <3>6, <3>7, <3>8, <3>9 DEF IInv
    <2>7. QED  BY <2>4, <2>5, <2>6
<1>2. CASE /\ run[p].step = "creating"
           /\ ~run[p].memory.relay
           /\ Has(run[p].vmid, run[p].box)
           /\ State(run[p].vmid) # "creating"
           /\ Save(p, run[p].memory, "bootstrap")
           /\ UNCHANGED <<containers, uploads, templates, unrecorded, faults>>
    <2> DEFINE operation == run[p].memory
    <2>1. run[p].box \in Boxes /\ run[p].memory \in Operation
        BY <1>0, <1>2 DEF TypeOK, Fitting, Remembers
    <2>2. /\ operation \in Operation
          /\ operation.vmid = run[p].memory.vmid
          /\ operation.phase = run[p].memory.phase
          /\ operation.relay = run[p].memory.relay
          /\ operation.template = run[p].memory.template
          /\ operation.task = run[p].memory.task
        BY <1>0, <1>2, <2>1 DEF Operation, Phases, TypeOK, Fitting
    <2> HIDE DEF operation
    <2>3. Save(p, operation, "bootstrap")
        BY <1>2 DEF operation
    <2>4. Saved(p, "bootstrap", run[p].memory.vmid, run[p].memory.phase, run[p].memory.template, run[p].memory.task) \/ Unsaved(p)
        BY <1>0, <2>1, <2>2, <2>3, SaveAmends DEF Steps
    <2>5. CASE Unsaved(p)
        BY <1>0, <1>2, <2>5, EndKeeps DEF Unsaved, TypeOK
    <2>6. CASE Saved(p, "bootstrap", run[p].memory.vmid, run[p].memory.phase, run[p].memory.template, run[p].memory.task)
        <3>1. TypeOK'  BY <1>0, <1>2, <2>1, <2>6 DEF TypeOK, Runs, RunStates
        <3>2. Fitting'  BY <1>0, <1>2, <2>1, <2>6 DEF Fitting
        <3>3. Single'  BY <1>0, <1>2, <2>1, <2>6 DEF Fitting, Single, NoDuplicateBox
        <3>4. Deleting'
            BY <1>0, <1>2, <2>1, <2>6 DEF Fitting, Single, NoDuplicateBox, Deleting
        <3>5. OfOneKind'  BY <1>0, <1>2, <2>1, <2>6 DEF Fitting, Single, OfOneKind
        <3>6. GuestCleaned'
            BY <1>0, <1>2, <2>1, <2>6 DEF Fitting, Single, NoDuplicateBox, OfOneKind,
               GuestCleaned
        <3>7. Recorded'
            BY <1>0, <1>2, <2>1, <2>6 DEF Fitting, Single, Deleting, OfOneKind,
               GuestCleaned, Recorded, Uploaded, Unfinished
        <3>8. Uploaded'
            BY <1>0, <1>2, <2>1, <2>6 DEF Fitting, Single, Deleting, OfOneKind,
               GuestCleaned, Recorded, Uploaded
        <3>9. Extracting'
            BY <1>0, <1>2, <2>1, <2>6 DEF Fitting, Single, NoDuplicateBox, Deleting,
               OfOneKind, Recorded, Uploaded, Extracting, State
        <3>10. QED  BY <3>1, <3>2, <3>3, <3>4, <3>5, <3>6, <3>7, <3>8, <3>9 DEF IInv
    <2>7. QED  BY <2>4, <2>5, <2>6
<1>3. CASE /\ run[p].step = "creating"
           /\ Exit(p)
           /\ UNCHANGED <<containers, uploads, templates, operations, unrecorded, faults>>
    <2>1. Ends(p)
        BY <1>0, <1>3, ExitMoves
    <2>2. QED
        BY <1>0, <1>3, <2>1, EndKeeps DEF TypeOK
<1>4. QED
    BY <1>1, <1>2, <1>3 DEF CreateFinishes

\* The agent is installed in the guest that the operation names.
LEMMA BootstrapsKeeps ==
    ASSUME IInv, NEW p \in Commands, Bootstraps(p)
    PROVE  IInv'
<1>0. /\ TypeOK /\ Fitting /\ Single /\ Deleting /\ OfOneKind /\ GuestCleaned
      /\ Recorded /\ Uploaded /\ Extracting
      /\ None \notin Boxes \cup Vmids \cup Operation \cup Container
    BY ProvisionAssumption, NoneIsNoRecord DEF IInv
<1> USE DEF OnlyMoves, Becomes, Advances, Ends, Records, Alters, Keeps, Saved,
           Early, SshSteps, TemplateSteps, NewSteps, RepairSteps, DeleteSteps,
           EarlyNew, NewOf, Absent, Settled, Has, Remembers
<1>1. CASE /\ run[p].step = "bootstrap"
           /\ BySsh(p)
           /\ containers' = [containers EXCEPT ![run[p].vmid].agent = TRUE]
           /\ Goto(p, "installed")
           /\ UNCHANGED <<uploads, templates, operations, unrecorded, faults>>
    <2>1. run[p].vmid \in Vmids /\ containers[run[p].vmid] # None /\ containers[run[p].vmid] \in Container
        BY <1>0, <1>1 DEF TypeOK, Fitting, BySsh, ByAgent, Has, State
    <2>2. Keeps(run[p].vmid, containers[run[p].vmid].state, TRUE, containers[run[p].vmid].creds)
        BY <1>0, <1>1, <2>1 DEF TypeOK, Container
    <2>3. Advances(p, "installed")
        BY <1>0, <1>1, GotoMoves DEF Steps
    <2>4. run[p].step = "bootstrap" /\ containers[run[p].vmid].box = run[p].box
          /\ containers[run[p].vmid].state = "running"
          /\ UNCHANGED <<uploads, templates, operations, unrecorded, faults>>
        BY <1>1 DEF TypeOK, BySsh, ByAgent, Has, State
    <2>5. TypeOK'  BY <1>0, <2>1, <2>2, <2>3, <2>4 DEF TypeOK, Runs, RunStates
    <2>6. Fitting'  BY <1>0, <2>1, <2>2, <2>3, <2>4 DEF Fitting
    <2>7. Single'  BY <1>0, <2>1, <2>2, <2>3, <2>4 DEF Fitting, Single, NoDuplicateBox
    <2>8. Deleting'
        BY <1>0, <2>1, <2>2, <2>3, <2>4 DEF Fitting, Single, NoDuplicateBox, Deleting
    <2>9. OfOneKind'  BY <1>0, <2>1, <2>2, <2>3, <2>4 DEF Fitting, Single, OfOneKind
    <2>10. GuestCleaned'
        BY <1>0, <2>1, <2>2, <2>3, <2>4 DEF Fitting, Single, NoDuplicateBox, OfOneKind,
           GuestCleaned
    <2>11. Recorded'
        BY <1>0, <2>1, <2>2, <2>3, <2>4 DEF Fitting, Single, Deleting, OfOneKind,
           GuestCleaned, Recorded, Uploaded, Unfinished
    <2>12. Uploaded'
        BY <1>0, <2>1, <2>2, <2>3, <2>4 DEF Fitting, Single, Deleting, OfOneKind,
           GuestCleaned, Recorded, Uploaded
    <2>13. Extracting'
        BY <1>0, <2>1, <2>2, <2>3, <2>4 DEF Fitting, Single, NoDuplicateBox, Deleting,
           OfOneKind, Recorded, Uploaded, Extracting, State
    <2>14. QED  BY <2>5, <2>6, <2>7, <2>8, <2>9, <2>10, <2>11, <2>12, <2>13 DEF IInv
<1>2. CASE /\ run[p].step = "bootstrap"
           /\ Exit(p)
           /\ UNCHANGED <<containers, uploads, templates, operations, unrecorded, faults>>
    <2>1. Ends(p)
        BY <1>0, <1>2, ExitMoves
    <2>2. QED
        BY <1>0, <1>2, <2>1, EndKeeps DEF TypeOK
<1>3. QED
    BY <1>1, <1>2 DEF Bootstraps

\* The operation says that the agent answers.
LEMMA RecordsReadyKeeps ==
    ASSUME IInv, NEW p \in Commands, RecordsReady(p)
    PROVE  IInv'
<1>0. /\ TypeOK /\ Fitting /\ Single /\ Deleting /\ OfOneKind /\ GuestCleaned
      /\ Recorded /\ Uploaded /\ Extracting
      /\ None \notin Boxes \cup Vmids \cup Operation \cup Container
    BY ProvisionAssumption, NoneIsNoRecord DEF IInv
<1> USE DEF OnlyMoves, Becomes, Advances, Ends, Records, Alters, Keeps, Saved,
           Early, SshSteps, TemplateSteps, NewSteps, RepairSteps, DeleteSteps,
           EarlyNew, NewOf, Absent, Settled, Has, Remembers
<1>1. CASE /\ run[p].step = "installed"
           /\ Save(p, [run[p].memory EXCEPT !.phase = "agent-ready"], "clean")
           /\ UNCHANGED <<containers, uploads, templates, unrecorded, faults>>
    <2> DEFINE operation == [run[p].memory EXCEPT !.phase = "agent-ready"]
    <2>1. run[p].box \in Boxes /\ run[p].memory \in Operation
        BY <1>0, <1>1 DEF TypeOK, Fitting, Remembers
    <2>2. /\ operation \in Operation
          /\ operation.vmid = run[p].memory.vmid
          /\ operation.phase = "agent-ready"
          /\ operation.relay = run[p].memory.relay
          /\ operation.template = run[p].memory.template
          /\ operation.task = run[p].memory.task
        BY <1>0, <1>1, <2>1 DEF Operation, Phases, TypeOK, Fitting
    <2> HIDE DEF operation
    <2>3. Save(p, operation, "clean")
        BY <1>1 DEF operation
    <2>4. Saved(p, "clean", run[p].memory.vmid, "agent-ready", run[p].memory.template, run[p].memory.task) \/ Unsaved(p)
        BY <1>0, <2>1, <2>2, <2>3, SaveAmends DEF Steps
    <2>5. CASE Unsaved(p)
        BY <1>0, <1>1, <2>5, EndKeeps DEF Unsaved, TypeOK
    <2>6. CASE Saved(p, "clean", run[p].memory.vmid, "agent-ready", run[p].memory.template, run[p].memory.task)
        <3>1. TypeOK'  BY <1>0, <1>1, <2>1, <2>6 DEF TypeOK, Runs, RunStates
        <3>2. Fitting'  BY <1>0, <1>1, <2>1, <2>6 DEF Fitting
        <3>3. Single'  BY <1>0, <1>1, <2>1, <2>6 DEF Fitting, Single, NoDuplicateBox
        <3>4. Deleting'
            BY <1>0, <1>1, <2>1, <2>6 DEF Fitting, Single, NoDuplicateBox, Deleting
        <3>5. OfOneKind'  BY <1>0, <1>1, <2>1, <2>6 DEF Fitting, Single, OfOneKind
        <3>6. GuestCleaned'
            BY <1>0, <1>1, <2>1, <2>6 DEF Fitting, Single, NoDuplicateBox, OfOneKind,
               GuestCleaned
        <3>7. Recorded'
            BY <1>0, <1>1, <2>1, <2>6 DEF Fitting, Single, Deleting, OfOneKind,
               GuestCleaned, Recorded, Uploaded, Unfinished
        <3>8. Uploaded'
            BY <1>0, <1>1, <2>1, <2>6 DEF Fitting, Single, Deleting, OfOneKind,
               GuestCleaned, Recorded, Uploaded
        <3>9. Extracting'
            BY <1>0, <1>1, <2>1, <2>6 DEF Fitting, Single, NoDuplicateBox, Deleting,
               OfOneKind, Recorded, Uploaded, Extracting, State
        <3>10. QED  BY <3>1, <3>2, <3>3, <3>4, <3>5, <3>6, <3>7, <3>8, <3>9 DEF IInv
    <2>7. QED  BY <2>4, <2>5, <2>6
<1>2. QED
    BY <1>1 DEF RecordsReady

\* The temporary key and files leave the guest of the operation.
LEMMA CleansGuestKeeps ==
    ASSUME IInv, NEW p \in Commands, CleansGuest(p)
    PROVE  IInv'
<1>0. /\ TypeOK /\ Fitting /\ Single /\ Deleting /\ OfOneKind /\ GuestCleaned
      /\ Recorded /\ Uploaded /\ Extracting
      /\ None \notin Boxes \cup Vmids \cup Operation \cup Container
    BY ProvisionAssumption, NoneIsNoRecord DEF IInv
<1> USE DEF OnlyMoves, Becomes, Advances, Ends, Records, Alters, Keeps, Saved,
           Early, SshSteps, TemplateSteps, NewSteps, RepairSteps, DeleteSteps,
           EarlyNew, NewOf, Absent, Settled, Has, Remembers
<1>1. CASE /\ run[p].step = "clean"
           /\ run[p].memory.phase = "guest-cleaned"
           /\ BySsh(p) \/ ByAgent(p)
           /\ containers' = [containers EXCEPT ![run[p].vmid].creds = FALSE]
           /\ Goto(p, "forget")
           /\ UNCHANGED <<uploads, templates, operations, unrecorded, faults>>
    <2>1. run[p].vmid \in Vmids /\ containers[run[p].vmid] # None /\ containers[run[p].vmid] \in Container
        BY <1>0, <1>1 DEF TypeOK, Fitting, BySsh, ByAgent, Has, State
    <2>2. Keeps(run[p].vmid, containers[run[p].vmid].state, containers[run[p].vmid].agent, FALSE)
        BY <1>0, <1>1, <2>1 DEF TypeOK, Container
    <2>3. Advances(p, "forget")
        BY <1>0, <1>1, GotoMoves DEF Steps
    <2>4. run[p].step = "clean" /\ containers[run[p].vmid].box = run[p].box
          /\ containers[run[p].vmid].state = "running"
          /\ UNCHANGED <<uploads, templates, operations, unrecorded, faults>>
        BY <1>1 DEF TypeOK, BySsh, ByAgent, Has, State
    <2>5. TypeOK'  BY <1>0, <2>1, <2>2, <2>3, <2>4 DEF TypeOK, Runs, RunStates
    <2>6. Fitting'  BY <1>0, <2>1, <2>2, <2>3, <2>4 DEF Fitting
    <2>7. Single'  BY <1>0, <2>1, <2>2, <2>3, <2>4 DEF Fitting, Single, NoDuplicateBox
    <2>8. Deleting'
        BY <1>0, <2>1, <2>2, <2>3, <2>4 DEF Fitting, Single, NoDuplicateBox, Deleting
    <2>9. OfOneKind'  BY <1>0, <2>1, <2>2, <2>3, <2>4 DEF Fitting, Single, OfOneKind
    <2>10. GuestCleaned'
        BY <1>0, <2>1, <2>2, <2>3, <2>4 DEF Fitting, Single, NoDuplicateBox, OfOneKind,
           GuestCleaned
    <2>11. Recorded'
        BY <1>0, <2>1, <2>2, <2>3, <2>4 DEF Fitting, Single, Deleting, OfOneKind,
           GuestCleaned, Recorded, Uploaded, Unfinished
    <2>12. Uploaded'
        BY <1>0, <2>1, <2>2, <2>3, <2>4 DEF Fitting, Single, Deleting, OfOneKind,
           GuestCleaned, Recorded, Uploaded
    <2>13. Extracting'
        BY <1>0, <2>1, <2>2, <2>3, <2>4 DEF Fitting, Single, NoDuplicateBox, Deleting,
           OfOneKind, Recorded, Uploaded, Extracting, State
    <2>14. QED  BY <2>5, <2>6, <2>7, <2>8, <2>9, <2>10, <2>11, <2>12, <2>13 DEF IInv
<1>2. CASE /\ run[p].step = "clean"
           /\ run[p].memory.phase # "guest-cleaned"
           /\ BySsh(p) \/ ByAgent(p)
           /\ containers' = [containers EXCEPT ![run[p].vmid].creds = FALSE]
           /\ Goto(p, "cleaned")
           /\ UNCHANGED <<uploads, templates, operations, unrecorded, faults>>
    <2>1. run[p].vmid \in Vmids /\ containers[run[p].vmid] # None /\ containers[run[p].vmid] \in Container
        BY <1>0, <1>2 DEF TypeOK, Fitting, BySsh, ByAgent, Has, State
    <2>2. Keeps(run[p].vmid, containers[run[p].vmid].state, containers[run[p].vmid].agent, FALSE)
        BY <1>0, <1>2, <2>1 DEF TypeOK, Container
    <2>3. Advances(p, "cleaned")
        BY <1>0, <1>2, GotoMoves DEF Steps
    <2>4. run[p].step = "clean" /\ containers[run[p].vmid].box = run[p].box
          /\ containers[run[p].vmid].state = "running"
          /\ UNCHANGED <<uploads, templates, operations, unrecorded, faults>>
        BY <1>2 DEF TypeOK, BySsh, ByAgent, Has, State
    <2>5. TypeOK'  BY <1>0, <2>1, <2>2, <2>3, <2>4 DEF TypeOK, Runs, RunStates
    <2>6. Fitting'  BY <1>0, <2>1, <2>2, <2>3, <2>4 DEF Fitting
    <2>7. Single'  BY <1>0, <2>1, <2>2, <2>3, <2>4 DEF Fitting, Single, NoDuplicateBox
    <2>8. Deleting'
        BY <1>0, <2>1, <2>2, <2>3, <2>4 DEF Fitting, Single, NoDuplicateBox, Deleting
    <2>9. OfOneKind'  BY <1>0, <2>1, <2>2, <2>3, <2>4 DEF Fitting, Single, OfOneKind
    <2>10. GuestCleaned'
        BY <1>0, <2>1, <2>2, <2>3, <2>4 DEF Fitting, Single, NoDuplicateBox, OfOneKind,
           GuestCleaned
    <2>11. Recorded'
        BY <1>0, <2>1, <2>2, <2>3, <2>4 DEF Fitting, Single, Deleting, OfOneKind,
           GuestCleaned, Recorded, Uploaded, Unfinished
    <2>12. Uploaded'
        BY <1>0, <2>1, <2>2, <2>3, <2>4 DEF Fitting, Single, Deleting, OfOneKind,
           GuestCleaned, Recorded, Uploaded
    <2>13. Extracting'
        BY <1>0, <2>1, <2>2, <2>3, <2>4 DEF Fitting, Single, NoDuplicateBox, Deleting,
           OfOneKind, Recorded, Uploaded, Extracting, State
    <2>14. QED  BY <2>5, <2>6, <2>7, <2>8, <2>9, <2>10, <2>11, <2>12, <2>13 DEF IInv
<1>3. CASE /\ run[p].step = "clean"
           /\ Exit(p)
           /\ UNCHANGED <<containers, uploads, templates, operations, unrecorded, faults>>
    <2>1. Ends(p)
        BY <1>0, <1>3, ExitMoves
    <2>2. QED
        BY <1>0, <1>3, <2>1, EndKeeps DEF TypeOK
<1>4. QED
    BY <1>1, <1>2, <1>3 DEF CleansGuest

\* The operation says that the guest is clean.
LEMMA RecordsCleanKeeps ==
    ASSUME IInv, NEW p \in Commands, RecordsClean(p)
    PROVE  IInv'
<1>0. /\ TypeOK /\ Fitting /\ Single /\ Deleting /\ OfOneKind /\ GuestCleaned
      /\ Recorded /\ Uploaded /\ Extracting
      /\ None \notin Boxes \cup Vmids \cup Operation \cup Container
    BY ProvisionAssumption, NoneIsNoRecord DEF IInv
<1> USE DEF OnlyMoves, Becomes, Advances, Ends, Records, Alters, Keeps, Saved,
           Early, SshSteps, TemplateSteps, NewSteps, RepairSteps, DeleteSteps,
           EarlyNew, NewOf, Absent, Settled, Has, Remembers
<1>1. CASE /\ run[p].step = "cleaned"
           /\ Save(p, [run[p].memory EXCEPT !.vmid = run[p].vmid, !.phase = "guest-cleaned"], "forget")
           /\ UNCHANGED <<containers, uploads, templates, unrecorded, faults>>
    <2> DEFINE operation == [run[p].memory EXCEPT !.vmid = run[p].vmid, !.phase = "guest-cleaned"]
    <2>1. run[p].box \in Boxes /\ run[p].memory \in Operation
        BY <1>0, <1>1 DEF TypeOK, Fitting, Remembers
    <2>2. /\ operation \in Operation
          /\ operation.vmid = run[p].vmid
          /\ operation.phase = "guest-cleaned"
          /\ operation.relay = run[p].memory.relay
          /\ operation.template = run[p].memory.template
          /\ operation.task = run[p].memory.task
        BY <1>0, <1>1, <2>1 DEF Operation, Phases, TypeOK, Fitting
    <2> HIDE DEF operation
    <2>3. Save(p, operation, "forget")
        BY <1>1 DEF operation
    <2>4. Saved(p, "forget", run[p].vmid, "guest-cleaned", run[p].memory.template, run[p].memory.task) \/ Unsaved(p)
        BY <1>0, <2>1, <2>2, <2>3, SaveAmends DEF Steps
    <2>5. CASE Unsaved(p)
        BY <1>0, <1>1, <2>5, EndKeeps DEF Unsaved, TypeOK
    <2>6. CASE Saved(p, "forget", run[p].vmid, "guest-cleaned", run[p].memory.template, run[p].memory.task)
        <3>1. TypeOK'  BY <1>0, <1>1, <2>1, <2>6 DEF TypeOK, Runs, RunStates
        <3>2. Fitting'  BY <1>0, <1>1, <2>1, <2>6 DEF Fitting
        <3>3. Single'  BY <1>0, <1>1, <2>1, <2>6 DEF Fitting, Single, NoDuplicateBox
        <3>4. Deleting'
            BY <1>0, <1>1, <2>1, <2>6 DEF Fitting, Single, NoDuplicateBox, Deleting
        <3>5. OfOneKind'  BY <1>0, <1>1, <2>1, <2>6 DEF Fitting, Single, OfOneKind
        <3>6. GuestCleaned'
            BY <1>0, <1>1, <2>1, <2>6 DEF Fitting, Single, NoDuplicateBox, OfOneKind,
               GuestCleaned
        <3>7. Recorded'
            BY <1>0, <1>1, <2>1, <2>6 DEF Fitting, Single, Deleting, OfOneKind,
               GuestCleaned, Recorded, Uploaded, Unfinished
        <3>8. Uploaded'
            BY <1>0, <1>1, <2>1, <2>6 DEF Fitting, Single, Deleting, OfOneKind,
               GuestCleaned, Recorded, Uploaded
        <3>9. Extracting'
            BY <1>0, <1>1, <2>1, <2>6 DEF Fitting, Single, NoDuplicateBox, Deleting,
               OfOneKind, Recorded, Uploaded, Extracting, State
        <3>10. QED  BY <3>1, <3>2, <3>3, <3>4, <3>5, <3>6, <3>7, <3>8, <3>9 DEF IInv
    <2>7. QED  BY <2>4, <2>5, <2>6
<1>2. QED
    BY <1>1 DEF RecordsClean

\* The operation is given up when it has nothing left to tell.
LEMMA ForgetsKeeps ==
    ASSUME IInv, NEW p \in Commands, Forgets(p)
    PROVE  IInv'
<1>0. /\ TypeOK /\ Fitting /\ Single /\ Deleting /\ OfOneKind /\ GuestCleaned
      /\ Recorded /\ Uploaded /\ Extracting
      /\ None \notin Boxes \cup Vmids \cup Operation \cup Container
    BY ProvisionAssumption, NoneIsNoRecord DEF IInv
<1> USE DEF OnlyMoves, Becomes, Advances, Ends, Records, Alters, Keeps, Saved,
           Early, SshSteps, TemplateSteps, NewSteps, RepairSteps, DeleteSteps,
           EarlyNew, NewOf, Absent, Settled, Has, Remembers
<1>1. CASE /\ run[p].step = "forget"
           /\ Forget(p)
           /\ UNCHANGED <<containers, uploads, templates, unrecorded, faults>>
    <2>1. run[p].box \in Boxes
        BY <1>0, <1>1 DEF Fitting
    <2>2. Ends(p) /\ Records(run[p].box, None)
        BY <1>0, <1>1, <2>1, ForgetMoves
    <2>3. TypeOK'  BY <1>0, <1>1, <2>1, <2>2 DEF TypeOK, Runs, RunStates
    <2>4. Fitting'  BY <1>0, <1>1, <2>1, <2>2 DEF Fitting
    <2>5. Single'  BY <1>0, <1>1, <2>1, <2>2 DEF Fitting, Single, NoDuplicateBox
    <2>6. Deleting'  BY <1>0, <1>1, <2>1, <2>2 DEF Fitting, Single, NoDuplicateBox, Deleting
    <2>7. OfOneKind'  BY <1>0, <1>1, <2>1, <2>2 DEF Fitting, Single, OfOneKind
    <2>8. GuestCleaned'
        BY <1>0, <1>1, <2>1, <2>2 DEF Fitting, Single, NoDuplicateBox, OfOneKind,
           GuestCleaned
    <2>9. Recorded'
        BY <1>0, <1>1, <2>1, <2>2 DEF Fitting, Single, Deleting, OfOneKind,
           GuestCleaned, Recorded, Uploaded, Unfinished
    <2>10. Uploaded'
        BY <1>0, <1>1, <2>1, <2>2 DEF Fitting, Single, Deleting, OfOneKind,
           GuestCleaned, Recorded, Uploaded
    <2>11. Extracting'
        BY <1>0, <1>1, <2>1, <2>2 DEF Fitting, Single, NoDuplicateBox, Deleting,
           OfOneKind, Recorded, Uploaded, Extracting, State
    <2>12. QED  BY <2>3, <2>4, <2>5, <2>6, <2>7, <2>8, <2>9, <2>10, <2>11 DEF IInv
<1>2. QED
    BY <1>1 DEF Forgets

\* The recorded task is forgotten once it has stopped.
LEMMA UntasksKeeps ==
    ASSUME IInv, NEW p \in Commands, Untasks(p)
    PROVE  IInv'
<1>0. /\ TypeOK /\ Fitting /\ Single /\ Deleting /\ OfOneKind /\ GuestCleaned
      /\ Recorded /\ Uploaded /\ Extracting
      /\ None \notin Boxes \cup Vmids \cup Operation \cup Container
    BY ProvisionAssumption, NoneIsNoRecord DEF IInv
<1> USE DEF OnlyMoves, Becomes, Advances, Ends, Records, Alters, Keeps, Saved,
           Early, SshSteps, TemplateSteps, NewSteps, RepairSteps, DeleteSteps,
           EarlyNew, NewOf, Absent, Settled, Has, Remembers
<1>1. CASE /\ run[p].step = "untask"
           /\ run[p].memory.task = "none"
           /\ Goto(p, "untemplate")
           /\ UNCHANGED <<containers, uploads, templates, operations, unrecorded, faults>>
    <2>1. Advances(p, "untemplate")
        BY <1>0, <1>1, GotoMoves DEF Steps
    <2>2. TypeOK'  BY <1>0, <1>1, <2>1 DEF TypeOK, Runs, RunStates
    <2>3. Fitting'  BY <1>0, <1>1, <2>1 DEF Fitting
    <2>4. Single'  BY <1>0, <1>1, <2>1 DEF Fitting, Single, NoDuplicateBox
    <2>5. Deleting'  BY <1>0, <1>1, <2>1 DEF Fitting, Single, NoDuplicateBox, Deleting
    <2>6. OfOneKind'  BY <1>0, <1>1, <2>1 DEF Fitting, Single, OfOneKind
    <2>7. GuestCleaned'
        BY <1>0, <1>1, <2>1 DEF Fitting, Single, NoDuplicateBox, OfOneKind, GuestCleaned
    <2>8. Recorded'
        BY <1>0, <1>1, <2>1 DEF Fitting, Single, Deleting, OfOneKind, GuestCleaned,
           Recorded, Uploaded, Unfinished
    <2>9. Uploaded'
        BY <1>0, <1>1, <2>1 DEF Fitting, Single, Deleting, OfOneKind, GuestCleaned,
           Recorded, Uploaded
    <2>10. Extracting'
        BY <1>0, <1>1, <2>1 DEF Fitting, Single, NoDuplicateBox, Deleting, OfOneKind,
           Recorded, Uploaded, Extracting, State
    <2>11. QED  BY <2>2, <2>3, <2>4, <2>5, <2>6, <2>7, <2>8, <2>9, <2>10 DEF IInv
<1>2. CASE /\ run[p].step = "untask"
           /\ run[p].memory.task # "none"
           /\ TaskStopped(run[p].box, run[p].memory.task)
           /\ Save(p, [run[p].memory EXCEPT !.task = "none"], "untemplate")
           /\ UNCHANGED <<containers, uploads, templates, unrecorded, faults>>
    <2> DEFINE operation == [run[p].memory EXCEPT !.task = "none"]
    <2>1. run[p].box \in Boxes /\ run[p].memory \in Operation
        BY <1>0, <1>2 DEF TypeOK, Fitting, Remembers
    <2>2. /\ operation \in Operation
          /\ operation.vmid = run[p].memory.vmid
          /\ operation.phase = run[p].memory.phase
          /\ operation.relay = run[p].memory.relay
          /\ operation.template = run[p].memory.template
          /\ operation.task = "none"
        BY <1>0, <1>2, <2>1 DEF Operation, Phases, TypeOK, Fitting
    <2> HIDE DEF operation
    <2>3. Save(p, operation, "untemplate")
        BY <1>2 DEF operation
    <2>4. Saved(p, "untemplate", run[p].memory.vmid, run[p].memory.phase, run[p].memory.template, "none") \/ Unsaved(p)
        BY <1>0, <2>1, <2>2, <2>3, SaveAmends DEF Steps
    <2>0. /\ run[p].memory.task = "upload" => run[p].box \notin uploads
          /\ run[p].memory.task = "create" =>
                 \A v \in Vmids : Has(v, run[p].box) => State(v) # "creating"
          /\ run[p].memory.task \in {"upload", "create"}
        BY <1>2, <2>1 DEF TaskStopped, Operation
    <2>5. CASE Unsaved(p)
        BY <1>0, <1>2, <2>5, EndKeeps DEF Unsaved, TypeOK
    <2>6. CASE Saved(p, "untemplate", run[p].memory.vmid, run[p].memory.phase, run[p].memory.template, "none")
        <3>1. TypeOK'  BY <1>0, <1>2, <2>0, <2>1, <2>6 DEF TypeOK, Runs, RunStates
        <3>2. Fitting'  BY <1>0, <1>2, <2>0, <2>1, <2>6 DEF Fitting
        <3>3. Single'  BY <1>0, <1>2, <2>0, <2>1, <2>6 DEF Fitting, Single, NoDuplicateBox
        <3>4. Deleting'
            BY <1>0, <1>2, <2>0, <2>1, <2>6 DEF Fitting, Single, NoDuplicateBox, Deleting
        <3>5. OfOneKind'  BY <1>0, <1>2, <2>0, <2>1, <2>6 DEF Fitting, Single, OfOneKind
        <3>6. GuestCleaned'
            BY <1>0, <1>2, <2>0, <2>1, <2>6 DEF Fitting, Single, NoDuplicateBox, OfOneKind,
               GuestCleaned
        <3>7. Recorded'
            BY <1>0, <1>2, <2>0, <2>1, <2>6 DEF Fitting, Single, Deleting, OfOneKind,
               GuestCleaned, Recorded, Uploaded, Unfinished
        <3>8. Uploaded'
            BY <1>0, <1>2, <2>0, <2>1, <2>6 DEF Fitting, Single, Deleting, OfOneKind,
               GuestCleaned, Recorded, Uploaded
        <3>9. Extracting'
            BY <1>0, <1>2, <2>0, <2>1, <2>6 DEF Fitting, Single, NoDuplicateBox, Deleting,
               OfOneKind, Recorded, Uploaded, Extracting, State
        <3>10. QED  BY <3>1, <3>2, <3>3, <3>4, <3>5, <3>6, <3>7, <3>8, <3>9 DEF IInv
    <2>7. QED  BY <2>4, <2>5, <2>6
<1>3. CASE /\ run[p].step = "untask"
           /\ Exit(p)
           /\ UNCHANGED <<containers, uploads, templates, operations, unrecorded, faults>>
    <2>1. Ends(p)
        BY <1>0, <1>3, ExitMoves
    <2>2. QED
        BY <1>0, <1>3, <2>1, EndKeeps DEF TypeOK
<1>4. QED
    BY <1>1, <1>2, <1>3 DEF Untasks

\* The private template is deleted, then the operation forgets it.
LEMMA UntemplatesKeeps ==
    ASSUME IInv, NEW p \in Commands, Untemplates(p)
    PROVE  IInv'
<1>0. /\ TypeOK /\ Fitting /\ Single /\ Deleting /\ OfOneKind /\ GuestCleaned
      /\ Recorded /\ Uploaded /\ Extracting
      /\ None \notin Boxes \cup Vmids \cup Operation \cup Container
    BY ProvisionAssumption, NoneIsNoRecord DEF IInv
<1> USE DEF OnlyMoves, Becomes, Advances, Ends, Records, Alters, Keeps, Saved,
           Early, SshSteps, TemplateSteps, NewSteps, RepairSteps, DeleteSteps,
           EarlyNew, NewOf, Absent, Settled, Has, Remembers
<1>1. CASE /\ run[p].step = "untemplate"
           /\ run[p].verb = "new"
           /\ run[p].memory.template
           /\ templates' = templates \ {run[p].box}
           /\ Save(p, [run[p].memory EXCEPT !.template = FALSE], "connect")
           /\ UNCHANGED <<containers, uploads, unrecorded, faults>>
    <2> DEFINE operation == [run[p].memory EXCEPT !.template = FALSE]
    <2>1. run[p].box \in Boxes /\ run[p].memory \in Operation
        BY <1>0, <1>1 DEF TypeOK, Fitting, Remembers
    <2>2. /\ operation \in Operation
          /\ operation.vmid = run[p].memory.vmid
          /\ operation.phase = run[p].memory.phase
          /\ operation.relay = run[p].memory.relay
          /\ operation.template = FALSE
          /\ operation.task = run[p].memory.task
        BY <1>0, <1>1, <2>1 DEF Operation, Phases, TypeOK, Fitting
    <2> HIDE DEF operation
    <2>3. Save(p, operation, "connect")
        BY <1>1 DEF operation
    <2>4. Saved(p, "connect", run[p].memory.vmid, run[p].memory.phase, FALSE, run[p].memory.task) \/ Unsaved(p)
        BY <1>0, <2>1, <2>2, <2>3, SaveAmends DEF Steps
    <2>5. CASE Unsaved(p)
        <3>1. TypeOK'  BY <1>0, <1>1, <2>1, <2>5 DEF Unsaved, TypeOK, Runs, RunStates
        <3>2. Fitting'  BY <1>0, <1>1, <2>1, <2>5 DEF Unsaved, Fitting
        <3>3. Single'  BY <1>0, <1>1, <2>1, <2>5 DEF Unsaved, Fitting, Single, NoDuplicateBox
        <3>4. Deleting'
            BY <1>0, <1>1, <2>1, <2>5 DEF Unsaved, Fitting, Single, NoDuplicateBox, Deleting
        <3>5. OfOneKind'  BY <1>0, <1>1, <2>1, <2>5 DEF Unsaved, Fitting, Single, OfOneKind
        <3>6. GuestCleaned'
            BY <1>0, <1>1, <2>1, <2>5 DEF Unsaved, Fitting, Single, NoDuplicateBox, OfOneKind,
               GuestCleaned
        <3>7. Recorded'
            BY <1>0, <1>1, <2>1, <2>5 DEF Unsaved, Fitting, Single, Deleting, OfOneKind,
               GuestCleaned, Recorded, Uploaded, Unfinished
        <3>8. Uploaded'
            BY <1>0, <1>1, <2>1, <2>5 DEF Unsaved, Fitting, Single, Deleting, OfOneKind,
               GuestCleaned, Recorded, Uploaded
        <3>9. Extracting'
            BY <1>0, <1>1, <2>1, <2>5 DEF Unsaved, Fitting, Single, NoDuplicateBox, Deleting,
               OfOneKind, Recorded, Uploaded, Extracting, State
        <3>10. QED  BY <3>1, <3>2, <3>3, <3>4, <3>5, <3>6, <3>7, <3>8, <3>9 DEF IInv
    <2>6. CASE Saved(p, "connect", run[p].memory.vmid, run[p].memory.phase, FALSE, run[p].memory.task)
        <3>1. TypeOK'  BY <1>0, <1>1, <2>1, <2>6 DEF TypeOK, Runs, RunStates
        <3>2. Fitting'  BY <1>0, <1>1, <2>1, <2>6 DEF Fitting
        <3>3. Single'  BY <1>0, <1>1, <2>1, <2>6 DEF Fitting, Single, NoDuplicateBox
        <3>4. Deleting'
            BY <1>0, <1>1, <2>1, <2>6 DEF Fitting, Single, NoDuplicateBox, Deleting
        <3>5. OfOneKind'  BY <1>0, <1>1, <2>1, <2>6 DEF Fitting, Single, OfOneKind
        <3>6. GuestCleaned'
            BY <1>0, <1>1, <2>1, <2>6 DEF Fitting, Single, NoDuplicateBox, OfOneKind,
               GuestCleaned
        <3>7. Recorded'
            BY <1>0, <1>1, <2>1, <2>6 DEF Fitting, Single, Deleting, OfOneKind,
               GuestCleaned, Recorded, Uploaded, Unfinished
        <3>8. Uploaded'
            BY <1>0, <1>1, <2>1, <2>6 DEF Fitting, Single, Deleting, OfOneKind,
               GuestCleaned, Recorded, Uploaded
        <3>9. Extracting'
            BY <1>0, <1>1, <2>1, <2>6 DEF Fitting, Single, NoDuplicateBox, Deleting,
               OfOneKind, Recorded, Uploaded, Extracting, State
        <3>10. QED  BY <3>1, <3>2, <3>3, <3>4, <3>5, <3>6, <3>7, <3>8, <3>9 DEF IInv
    <2>7. QED  BY <2>4, <2>5, <2>6
<1>2. CASE /\ run[p].step = "untemplate"
           /\ run[p].verb # "new"
           /\ run[p].memory.template
           /\ templates' = templates \ {run[p].box}
           /\ Save(p, [run[p].memory EXCEPT !.template = FALSE], "forget")
           /\ UNCHANGED <<containers, uploads, unrecorded, faults>>
    <2> DEFINE operation == [run[p].memory EXCEPT !.template = FALSE]
    <2>1. run[p].box \in Boxes /\ run[p].memory \in Operation
        BY <1>0, <1>2 DEF TypeOK, Fitting, Remembers
    <2>2. /\ operation \in Operation
          /\ operation.vmid = run[p].memory.vmid
          /\ operation.phase = run[p].memory.phase
          /\ operation.relay = run[p].memory.relay
          /\ operation.template = FALSE
          /\ operation.task = run[p].memory.task
        BY <1>0, <1>2, <2>1 DEF Operation, Phases, TypeOK, Fitting
    <2> HIDE DEF operation
    <2>3. Save(p, operation, "forget")
        BY <1>2 DEF operation
    <2>4. Saved(p, "forget", run[p].memory.vmid, run[p].memory.phase, FALSE, run[p].memory.task) \/ Unsaved(p)
        BY <1>0, <2>1, <2>2, <2>3, SaveAmends DEF Steps
    <2>5. CASE Unsaved(p)
        <3>1. TypeOK'  BY <1>0, <1>2, <2>1, <2>5 DEF Unsaved, TypeOK, Runs, RunStates
        <3>2. Fitting'  BY <1>0, <1>2, <2>1, <2>5 DEF Unsaved, Fitting
        <3>3. Single'  BY <1>0, <1>2, <2>1, <2>5 DEF Unsaved, Fitting, Single, NoDuplicateBox
        <3>4. Deleting'
            BY <1>0, <1>2, <2>1, <2>5 DEF Unsaved, Fitting, Single, NoDuplicateBox, Deleting
        <3>5. OfOneKind'  BY <1>0, <1>2, <2>1, <2>5 DEF Unsaved, Fitting, Single, OfOneKind
        <3>6. GuestCleaned'
            BY <1>0, <1>2, <2>1, <2>5 DEF Unsaved, Fitting, Single, NoDuplicateBox, OfOneKind,
               GuestCleaned
        <3>7. Recorded'
            BY <1>0, <1>2, <2>1, <2>5 DEF Unsaved, Fitting, Single, Deleting, OfOneKind,
               GuestCleaned, Recorded, Uploaded, Unfinished
        <3>8. Uploaded'
            BY <1>0, <1>2, <2>1, <2>5 DEF Unsaved, Fitting, Single, Deleting, OfOneKind,
               GuestCleaned, Recorded, Uploaded
        <3>9. Extracting'
            BY <1>0, <1>2, <2>1, <2>5 DEF Unsaved, Fitting, Single, NoDuplicateBox, Deleting,
               OfOneKind, Recorded, Uploaded, Extracting, State
        <3>10. QED  BY <3>1, <3>2, <3>3, <3>4, <3>5, <3>6, <3>7, <3>8, <3>9 DEF IInv
    <2>6. CASE Saved(p, "forget", run[p].memory.vmid, run[p].memory.phase, FALSE, run[p].memory.task)
        <3>1. TypeOK'  BY <1>0, <1>2, <2>1, <2>6 DEF TypeOK, Runs, RunStates
        <3>2. Fitting'  BY <1>0, <1>2, <2>1, <2>6 DEF Fitting
        <3>3. Single'  BY <1>0, <1>2, <2>1, <2>6 DEF Fitting, Single, NoDuplicateBox
        <3>4. Deleting'
            BY <1>0, <1>2, <2>1, <2>6 DEF Fitting, Single, NoDuplicateBox, Deleting
        <3>5. OfOneKind'  BY <1>0, <1>2, <2>1, <2>6 DEF Fitting, Single, OfOneKind
        <3>6. GuestCleaned'
            BY <1>0, <1>2, <2>1, <2>6 DEF Fitting, Single, NoDuplicateBox, OfOneKind,
               GuestCleaned
        <3>7. Recorded'
            BY <1>0, <1>2, <2>1, <2>6 DEF Fitting, Single, Deleting, OfOneKind,
               GuestCleaned, Recorded, Uploaded, Unfinished
        <3>8. Uploaded'
            BY <1>0, <1>2, <2>1, <2>6 DEF Fitting, Single, Deleting, OfOneKind,
               GuestCleaned, Recorded, Uploaded
        <3>9. Extracting'
            BY <1>0, <1>2, <2>1, <2>6 DEF Fitting, Single, NoDuplicateBox, Deleting,
               OfOneKind, Recorded, Uploaded, Extracting, State
        <3>10. QED  BY <3>1, <3>2, <3>3, <3>4, <3>5, <3>6, <3>7, <3>8, <3>9 DEF IInv
    <2>7. QED  BY <2>4, <2>5, <2>6
<1>3. CASE /\ run[p].step = "untemplate"
           /\ run[p].verb = "new"
           /\ ~run[p].memory.template
           /\ Goto(p, "connect")
           /\ UNCHANGED <<containers, uploads, templates, operations, unrecorded, faults>>
    <2>1. Advances(p, "connect")
        BY <1>0, <1>3, GotoMoves DEF Steps
    <2>2. TypeOK'  BY <1>0, <1>3, <2>1 DEF TypeOK, Runs, RunStates
    <2>3. Fitting'  BY <1>0, <1>3, <2>1 DEF Fitting
    <2>4. Single'  BY <1>0, <1>3, <2>1 DEF Fitting, Single, NoDuplicateBox
    <2>5. Deleting'  BY <1>0, <1>3, <2>1 DEF Fitting, Single, NoDuplicateBox, Deleting
    <2>6. OfOneKind'  BY <1>0, <1>3, <2>1 DEF Fitting, Single, OfOneKind
    <2>7. GuestCleaned'
        BY <1>0, <1>3, <2>1 DEF Fitting, Single, NoDuplicateBox, OfOneKind, GuestCleaned
    <2>8. Recorded'
        BY <1>0, <1>3, <2>1 DEF Fitting, Single, Deleting, OfOneKind, GuestCleaned,
           Recorded, Uploaded, Unfinished
    <2>9. Uploaded'
        BY <1>0, <1>3, <2>1 DEF Fitting, Single, Deleting, OfOneKind, GuestCleaned,
           Recorded, Uploaded
    <2>10. Extracting'
        BY <1>0, <1>3, <2>1 DEF Fitting, Single, NoDuplicateBox, Deleting, OfOneKind,
           Recorded, Uploaded, Extracting, State
    <2>11. QED  BY <2>2, <2>3, <2>4, <2>5, <2>6, <2>7, <2>8, <2>9, <2>10 DEF IInv
<1>4. CASE /\ run[p].step = "untemplate"
           /\ run[p].verb # "new"
           /\ ~run[p].memory.template
           /\ Goto(p, "forget")
           /\ UNCHANGED <<containers, uploads, templates, operations, unrecorded, faults>>
    <2>1. Advances(p, "forget")
        BY <1>0, <1>4, GotoMoves DEF Steps
    <2>2. TypeOK'  BY <1>0, <1>4, <2>1 DEF TypeOK, Runs, RunStates
    <2>3. Fitting'  BY <1>0, <1>4, <2>1 DEF Fitting
    <2>4. Single'  BY <1>0, <1>4, <2>1 DEF Fitting, Single, NoDuplicateBox
    <2>5. Deleting'  BY <1>0, <1>4, <2>1 DEF Fitting, Single, NoDuplicateBox, Deleting
    <2>6. OfOneKind'  BY <1>0, <1>4, <2>1 DEF Fitting, Single, OfOneKind
    <2>7. GuestCleaned'
        BY <1>0, <1>4, <2>1 DEF Fitting, Single, NoDuplicateBox, OfOneKind, GuestCleaned
    <2>8. Recorded'
        BY <1>0, <1>4, <2>1 DEF Fitting, Single, Deleting, OfOneKind, GuestCleaned,
           Recorded, Uploaded, Unfinished
    <2>9. Uploaded'
        BY <1>0, <1>4, <2>1 DEF Fitting, Single, Deleting, OfOneKind, GuestCleaned,
           Recorded, Uploaded
    <2>10. Extracting'
        BY <1>0, <1>4, <2>1 DEF Fitting, Single, NoDuplicateBox, Deleting, OfOneKind,
           Recorded, Uploaded, Extracting, State
    <2>11. QED  BY <2>2, <2>3, <2>4, <2>5, <2>6, <2>7, <2>8, <2>9, <2>10 DEF IInv
<1>5. QED
    BY <1>1, <1>2, <1>3, <1>4 DEF Untemplates, AfterTemplate

\* The agent of the box answers through the relay.
LEMMA ConnectsKeeps ==
    ASSUME IInv, NEW p \in Commands, Connects(p)
    PROVE  IInv'
<1>0. /\ TypeOK /\ Fitting /\ Single /\ Deleting /\ OfOneKind /\ GuestCleaned
      /\ Recorded /\ Uploaded /\ Extracting
      /\ None \notin Boxes \cup Vmids \cup Operation \cup Container
    BY ProvisionAssumption, NoneIsNoRecord DEF IInv
<1> USE DEF OnlyMoves, Becomes, Advances, Ends, Records, Alters, Keeps, Saved,
           Early, SshSteps, TemplateSteps, NewSteps, RepairSteps, DeleteSteps,
           EarlyNew, NewOf, Absent, Settled, Has, Remembers
<1>1. CASE /\ run[p].step = "connect"
           /\ run[p].verb = "new"
           /\ \E v \in Vmids : Has(v, run[p].box) /\ State(v) = "running"
           /\ Goto(p, "forget")
           /\ UNCHANGED <<containers, uploads, templates, operations, unrecorded, faults>>
    <2>1. Advances(p, "forget")
        BY <1>0, <1>1, GotoMoves DEF Steps
    <2>2. TypeOK'  BY <1>0, <1>1, <2>1 DEF TypeOK, Runs, RunStates
    <2>3. Fitting'  BY <1>0, <1>1, <2>1 DEF Fitting
    <2>4. Single'  BY <1>0, <1>1, <2>1 DEF Fitting, Single, NoDuplicateBox
    <2>5. Deleting'  BY <1>0, <1>1, <2>1 DEF Fitting, Single, NoDuplicateBox, Deleting
    <2>6. OfOneKind'  BY <1>0, <1>1, <2>1 DEF Fitting, Single, OfOneKind
    <2>7. GuestCleaned'
        BY <1>0, <1>1, <2>1 DEF Fitting, Single, NoDuplicateBox, OfOneKind, GuestCleaned
    <2>8. Recorded'
        BY <1>0, <1>1, <2>1 DEF Fitting, Single, Deleting, OfOneKind, GuestCleaned,
           Recorded, Uploaded, Unfinished
    <2>9. Uploaded'
        BY <1>0, <1>1, <2>1 DEF Fitting, Single, Deleting, OfOneKind, GuestCleaned,
           Recorded, Uploaded
    <2>10. Extracting'
        BY <1>0, <1>1, <2>1 DEF Fitting, Single, NoDuplicateBox, Deleting, OfOneKind,
           Recorded, Uploaded, Extracting, State
    <2>11. QED  BY <2>2, <2>3, <2>4, <2>5, <2>6, <2>7, <2>8, <2>9, <2>10 DEF IInv
<1>2. CASE /\ run[p].step = "connect"
           /\ run[p].verb # "new"
           /\ \E v \in Vmids : Has(v, run[p].box) /\ State(v) = "running"
           /\ Goto(p, "untask")
           /\ UNCHANGED <<containers, uploads, templates, operations, unrecorded, faults>>
    <2>1. Advances(p, "untask")
        BY <1>0, <1>2, GotoMoves DEF Steps
    <2>2. TypeOK'  BY <1>0, <1>2, <2>1 DEF TypeOK, Runs, RunStates
    <2>3. Fitting'  BY <1>0, <1>2, <2>1 DEF Fitting
    <2>4. Single'  BY <1>0, <1>2, <2>1 DEF Fitting, Single, NoDuplicateBox
    <2>5. Deleting'  BY <1>0, <1>2, <2>1 DEF Fitting, Single, NoDuplicateBox, Deleting
    <2>6. OfOneKind'  BY <1>0, <1>2, <2>1 DEF Fitting, Single, OfOneKind
    <2>7. GuestCleaned'
        BY <1>0, <1>2, <2>1 DEF Fitting, Single, NoDuplicateBox, OfOneKind, GuestCleaned
    <2>8. Recorded'
        BY <1>0, <1>2, <2>1 DEF Fitting, Single, Deleting, OfOneKind, GuestCleaned,
           Recorded, Uploaded, Unfinished
    <2>9. Uploaded'
        BY <1>0, <1>2, <2>1 DEF Fitting, Single, Deleting, OfOneKind, GuestCleaned,
           Recorded, Uploaded
    <2>10. Extracting'
        BY <1>0, <1>2, <2>1 DEF Fitting, Single, NoDuplicateBox, Deleting, OfOneKind,
           Recorded, Uploaded, Extracting, State
    <2>11. QED  BY <2>2, <2>3, <2>4, <2>5, <2>6, <2>7, <2>8, <2>9, <2>10 DEF IInv
<1>3. CASE /\ run[p].step = "connect"
           /\ Exit(p)
           /\ UNCHANGED <<containers, uploads, templates, operations, unrecorded, faults>>
    <2>1. Ends(p)
        BY <1>0, <1>3, ExitMoves
    <2>2. QED
        BY <1>0, <1>3, <2>1, EndKeeps DEF TypeOK
<1>4. QED
    BY <1>1, <1>2, <1>3 DEF Connects

\* A repair begins with what the operation says.
LEMMA RepairBeginsKeeps ==
    ASSUME IInv, NEW p \in Commands, NEW b \in Boxes, RepairBegins(p, b)
    PROVE  IInv'
<1>0. /\ TypeOK /\ Fitting /\ Single /\ Deleting /\ OfOneKind /\ GuestCleaned
      /\ Recorded /\ Uploaded /\ Extracting
      /\ None \notin Boxes \cup Vmids \cup Operation \cup Container
    BY ProvisionAssumption, NoneIsNoRecord DEF IInv
<1> USE DEF OnlyMoves, Becomes, Advances, Ends, Records, Alters, Keeps, Saved,
           Early, SshSteps, TemplateSteps, NewSteps, RepairSteps, DeleteSteps,
           EarlyNew, NewOf, Absent, Settled, Has, Remembers
<1> DEFINE state == [Idle EXCEPT !.verb = "repair", !.box = b,
                                 !.memory = operations[b], !.step = "look"]
<1>1. /\ run[p].step = "idle" /\ run[p].verb = "none" /\ run[p].box = None
      /\ operations[b] # None
      /\ UNCHANGED <<containers, uploads, templates, operations, unrecorded, faults>>
    BY DEF RepairBegins, Idle
<1>2. /\ state \in RunStates
      /\ state.step = "look" /\ state.verb = "repair" /\ state.box = b
      /\ state.vmid = None /\ state.memory = operations[b]
    BY <1>0 DEF RunStates, Idle, Steps, TypeOK
<1>3. run' = [run EXCEPT ![p] = state]
    BY DEF RepairBegins
<1> HIDE DEF state
<1>4. OnlyMoves(p) /\ Becomes(p, "look", "repair", b, None, operations[b])
    BY <1>0, <1>2, <1>3 DEF TypeOK, Runs, RunStates
<1>5. TypeOK'  BY <1>0, <1>1, <1>4 DEF TypeOK, Runs, RunStates
<1>6. Fitting'  BY <1>0, <1>1, <1>4 DEF Fitting
<1>7. Single'  BY <1>0, <1>1, <1>4 DEF Fitting, Single, NoDuplicateBox
<1>8. Deleting'  BY <1>0, <1>1, <1>4 DEF Fitting, Single, NoDuplicateBox, Deleting
<1>9. OfOneKind'  BY <1>0, <1>1, <1>4 DEF Fitting, Single, OfOneKind
<1>10. GuestCleaned'
    BY <1>0, <1>1, <1>4 DEF Fitting, Single, NoDuplicateBox, OfOneKind, GuestCleaned
<1>11. Recorded'
    BY <1>0, <1>1, <1>4 DEF Fitting, Single, Deleting, OfOneKind, GuestCleaned,
       Recorded, Uploaded, Unfinished
<1>12. Uploaded'
    BY <1>0, <1>1, <1>4 DEF Fitting, Single, Deleting, OfOneKind, GuestCleaned,
       Recorded, Uploaded
<1>13. Extracting'
    BY <1>0, <1>1, <1>4 DEF Fitting, Single, NoDuplicateBox, Deleting, OfOneKind,
       Recorded, Uploaded, Extracting, State
<1>14. QED  BY <1>5, <1>6, <1>7, <1>8, <1>9, <1>10, <1>11, <1>12, <1>13 DEF IInv

\* A repair over SSH goes on with the VMID at which it found the box.
LEMMA RepairFindsKeeps ==
    ASSUME IInv, NEW p \in Commands, NEW v \in Vmids, RepairFinds(p, v)
    PROVE  IInv'
<1>0. /\ TypeOK /\ Fitting /\ Single /\ Deleting /\ OfOneKind /\ GuestCleaned
      /\ Recorded /\ Uploaded /\ Extracting
      /\ None \notin Boxes \cup Vmids \cup Operation \cup Container
    BY ProvisionAssumption, NoneIsNoRecord DEF IInv
<1> USE DEF OnlyMoves, Becomes, Advances, Ends, Records, Alters, Keeps, Saved,
           Early, SshSteps, TemplateSteps, NewSteps, RepairSteps, DeleteSteps,
           EarlyNew, NewOf, Absent, Settled, Has, Remembers
<1>1. CASE /\ run[p].step = "look"
           /\ Has(v, run[p].box)
           /\ run[p].memory.relay
           /\ Goto(p, "connect")
           /\ UNCHANGED <<containers, uploads, templates, operations, unrecorded, faults>>
    <2>1. Advances(p, "connect")
        BY <1>0, <1>1, GotoMoves DEF Steps
    <2>2. TypeOK'  BY <1>0, <1>1, <2>1 DEF TypeOK, Runs, RunStates
    <2>3. Fitting'  BY <1>0, <1>1, <2>1 DEF Fitting
    <2>4. Single'  BY <1>0, <1>1, <2>1 DEF Fitting, Single, NoDuplicateBox
    <2>5. Deleting'  BY <1>0, <1>1, <2>1 DEF Fitting, Single, NoDuplicateBox, Deleting
    <2>6. OfOneKind'  BY <1>0, <1>1, <2>1 DEF Fitting, Single, OfOneKind
    <2>7. GuestCleaned'
        BY <1>0, <1>1, <2>1 DEF Fitting, Single, NoDuplicateBox, OfOneKind, GuestCleaned
    <2>8. Recorded'
        BY <1>0, <1>1, <2>1 DEF Fitting, Single, Deleting, OfOneKind, GuestCleaned,
           Recorded, Uploaded, Unfinished
    <2>9. Uploaded'
        BY <1>0, <1>1, <2>1 DEF Fitting, Single, Deleting, OfOneKind, GuestCleaned,
           Recorded, Uploaded
    <2>10. Extracting'
        BY <1>0, <1>1, <2>1 DEF Fitting, Single, NoDuplicateBox, Deleting, OfOneKind,
           Recorded, Uploaded, Extracting, State
    <2>11. QED  BY <2>2, <2>3, <2>4, <2>5, <2>6, <2>7, <2>8, <2>9, <2>10 DEF IInv
<1>2. CASE /\ run[p].step = "look"
           /\ Has(v, run[p].box)
           /\ ~run[p].memory.relay
           /\ run' = [run EXCEPT ![p].vmid = v, ![p].step = "enter"]
           /\ UNCHANGED <<containers, uploads, templates, operations, unrecorded, faults>>
    <2>1. OnlyMoves(p) /\ Becomes(p, "enter", run[p].verb, run[p].box, v, run[p].memory)
        BY <1>0, <1>2 DEF TypeOK, Runs, RunStates, Steps
    <2>2. /\ run[p].step = "look" /\ Has(v, run[p].box) /\ ~run[p].memory.relay
          /\ UNCHANGED <<containers, uploads, templates, operations, unrecorded, faults>>
        BY <1>2
    <2>3. TypeOK'  BY <1>0, <2>1, <2>2 DEF TypeOK, Runs, RunStates
    <2>4. Fitting'  BY <1>0, <2>1, <2>2 DEF Fitting
    <2>5. Single'  BY <1>0, <2>1, <2>2 DEF Fitting, Single, NoDuplicateBox
    <2>6. Deleting'  BY <1>0, <2>1, <2>2 DEF Fitting, Single, NoDuplicateBox, Deleting
    <2>7. OfOneKind'  BY <1>0, <2>1, <2>2 DEF Fitting, Single, OfOneKind
    <2>8. GuestCleaned'
        BY <1>0, <2>1, <2>2 DEF Fitting, Single, NoDuplicateBox, OfOneKind, GuestCleaned
    <2>9. Recorded'
        BY <1>0, <2>1, <2>2 DEF Fitting, Single, Deleting, OfOneKind, GuestCleaned,
           Recorded, Uploaded, Unfinished
    <2>10. Uploaded'
        BY <1>0, <2>1, <2>2 DEF Fitting, Single, Deleting, OfOneKind, GuestCleaned,
           Recorded, Uploaded
    <2>11. Extracting'
        BY <1>0, <2>1, <2>2 DEF Fitting, Single, NoDuplicateBox, Deleting, OfOneKind,
           Recorded, Uploaded, Extracting, State
    <2>12. QED  BY <2>3, <2>4, <2>5, <2>6, <2>7, <2>8, <2>9, <2>10, <2>11 DEF IInv
<1>3. CASE /\ run[p].step = "look"
           /\ Exit(p)
           /\ UNCHANGED <<containers, uploads, templates, operations, unrecorded, faults>>
    <2>1. Ends(p)
        BY <1>0, <1>3, ExitMoves
    <2>2. QED
        BY <1>0, <1>3, <2>1, EndKeeps DEF TypeOK
<1>4. QED
    BY <1>1, <1>2, <1>3 DEF RepairFinds

\* A repair that finds no container has seen that of a creation that runs, or
\* the operation as it is.
LEMMA RepairMissesKeeps ==
    ASSUME IInv, NEW p \in Commands, RepairMisses(p)
    PROVE  IInv'
<1>0. /\ TypeOK /\ Fitting /\ Single /\ Deleting /\ OfOneKind /\ GuestCleaned
      /\ Recorded /\ Uploaded /\ Extracting
      /\ None \notin Boxes \cup Vmids \cup Operation \cup Container
    BY ProvisionAssumption, NoneIsNoRecord DEF IInv
<1> USE DEF OnlyMoves, Becomes, Advances, Ends, Records, Alters, Keeps, Saved,
           Early, SshSteps, TemplateSteps, NewSteps, RepairSteps, DeleteSteps,
           EarlyNew, NewOf, Absent, Settled, Has, Remembers
<1>1. CASE /\ run[p].step = "look"
           /\ run[p].memory.relay
           /\ Goto(p, "untask")
           /\ UNCHANGED operations
           /\ unrecorded' = IF Creating(run[p].box) \/ run[p].memory # operations[run[p].box]
                            THEN unrecorded \cup {run[p].box} ELSE unrecorded
           /\ UNCHANGED <<containers, uploads, templates, faults>>
    <2>1. Advances(p, "untask")
        BY <1>0, <1>1, GotoMoves DEF Steps
    <2>2. /\ unrecorded' \in {unrecorded, unrecorded \cup {run[p].box}}
          /\ run[p].box \notin unrecorded' =>
                 ~Creating(run[p].box) /\ run[p].memory = operations[run[p].box]
          /\ run[p].step = "look" /\ run[p].box \in Boxes /\ run[p].memory # None
          /\ UNCHANGED <<containers, uploads, templates, faults>>
        BY <1>0, <1>1 DEF Fitting, Remembers
    <2>3. run[p].memory.relay /\ UNCHANGED operations
        BY <1>1
    <2>4. TypeOK'  BY <1>0, <2>1, <2>2, <2>3 DEF Creating, TypeOK, Runs, RunStates
    <2>5. Fitting'  BY <1>0, <2>1, <2>2, <2>3 DEF Creating, Fitting
    <2>6. Single'  BY <1>0, <2>1, <2>2, <2>3 DEF Creating, Fitting, Single, NoDuplicateBox
    <2>7. Deleting'  BY <1>0, <2>1, <2>2, <2>3 DEF Creating, Fitting, Single, NoDuplicateBox, Deleting
    <2>8. OfOneKind'  BY <1>0, <2>1, <2>2, <2>3 DEF Creating, Fitting, Single, OfOneKind
    <2>9. GuestCleaned'
        BY <1>0, <2>1, <2>2, <2>3 DEF Creating, Fitting, Single, NoDuplicateBox, OfOneKind,
           GuestCleaned
    <2>10. Recorded'
        BY <1>0, <2>1, <2>2, <2>3 DEF Creating, Fitting, Single, Deleting, OfOneKind,
           GuestCleaned, Recorded, Uploaded, Unfinished
    <2>11. Uploaded'
        BY <1>0, <2>1, <2>2, <2>3 DEF Creating, Fitting, Single, Deleting, OfOneKind,
           GuestCleaned, Recorded, Uploaded
    <2>12. Extracting'
        BY <1>0, <2>1, <2>2, <2>3 DEF Creating, Fitting, Single, NoDuplicateBox, Deleting,
           OfOneKind, Recorded, Uploaded, Extracting, State
    <2>13. QED  BY <2>4, <2>5, <2>6, <2>7, <2>8, <2>9, <2>10, <2>11, <2>12 DEF IInv
<1>2. CASE /\ run[p].step = "look"
           /\ ~run[p].memory.relay
           /\ run[p].memory.vmid = None
           /\ Forget(p)
           /\ unrecorded' = IF Creating(run[p].box) \/ run[p].memory # operations[run[p].box]
                            THEN unrecorded \cup {run[p].box} ELSE unrecorded
           /\ UNCHANGED <<containers, uploads, templates, faults>>
    <2>1. /\ unrecorded' \in {unrecorded, unrecorded \cup {run[p].box}}
          /\ run[p].box \notin unrecorded' =>
                 ~Creating(run[p].box) /\ run[p].memory = operations[run[p].box]
          /\ run[p].step = "look" /\ run[p].box \in Boxes /\ run[p].memory # None
          /\ UNCHANGED <<containers, uploads, templates, faults>>
        BY <1>0, <1>2 DEF Fitting, Remembers
    <2>2. Ends(p) /\ Records(run[p].box, None)
        BY <1>0, <1>2, <2>1, ForgetMoves
    <2>3. ~run[p].memory.relay /\ run[p].memory.vmid = None
        BY <1>2
    <2>4. TypeOK'  BY <1>0, <2>1, <2>2, <2>3 DEF Creating, TypeOK, Runs, RunStates
    <2>5. Fitting'  BY <1>0, <2>1, <2>2, <2>3 DEF Creating, Fitting
    <2>6. Single'  BY <1>0, <2>1, <2>2, <2>3 DEF Creating, Fitting, Single, NoDuplicateBox
    <2>7. Deleting'  BY <1>0, <2>1, <2>2, <2>3 DEF Creating, Fitting, Single, NoDuplicateBox, Deleting
    <2>8. OfOneKind'  BY <1>0, <2>1, <2>2, <2>3 DEF Creating, Fitting, Single, OfOneKind
    <2>9. GuestCleaned'
        BY <1>0, <2>1, <2>2, <2>3 DEF Creating, Fitting, Single, NoDuplicateBox, OfOneKind,
           GuestCleaned
    <2>10. Recorded'
        BY <1>0, <2>1, <2>2, <2>3 DEF Creating, Fitting, Single, Deleting, OfOneKind,
           GuestCleaned, Recorded, Uploaded, Unfinished
    <2>11. Uploaded'
        BY <1>0, <2>1, <2>2, <2>3 DEF Creating, Fitting, Single, Deleting, OfOneKind,
           GuestCleaned, Recorded, Uploaded
    <2>12. Extracting'
        BY <1>0, <2>1, <2>2, <2>3 DEF Creating, Fitting, Single, NoDuplicateBox, Deleting,
           OfOneKind, Recorded, Uploaded, Extracting, State
    <2>13. QED  BY <2>4, <2>5, <2>6, <2>7, <2>8, <2>9, <2>10, <2>11, <2>12 DEF IInv
<1>3. CASE /\ run[p].step = "look"
           /\ Exit(p)
           /\ UNCHANGED operations
           /\ unrecorded' = IF Creating(run[p].box) \/ run[p].memory # operations[run[p].box]
                            THEN unrecorded \cup {run[p].box} ELSE unrecorded
           /\ UNCHANGED <<containers, uploads, templates, faults>>
    <2>1. /\ unrecorded' \in {unrecorded, unrecorded \cup {run[p].box}}
          /\ run[p].box \notin unrecorded' =>
                 ~Creating(run[p].box) /\ run[p].memory = operations[run[p].box]
          /\ run[p].step = "look" /\ run[p].box \in Boxes /\ run[p].memory # None
          /\ UNCHANGED <<containers, uploads, templates, faults>>
        BY <1>0, <1>3 DEF Fitting, Remembers
    <2>2. Ends(p)
        BY <1>0, <1>3, ExitMoves
    <2>3. unrecorded' \subseteq Boxes /\ faults' \in 0 .. MaxFaults
        BY <1>0, <2>1 DEF TypeOK
    <2>4. QED
        BY <1>3, <2>1, <2>2, <2>3, EndKeeps
<1>4. QED
    BY <1>1, <1>2, <1>3 DEF RepairMisses

\* A repair goes on where the phase and the agent tell it to.
LEMMA RepairEntersKeeps ==
    ASSUME IInv, NEW p \in Commands, RepairEnters(p)
    PROVE  IInv'
<1>0. /\ TypeOK /\ Fitting /\ Single /\ Deleting /\ OfOneKind /\ GuestCleaned
      /\ Recorded /\ Uploaded /\ Extracting
      /\ None \notin Boxes \cup Vmids \cup Operation \cup Container
    BY ProvisionAssumption, NoneIsNoRecord DEF IInv
<1> USE DEF OnlyMoves, Becomes, Advances, Ends, Records, Alters, Keeps, Saved,
           Early, SshSteps, TemplateSteps, NewSteps, RepairSteps, DeleteSteps,
           EarlyNew, NewOf, Absent, Settled, Has, Remembers
<1>1. CASE /\ run[p].step = "enter"
           /\ Save(p, [run[p].memory EXCEPT !.vmid = run[p].vmid, !.phase = "started"], "bootstrap")
           /\ UNCHANGED <<containers, uploads, templates, unrecorded, faults>>
    <2> DEFINE operation == [run[p].memory EXCEPT !.vmid = run[p].vmid, !.phase = "started"]
    <2>1. run[p].box \in Boxes /\ run[p].memory \in Operation
        BY <1>0, <1>1 DEF TypeOK, Fitting, Remembers
    <2>2. /\ operation \in Operation
          /\ operation.vmid = run[p].vmid
          /\ operation.phase = "started"
          /\ operation.relay = run[p].memory.relay
          /\ operation.template = run[p].memory.template
          /\ operation.task = run[p].memory.task
        BY <1>0, <1>1, <2>1 DEF Operation, Phases, TypeOK, Fitting
    <2> HIDE DEF operation
    <2>3. Save(p, operation, "bootstrap")
        BY <1>1 DEF operation
    <2>4. Saved(p, "bootstrap", run[p].vmid, "started", run[p].memory.template, run[p].memory.task) \/ Unsaved(p)
        BY <1>0, <2>1, <2>2, <2>3, SaveAmends DEF Steps
    <2>5. CASE Unsaved(p)
        BY <1>0, <1>1, <2>5, EndKeeps DEF Unsaved, TypeOK
    <2>6. CASE Saved(p, "bootstrap", run[p].vmid, "started", run[p].memory.template, run[p].memory.task)
        <3>1. TypeOK'  BY <1>0, <1>1, <2>1, <2>6 DEF TypeOK, Runs, RunStates
        <3>2. Fitting'  BY <1>0, <1>1, <2>1, <2>6 DEF Fitting
        <3>3. Single'  BY <1>0, <1>1, <2>1, <2>6 DEF Fitting, Single, NoDuplicateBox
        <3>4. Deleting'
            BY <1>0, <1>1, <2>1, <2>6 DEF Fitting, Single, NoDuplicateBox, Deleting
        <3>5. OfOneKind'  BY <1>0, <1>1, <2>1, <2>6 DEF Fitting, Single, OfOneKind
        <3>6. GuestCleaned'
            BY <1>0, <1>1, <2>1, <2>6 DEF Fitting, Single, NoDuplicateBox, OfOneKind,
               GuestCleaned
        <3>7. Recorded'
            BY <1>0, <1>1, <2>1, <2>6 DEF Fitting, Single, Deleting, OfOneKind,
               GuestCleaned, Recorded, Uploaded, Unfinished
        <3>8. Uploaded'
            BY <1>0, <1>1, <2>1, <2>6 DEF Fitting, Single, Deleting, OfOneKind,
               GuestCleaned, Recorded, Uploaded
        <3>9. Extracting'
            BY <1>0, <1>1, <2>1, <2>6 DEF Fitting, Single, NoDuplicateBox, Deleting,
               OfOneKind, Recorded, Uploaded, Extracting, State
        <3>10. QED  BY <3>1, <3>2, <3>3, <3>4, <3>5, <3>6, <3>7, <3>8, <3>9 DEF IInv
    <2>7. QED  BY <2>4, <2>5, <2>6
<1>2. CASE /\ run[p].step = "enter"
           /\ ByAgent(p)
           /\ Goto(p, "clean")
           /\ UNCHANGED <<containers, uploads, templates, operations, unrecorded, faults>>
    <2>1. Advances(p, "clean")
        BY <1>0, <1>2, GotoMoves DEF Steps
    <2>2. Has(run[p].vmid, run[p].box) /\ containers[run[p].vmid].agent
        BY <1>0, <1>2 DEF ByAgent
    <2>3. TypeOK'  BY <1>0, <1>2, <2>1, <2>2 DEF TypeOK, Runs, RunStates
    <2>4. Fitting'  BY <1>0, <1>2, <2>1, <2>2 DEF Fitting
    <2>5. Single'  BY <1>0, <1>2, <2>1, <2>2 DEF Fitting, Single, NoDuplicateBox
    <2>6. Deleting'  BY <1>0, <1>2, <2>1, <2>2 DEF Fitting, Single, NoDuplicateBox, Deleting
    <2>7. OfOneKind'  BY <1>0, <1>2, <2>1, <2>2 DEF Fitting, Single, OfOneKind
    <2>8. GuestCleaned'
        BY <1>0, <1>2, <2>1, <2>2 DEF Fitting, Single, NoDuplicateBox, OfOneKind,
           GuestCleaned
    <2>9. Recorded'
        BY <1>0, <1>2, <2>1, <2>2 DEF Fitting, Single, Deleting, OfOneKind,
           GuestCleaned, Recorded, Uploaded, Unfinished
    <2>10. Uploaded'
        BY <1>0, <1>2, <2>1, <2>2 DEF Fitting, Single, Deleting, OfOneKind,
           GuestCleaned, Recorded, Uploaded
    <2>11. Extracting'
        BY <1>0, <1>2, <2>1, <2>2 DEF Fitting, Single, NoDuplicateBox, Deleting,
           OfOneKind, Recorded, Uploaded, Extracting, State
    <2>12. QED  BY <2>3, <2>4, <2>5, <2>6, <2>7, <2>8, <2>9, <2>10, <2>11 DEF IInv
<1>3. CASE /\ run[p].step = "enter"
           /\ Exit(p)
           /\ UNCHANGED <<containers, uploads, templates, operations, unrecorded, faults>>
    <2>1. Ends(p)
        BY <1>0, <1>3, ExitMoves
    <2>2. QED
        BY <1>0, <1>3, <2>1, EndKeeps DEF TypeOK
<1>4. QED
    BY <1>1, <1>2, <1>3 DEF RepairEnters

\* A deletion begins with the VMID of the box.
LEMMA DeleteBeginsKeeps ==
    ASSUME IInv, NEW p \in Commands, NEW b \in Boxes, NEW v \in Vmids, DeleteBegins(p, b, v)
    PROVE  IInv'
<1>0. /\ TypeOK /\ Fitting /\ Single /\ Deleting /\ OfOneKind /\ GuestCleaned
      /\ Recorded /\ Uploaded /\ Extracting
      /\ None \notin Boxes \cup Vmids \cup Operation \cup Container
    BY ProvisionAssumption, NoneIsNoRecord DEF IInv
<1> USE DEF OnlyMoves, Becomes, Advances, Ends, Records, Alters, Keeps, Saved,
           Early, SshSteps, TemplateSteps, NewSteps, RepairSteps, DeleteSteps,
           EarlyNew, NewOf, Absent, Settled, Has, Remembers
<1>1. PICK step \in {"stop", "queue"} :
          run' = [run EXCEPT ![p] = [Idle EXCEPT !.verb = "delete", !.box = b,
                                         !.vmid = v, !.step = step]]
    BY DEF DeleteBegins
<1> DEFINE state == [Idle EXCEPT !.verb = "delete", !.box = b, !.vmid = v, !.step = step]
<1>2. /\ run[p].step = "idle" /\ run[p].verb = "none" /\ run[p].box = None
      /\ Has(v, b)
      /\ UNCHANGED <<containers, uploads, templates, operations, unrecorded, faults>>
    BY DEF DeleteBegins, Idle
<1>3. /\ state \in RunStates
      /\ state.step = step /\ state.verb = "delete" /\ state.box = b
      /\ state.vmid = v /\ state.memory = None
    BY <1>0 DEF RunStates, Idle, Steps
<1>4. run' = [run EXCEPT ![p] = state]
    BY <1>1
<1> HIDE DEF state
<1>5. OnlyMoves(p) /\ Becomes(p, step, "delete", b, v, None)
    BY <1>0, <1>3, <1>4 DEF TypeOK, Runs, RunStates
<1>6. TypeOK'  BY <1>0, <1>2, <1>5 DEF TypeOK, Runs, RunStates
<1>7. Fitting'  BY <1>0, <1>2, <1>5 DEF Fitting
<1>8. Single'  BY <1>0, <1>2, <1>5 DEF Fitting, Single, NoDuplicateBox
<1>9. Deleting'  BY <1>0, <1>2, <1>5 DEF Fitting, Single, NoDuplicateBox, Deleting
<1>10. OfOneKind'  BY <1>0, <1>2, <1>5 DEF Fitting, Single, OfOneKind
<1>11. GuestCleaned'
    BY <1>0, <1>2, <1>5 DEF Fitting, Single, NoDuplicateBox, OfOneKind, GuestCleaned
<1>12. Recorded'
    BY <1>0, <1>2, <1>5 DEF Fitting, Single, Deleting, OfOneKind, GuestCleaned,
       Recorded, Uploaded, Unfinished
<1>13. Uploaded'
    BY <1>0, <1>2, <1>5 DEF Fitting, Single, Deleting, OfOneKind, GuestCleaned,
       Recorded, Uploaded
<1>14. Extracting'
    BY <1>0, <1>2, <1>5 DEF Fitting, Single, NoDuplicateBox, Deleting, OfOneKind,
       Recorded, Uploaded, Extracting, State
<1>15. QED  BY <1>6, <1>7, <1>8, <1>9, <1>10, <1>11, <1>12, <1>13, <1>14 DEF IInv

\* Queued, the destruction of what has the VMID runs without the command.
LEMMA DeleteQueuesKeeps ==
    ASSUME IInv, NEW p \in Commands, DeleteQueues(p)
    PROVE  IInv'
<1>0. /\ TypeOK /\ Fitting /\ Single /\ Deleting /\ OfOneKind /\ GuestCleaned
      /\ Recorded /\ Uploaded /\ Extracting
      /\ None \notin Boxes \cup Vmids \cup Operation \cup Container
    BY ProvisionAssumption, NoneIsNoRecord DEF IInv
<1> USE DEF OnlyMoves, Becomes, Advances, Ends, Records, Alters, Keeps, Saved,
           Early, SshSteps, TemplateSteps, NewSteps, RepairSteps, DeleteSteps,
           EarlyNew, NewOf, Absent, Settled, Has, Remembers
<1>1. CASE /\ run[p].step = "queue"
           /\ State(run[p].vmid) \in {"running", "stopped"}
           /\ Destroy(run[p].vmid)
           /\ Exit(p)
           /\ UNCHANGED <<uploads, templates, operations, unrecorded, faults>>
    <2>1. run[p].vmid \in Vmids /\ containers[run[p].vmid] # None /\ containers[run[p].vmid] \in Container
        BY <1>0, <1>1 DEF TypeOK, Fitting, BySsh, ByAgent, Has, State
    <2>2. Keeps(run[p].vmid, "destroying", containers[run[p].vmid].agent, containers[run[p].vmid].creds)
        BY <1>0, <1>1, <2>1 DEF TypeOK, Container, Destroy
    <2>3. Ends(p)
        BY <1>0, <1>1, ExitMoves DEF Steps
    <2>4. run[p].step = "queue"
          /\ UNCHANGED <<uploads, templates, operations, unrecorded, faults>>
        BY <1>1 DEF TypeOK, BySsh, ByAgent, Has, State
    <2>5. TypeOK'  BY <1>0, <2>1, <2>2, <2>3, <2>4 DEF TypeOK, Runs, RunStates
    <2>6. Fitting'  BY <1>0, <2>1, <2>2, <2>3, <2>4 DEF Fitting
    <2>7. Single'  BY <1>0, <2>1, <2>2, <2>3, <2>4 DEF Fitting, Single, NoDuplicateBox
    <2>8. Deleting'
        BY <1>0, <2>1, <2>2, <2>3, <2>4 DEF Fitting, Single, NoDuplicateBox, Deleting
    <2>9. OfOneKind'  BY <1>0, <2>1, <2>2, <2>3, <2>4 DEF Fitting, Single, OfOneKind
    <2>10. GuestCleaned'
        BY <1>0, <2>1, <2>2, <2>3, <2>4 DEF Fitting, Single, NoDuplicateBox, OfOneKind,
           GuestCleaned
    <2>11. Recorded'
        BY <1>0, <2>1, <2>2, <2>3, <2>4 DEF Fitting, Single, Deleting, OfOneKind,
           GuestCleaned, Recorded, Uploaded, Unfinished
    <2>12. Uploaded'
        BY <1>0, <2>1, <2>2, <2>3, <2>4 DEF Fitting, Single, Deleting, OfOneKind,
           GuestCleaned, Recorded, Uploaded
    <2>13. Extracting'
        BY <1>0, <2>1, <2>2, <2>3, <2>4 DEF Fitting, Single, NoDuplicateBox, Deleting,
           OfOneKind, Recorded, Uploaded, Extracting, State
    <2>14. QED  BY <2>5, <2>6, <2>7, <2>8, <2>9, <2>10, <2>11, <2>12, <2>13 DEF IInv
<1>2. CASE /\ run[p].step = "queue"
           /\ Exit(p)
           /\ UNCHANGED <<containers, uploads, templates, operations, unrecorded, faults>>
    <2>1. Ends(p)
        BY <1>0, <1>2, ExitMoves
    <2>2. QED
        BY <1>0, <1>2, <2>1, EndKeeps DEF TypeOK
<1>3. QED
    BY <1>1, <1>2 DEF DeleteQueues

\* A guest is stopped before it is destroyed.
LEMMA DeleteStopsKeeps ==
    ASSUME IInv, NEW p \in Commands, DeleteStops(p)
    PROVE  IInv'
<1>0. /\ TypeOK /\ Fitting /\ Single /\ Deleting /\ OfOneKind /\ GuestCleaned
      /\ Recorded /\ Uploaded /\ Extracting
      /\ None \notin Boxes \cup Vmids \cup Operation \cup Container
    BY ProvisionAssumption, NoneIsNoRecord DEF IInv
<1> USE DEF OnlyMoves, Becomes, Advances, Ends, Records, Alters, Keeps, Saved,
           Early, SshSteps, TemplateSteps, NewSteps, RepairSteps, DeleteSteps,
           EarlyNew, NewOf, Absent, Settled, Has, Remembers
<1>1. CASE /\ run[p].step = "stop"
           /\ State(run[p].vmid) = "running"
           /\ containers' = [containers EXCEPT ![run[p].vmid].state = "stopped"]
           /\ Goto(p, "destroy")
           /\ UNCHANGED <<uploads, templates, operations, unrecorded, faults>>
    <2>1. run[p].vmid \in Vmids /\ containers[run[p].vmid] # None /\ containers[run[p].vmid] \in Container
        BY <1>0, <1>1 DEF TypeOK, Fitting, BySsh, ByAgent, Has, State
    <2>2. Keeps(run[p].vmid, "stopped", containers[run[p].vmid].agent, containers[run[p].vmid].creds)
        BY <1>0, <1>1, <2>1 DEF TypeOK, Container
    <2>3. Advances(p, "destroy")
        BY <1>0, <1>1, GotoMoves DEF Steps
    <2>4. run[p].step = "stop"
          /\ UNCHANGED <<uploads, templates, operations, unrecorded, faults>>
        BY <1>1 DEF TypeOK, BySsh, ByAgent, Has, State
    <2>5. TypeOK'  BY <1>0, <2>1, <2>2, <2>3, <2>4 DEF TypeOK, Runs, RunStates
    <2>6. Fitting'  BY <1>0, <2>1, <2>2, <2>3, <2>4 DEF Fitting
    <2>7. Single'  BY <1>0, <2>1, <2>2, <2>3, <2>4 DEF Fitting, Single, NoDuplicateBox
    <2>8. Deleting'
        BY <1>0, <2>1, <2>2, <2>3, <2>4 DEF Fitting, Single, NoDuplicateBox, Deleting
    <2>9. OfOneKind'  BY <1>0, <2>1, <2>2, <2>3, <2>4 DEF Fitting, Single, OfOneKind
    <2>10. GuestCleaned'
        BY <1>0, <2>1, <2>2, <2>3, <2>4 DEF Fitting, Single, NoDuplicateBox, OfOneKind,
           GuestCleaned
    <2>11. Recorded'
        BY <1>0, <2>1, <2>2, <2>3, <2>4 DEF Fitting, Single, Deleting, OfOneKind,
           GuestCleaned, Recorded, Uploaded, Unfinished
    <2>12. Uploaded'
        BY <1>0, <2>1, <2>2, <2>3, <2>4 DEF Fitting, Single, Deleting, OfOneKind,
           GuestCleaned, Recorded, Uploaded
    <2>13. Extracting'
        BY <1>0, <2>1, <2>2, <2>3, <2>4 DEF Fitting, Single, NoDuplicateBox, Deleting,
           OfOneKind, Recorded, Uploaded, Extracting, State
    <2>14. QED  BY <2>5, <2>6, <2>7, <2>8, <2>9, <2>10, <2>11, <2>12, <2>13 DEF IInv
<1>2. CASE /\ run[p].step = "stop"
           /\ Goto(p, "destroy")
           /\ UNCHANGED <<containers, uploads, templates, operations, unrecorded, faults>>
    <2>1. Advances(p, "destroy")
        BY <1>0, <1>2, GotoMoves DEF Steps
    <2>2. TypeOK'  BY <1>0, <1>2, <2>1 DEF TypeOK, Runs, RunStates
    <2>3. Fitting'  BY <1>0, <1>2, <2>1 DEF Fitting
    <2>4. Single'  BY <1>0, <1>2, <2>1 DEF Fitting, Single, NoDuplicateBox
    <2>5. Deleting'  BY <1>0, <1>2, <2>1 DEF Fitting, Single, NoDuplicateBox, Deleting
    <2>6. OfOneKind'  BY <1>0, <1>2, <2>1 DEF Fitting, Single, OfOneKind
    <2>7. GuestCleaned'
        BY <1>0, <1>2, <2>1 DEF Fitting, Single, NoDuplicateBox, OfOneKind, GuestCleaned
    <2>8. Recorded'
        BY <1>0, <1>2, <2>1 DEF Fitting, Single, Deleting, OfOneKind, GuestCleaned,
           Recorded, Uploaded, Unfinished
    <2>9. Uploaded'
        BY <1>0, <1>2, <2>1 DEF Fitting, Single, Deleting, OfOneKind, GuestCleaned,
           Recorded, Uploaded
    <2>10. Extracting'
        BY <1>0, <1>2, <2>1 DEF Fitting, Single, NoDuplicateBox, Deleting, OfOneKind,
           Recorded, Uploaded, Extracting, State
    <2>11. QED  BY <2>2, <2>3, <2>4, <2>5, <2>6, <2>7, <2>8, <2>9, <2>10 DEF IInv
<1>3. CASE /\ run[p].step = "stop"
           /\ Exit(p)
           /\ UNCHANGED <<containers, uploads, templates, operations, unrecorded, faults>>
    <2>1. Ends(p)
        BY <1>0, <1>3, ExitMoves
    <2>2. QED
        BY <1>0, <1>3, <2>1, EndKeeps DEF TypeOK
<1>4. QED
    BY <1>1, <1>2, <1>3 DEF DeleteStops

\* A deletion waits for the destruction.
LEMMA DeleteDestroysKeeps ==
    ASSUME IInv, NEW p \in Commands, DeleteDestroys(p)
    PROVE  IInv'
<1>0. /\ TypeOK /\ Fitting /\ Single /\ Deleting /\ OfOneKind /\ GuestCleaned
      /\ Recorded /\ Uploaded /\ Extracting
      /\ None \notin Boxes \cup Vmids \cup Operation \cup Container
    BY ProvisionAssumption, NoneIsNoRecord DEF IInv
<1> USE DEF OnlyMoves, Becomes, Advances, Ends, Records, Alters, Keeps, Saved,
           Early, SshSteps, TemplateSteps, NewSteps, RepairSteps, DeleteSteps,
           EarlyNew, NewOf, Absent, Settled, Has, Remembers
<1>1. CASE /\ run[p].step = "destroy"
           /\ State(run[p].vmid) = "stopped"
           /\ Destroy(run[p].vmid)
           /\ Goto(p, "destroying")
           /\ UNCHANGED <<uploads, templates, operations, unrecorded, faults>>
    <2>1. run[p].vmid \in Vmids /\ containers[run[p].vmid] # None /\ containers[run[p].vmid] \in Container
        BY <1>0, <1>1 DEF TypeOK, Fitting, BySsh, ByAgent, Has, State
    <2>2. Keeps(run[p].vmid, "destroying", containers[run[p].vmid].agent, containers[run[p].vmid].creds)
        BY <1>0, <1>1, <2>1 DEF TypeOK, Container, Destroy
    <2>3. Advances(p, "destroying")
        BY <1>0, <1>1, GotoMoves DEF Steps
    <2>4. run[p].step = "destroy"
          /\ UNCHANGED <<uploads, templates, operations, unrecorded, faults>>
        BY <1>1 DEF TypeOK, BySsh, ByAgent, Has, State
    <2>5. TypeOK'  BY <1>0, <2>1, <2>2, <2>3, <2>4 DEF TypeOK, Runs, RunStates
    <2>6. Fitting'  BY <1>0, <2>1, <2>2, <2>3, <2>4 DEF Fitting
    <2>7. Single'  BY <1>0, <2>1, <2>2, <2>3, <2>4 DEF Fitting, Single, NoDuplicateBox
    <2>8. Deleting'
        BY <1>0, <2>1, <2>2, <2>3, <2>4 DEF Fitting, Single, NoDuplicateBox, Deleting
    <2>9. OfOneKind'  BY <1>0, <2>1, <2>2, <2>3, <2>4 DEF Fitting, Single, OfOneKind
    <2>10. GuestCleaned'
        BY <1>0, <2>1, <2>2, <2>3, <2>4 DEF Fitting, Single, NoDuplicateBox, OfOneKind,
           GuestCleaned
    <2>11. Recorded'
        BY <1>0, <2>1, <2>2, <2>3, <2>4 DEF Fitting, Single, Deleting, OfOneKind,
           GuestCleaned, Recorded, Uploaded, Unfinished
    <2>12. Uploaded'
        BY <1>0, <2>1, <2>2, <2>3, <2>4 DEF Fitting, Single, Deleting, OfOneKind,
           GuestCleaned, Recorded, Uploaded
    <2>13. Extracting'
        BY <1>0, <2>1, <2>2, <2>3, <2>4 DEF Fitting, Single, NoDuplicateBox, Deleting,
           OfOneKind, Recorded, Uploaded, Extracting, State
    <2>14. QED  BY <2>5, <2>6, <2>7, <2>8, <2>9, <2>10, <2>11, <2>12, <2>13 DEF IInv
<1>2. CASE /\ run[p].step = "destroy"
           /\ Exit(p)
           /\ UNCHANGED <<containers, uploads, templates, operations, unrecorded, faults>>
    <2>1. Ends(p)
        BY <1>0, <1>2, ExitMoves
    <2>2. QED
        BY <1>0, <1>2, <2>1, EndKeeps DEF TypeOK
<1>3. QED
    BY <1>1, <1>2 DEF DeleteDestroys

\* A deletion cleans up what the operation says.
LEMMA DeleteCleansKeeps ==
    ASSUME IInv, NEW p \in Commands, DeleteCleans(p)
    PROVE  IInv'
<1>0. /\ TypeOK /\ Fitting /\ Single /\ Deleting /\ OfOneKind /\ GuestCleaned
      /\ Recorded /\ Uploaded /\ Extracting
      /\ None \notin Boxes \cup Vmids \cup Operation \cup Container
    BY ProvisionAssumption, NoneIsNoRecord DEF IInv
<1> USE DEF OnlyMoves, Becomes, Advances, Ends, Records, Alters, Keeps, Saved,
           Early, SshSteps, TemplateSteps, NewSteps, RepairSteps, DeleteSteps,
           EarlyNew, NewOf, Absent, Settled, Has, Remembers
<1>1. CASE /\ run[p].step = "pending"
           /\ operations[run[p].box] # None
           /\ run' = [run EXCEPT ![p].memory = operations[run[p].box], ![p].step = "untask"]
           /\ UNCHANGED <<containers, uploads, templates, operations, unrecorded, faults>>
    <2>1. run[p].box \in Boxes /\ operations[run[p].box] \in Operation
        BY <1>0, <1>1 DEF TypeOK, Fitting
    <2>2. /\ OnlyMoves(p)
          /\ Becomes(p, "untask", run[p].verb, run[p].box, run[p].vmid, operations[run[p].box])
        BY <1>0, <1>1, <2>1 DEF TypeOK, Runs, RunStates, Steps
    <2>3. /\ run[p].step = "pending" /\ operations[run[p].box] # None
          /\ UNCHANGED <<containers, uploads, templates, operations, unrecorded, faults>>
        BY <1>1
    <2>4. TypeOK'  BY <1>0, <2>1, <2>2, <2>3 DEF TypeOK, Runs, RunStates
    <2>5. Fitting'  BY <1>0, <2>1, <2>2, <2>3 DEF Fitting
    <2>6. Single'  BY <1>0, <2>1, <2>2, <2>3 DEF Fitting, Single, NoDuplicateBox
    <2>7. Deleting'  BY <1>0, <2>1, <2>2, <2>3 DEF Fitting, Single, NoDuplicateBox, Deleting
    <2>8. OfOneKind'  BY <1>0, <2>1, <2>2, <2>3 DEF Fitting, Single, OfOneKind
    <2>9. GuestCleaned'
        BY <1>0, <2>1, <2>2, <2>3 DEF Fitting, Single, NoDuplicateBox, OfOneKind,
           GuestCleaned
    <2>10. Recorded'
        BY <1>0, <2>1, <2>2, <2>3 DEF Fitting, Single, Deleting, OfOneKind,
           GuestCleaned, Recorded, Uploaded, Unfinished
    <2>11. Uploaded'
        BY <1>0, <2>1, <2>2, <2>3 DEF Fitting, Single, Deleting, OfOneKind,
           GuestCleaned, Recorded, Uploaded
    <2>12. Extracting'
        BY <1>0, <2>1, <2>2, <2>3 DEF Fitting, Single, NoDuplicateBox, Deleting,
           OfOneKind, Recorded, Uploaded, Extracting, State
    <2>13. QED  BY <2>4, <2>5, <2>6, <2>7, <2>8, <2>9, <2>10, <2>11, <2>12 DEF IInv
<1>2. CASE /\ run[p].step = "pending"
           /\ Exit(p)
           /\ UNCHANGED <<containers, uploads, templates, operations, unrecorded, faults>>
    <2>1. Ends(p)
        BY <1>0, <1>2, ExitMoves
    <2>2. QED
        BY <1>0, <1>2, <2>1, EndKeeps DEF TypeOK
<1>3. QED
    BY <1>1, <1>2 DEF DeleteCleans

\* An error before anything was asked of PVE leaves nothing behind.
LEMMA FailsEarlyKeeps ==
    ASSUME IInv, NEW p \in Commands, FailsEarly(p)
    PROVE  IInv'
<1>0. /\ TypeOK /\ Fitting /\ Single /\ Deleting /\ OfOneKind /\ GuestCleaned
      /\ Recorded /\ Uploaded /\ Extracting
      /\ None \notin Boxes \cup Vmids \cup Operation \cup Container
    BY ProvisionAssumption, NoneIsNoRecord DEF IInv
<1> USE DEF OnlyMoves, Becomes, Advances, Ends, Records, Alters, Keeps, Saved,
           Early, SshSteps, TemplateSteps, NewSteps, RepairSteps, DeleteSteps,
           EarlyNew, NewOf, Absent, Settled, Has, Remembers
<1>1. CASE /\ run[p].step = "prepare"
           /\ faults < MaxFaults
           /\ Forget(p)
           /\ faults' = faults + 1
           /\ UNCHANGED <<containers, uploads, templates, unrecorded>>
    <2>1. run[p].box \in Boxes
        BY <1>0, <1>1 DEF Fitting
    <2>2. Ends(p) /\ Records(run[p].box, None)
        BY <1>0, <1>1, <2>1, ForgetMoves
    <2>3. faults' \in 0 .. MaxFaults
        BY <1>0, <1>1, ProvisionAssumption DEF TypeOK
    <2>4. TypeOK'  BY <1>0, <1>1, <2>1, <2>2, <2>3 DEF TypeOK, Runs, RunStates
    <2>5. Fitting'  BY <1>0, <1>1, <2>1, <2>2, <2>3 DEF Fitting
    <2>6. Single'  BY <1>0, <1>1, <2>1, <2>2, <2>3 DEF Fitting, Single, NoDuplicateBox
    <2>7. Deleting'
        BY <1>0, <1>1, <2>1, <2>2, <2>3 DEF Fitting, Single, NoDuplicateBox, Deleting
    <2>8. OfOneKind'  BY <1>0, <1>1, <2>1, <2>2, <2>3 DEF Fitting, Single, OfOneKind
    <2>9. GuestCleaned'
        BY <1>0, <1>1, <2>1, <2>2, <2>3 DEF Fitting, Single, NoDuplicateBox, OfOneKind,
           GuestCleaned
    <2>10. Recorded'
        BY <1>0, <1>1, <2>1, <2>2, <2>3 DEF Fitting, Single, Deleting, OfOneKind,
           GuestCleaned, Recorded, Uploaded, Unfinished
    <2>11. Uploaded'
        BY <1>0, <1>1, <2>1, <2>2, <2>3 DEF Fitting, Single, Deleting, OfOneKind,
           GuestCleaned, Recorded, Uploaded
    <2>12. Extracting'
        BY <1>0, <1>1, <2>1, <2>2, <2>3 DEF Fitting, Single, NoDuplicateBox, Deleting,
           OfOneKind, Recorded, Uploaded, Extracting, State
    <2>13. QED  BY <2>4, <2>5, <2>6, <2>7, <2>8, <2>9, <2>10, <2>11, <2>12 DEF IInv
<1>2. CASE /\ run[p].step \in {"list", "create"}
           /\ ~run[p].memory.relay
           /\ faults < MaxFaults
           /\ Forget(p)
           /\ faults' = faults + 1
           /\ UNCHANGED <<containers, uploads, templates, unrecorded>>
    <2>1. run[p].box \in Boxes
        BY <1>0, <1>2 DEF Fitting
    <2>2. Ends(p) /\ Records(run[p].box, None)
        BY <1>0, <1>2, <2>1, ForgetMoves
    <2>3. faults' \in 0 .. MaxFaults
        BY <1>0, <1>2, ProvisionAssumption DEF TypeOK
    <2>4. TypeOK'  BY <1>0, <1>2, <2>1, <2>2, <2>3 DEF TypeOK, Runs, RunStates
    <2>5. Fitting'  BY <1>0, <1>2, <2>1, <2>2, <2>3 DEF Fitting
    <2>6. Single'  BY <1>0, <1>2, <2>1, <2>2, <2>3 DEF Fitting, Single, NoDuplicateBox
    <2>7. Deleting'
        BY <1>0, <1>2, <2>1, <2>2, <2>3 DEF Fitting, Single, NoDuplicateBox, Deleting
    <2>8. OfOneKind'  BY <1>0, <1>2, <2>1, <2>2, <2>3 DEF Fitting, Single, OfOneKind
    <2>9. GuestCleaned'
        BY <1>0, <1>2, <2>1, <2>2, <2>3 DEF Fitting, Single, NoDuplicateBox, OfOneKind,
           GuestCleaned
    <2>10. Recorded'
        BY <1>0, <1>2, <2>1, <2>2, <2>3 DEF Fitting, Single, Deleting, OfOneKind,
           GuestCleaned, Recorded, Uploaded, Unfinished
    <2>11. Uploaded'
        BY <1>0, <1>2, <2>1, <2>2, <2>3 DEF Fitting, Single, Deleting, OfOneKind,
           GuestCleaned, Recorded, Uploaded
    <2>12. Extracting'
        BY <1>0, <1>2, <2>1, <2>2, <2>3 DEF Fitting, Single, NoDuplicateBox, Deleting,
           OfOneKind, Recorded, Uploaded, Extracting, State
    <2>13. QED  BY <2>4, <2>5, <2>6, <2>7, <2>8, <2>9, <2>10, <2>11, <2>12 DEF IInv
<1>3. QED
    BY <1>1, <1>2 DEF FailsEarly

\* What a killed command had begun and not saved is unrecorded.
LEMMA KilledKeeps ==
    ASSUME IInv, NEW p \in Commands, Killed(p)
    PROVE  IInv'
<1>0. /\ TypeOK /\ Fitting /\ Single /\ Deleting /\ OfOneKind /\ GuestCleaned
      /\ Recorded /\ Uploaded /\ Extracting
      /\ None \notin Boxes \cup Vmids \cup Operation \cup Container
    BY ProvisionAssumption, NoneIsNoRecord DEF IInv
<1> USE DEF OnlyMoves, Becomes, Advances, Ends, Records, Alters, Keeps, Saved,
           Early, SshSteps, TemplateSteps, NewSteps, RepairSteps, DeleteSteps,
           EarlyNew, NewOf, Absent, Settled, Has, Remembers
<1>1. Ends(p)
    BY <1>0, ExitMoves DEF Killed
<1>2. run[p].box \in Boxes \/ run[p].step = "idle"
    BY <1>0 DEF Fitting
<1>3. /\ unrecorded \subseteq unrecorded' /\ unrecorded' \subseteq Boxes
      /\ run[p].step \in {"uploaded", "created"} => run[p].box \in unrecorded'
    BY <1>0, <1>2 DEF Killed, TypeOK
<1>4. faults' \in 0 .. MaxFaults
    BY <1>0, ProvisionAssumption DEF Killed, TypeOK
<1>5. UNCHANGED <<containers, uploads, templates, operations>>
    BY DEF Killed
<1>6. QED  BY <1>1, <1>3, <1>4, <1>5, EndKeeps

\* PVE stores the template, or fails to.
LEMMA UploadEndsKeeps ==
    ASSUME IInv, NEW b \in Boxes, UploadEnds(b)
    PROVE  IInv'
<1>0. /\ TypeOK /\ Fitting /\ Single /\ Deleting /\ OfOneKind /\ GuestCleaned
      /\ Recorded /\ Uploaded /\ Extracting
      /\ None \notin Boxes \cup Vmids \cup Operation \cup Container
    BY ProvisionAssumption, NoneIsNoRecord DEF IInv
<1> USE DEF OnlyMoves, Becomes, Advances, Ends, Records, Alters, Keeps, Saved,
           Early, SshSteps, TemplateSteps, NewSteps, RepairSteps, DeleteSteps,
           EarlyNew, NewOf, Absent, Settled, Has, Remembers
<1>1. /\ b \in uploads /\ uploads' = uploads \ {b}
      /\ templates' \in {templates, templates \cup {b}}
      /\ faults' \in 0 .. MaxFaults
      /\ UNCHANGED <<containers, operations, run, unrecorded>>
    BY <1>0, ProvisionAssumption DEF UploadEnds, TypeOK
<1>2. TypeOK'  BY <1>0, <1>1 DEF TypeOK, Runs, RunStates
<1>3. Fitting'  BY <1>0, <1>1 DEF Fitting
<1>4. Single'  BY <1>0, <1>1 DEF Fitting, Single, NoDuplicateBox
<1>5. Deleting'  BY <1>0, <1>1 DEF Fitting, Single, NoDuplicateBox, Deleting
<1>6. OfOneKind'  BY <1>0, <1>1 DEF Fitting, Single, OfOneKind
<1>7. GuestCleaned'
    BY <1>0, <1>1 DEF Fitting, Single, NoDuplicateBox, OfOneKind, GuestCleaned
<1>8. Recorded'
    BY <1>0, <1>1 DEF Fitting, Single, Deleting, OfOneKind, GuestCleaned, Recorded,
       Uploaded, Unfinished
<1>9. Uploaded'
    BY <1>0, <1>1 DEF Fitting, Single, Deleting, OfOneKind, GuestCleaned, Recorded,
       Uploaded
<1>10. Extracting'
    BY <1>0, <1>1 DEF Fitting, Single, NoDuplicateBox, Deleting, OfOneKind, Recorded,
       Uploaded, Extracting, State
<1>11. QED  BY <1>2, <1>3, <1>4, <1>5, <1>6, <1>7, <1>8, <1>9, <1>10 DEF IInv

\* A creation reads its template until it ends.
LEMMA CreateEndsKeeps ==
    ASSUME IInv, NEW v \in Vmids, CreateEnds(v)
    PROVE  IInv'
<1>0. /\ TypeOK /\ Fitting /\ Single /\ Deleting /\ OfOneKind /\ GuestCleaned
      /\ Recorded /\ Uploaded /\ Extracting
      /\ None \notin Boxes \cup Vmids \cup Operation \cup Container
    BY ProvisionAssumption, NoneIsNoRecord DEF IInv
<1> USE DEF OnlyMoves, Becomes, Advances, Ends, Records, Alters, Keeps, Saved,
           Early, SshSteps, TemplateSteps, NewSteps, RepairSteps, DeleteSteps,
           EarlyNew, NewOf, Absent, Settled, Has, Remembers
<1>1. /\ containers[v] # None /\ containers[v] \in Container
      /\ containers[v].state = "creating"
    BY <1>0 DEF CreateEnds, State, TypeOK
<1>2. faults' \in 0 .. MaxFaults /\ UNCHANGED <<uploads, templates, operations, run, unrecorded>>
    BY <1>0, ProvisionAssumption DEF CreateEnds, TypeOK
<1>3. CASE containers' = [containers EXCEPT ![v].state = "running"]
    <2>1. Keeps(v, "running", containers[v].agent, containers[v].creds)
        BY <1>0, <1>1, <1>3 DEF TypeOK, Container
    <2>2. TypeOK'  BY <1>0, <1>1, <1>2, <2>1 DEF TypeOK, Runs, RunStates
    <2>3. Fitting'  BY <1>0, <1>1, <1>2, <2>1 DEF Fitting
    <2>4. Single'  BY <1>0, <1>1, <1>2, <2>1 DEF Fitting, Single, NoDuplicateBox
    <2>5. Deleting'  BY <1>0, <1>1, <1>2, <2>1 DEF Fitting, Single, NoDuplicateBox, Deleting
    <2>6. OfOneKind'  BY <1>0, <1>1, <1>2, <2>1 DEF Fitting, Single, OfOneKind
    <2>7. GuestCleaned'
        BY <1>0, <1>1, <1>2, <2>1 DEF Fitting, Single, NoDuplicateBox, OfOneKind,
           GuestCleaned
    <2>8. Recorded'
        BY <1>0, <1>1, <1>2, <2>1 DEF Fitting, Single, Deleting, OfOneKind,
           GuestCleaned, Recorded, Uploaded, Unfinished
    <2>9. Uploaded'
        BY <1>0, <1>1, <1>2, <2>1 DEF Fitting, Single, Deleting, OfOneKind,
           GuestCleaned, Recorded, Uploaded
    <2>10. Extracting'
        BY <1>0, <1>1, <1>2, <2>1 DEF Fitting, Single, NoDuplicateBox, Deleting,
           OfOneKind, Recorded, Uploaded, Extracting, State
    <2>11. QED  BY <2>2, <2>3, <2>4, <2>5, <2>6, <2>7, <2>8, <2>9, <2>10 DEF IInv
<1>4. CASE containers' = [containers EXCEPT ![v].state = "stopped"]
    <2>1. Keeps(v, "stopped", containers[v].agent, containers[v].creds)
        BY <1>0, <1>1, <1>4 DEF TypeOK, Container
    <2>2. TypeOK'  BY <1>0, <1>1, <1>2, <2>1 DEF TypeOK, Runs, RunStates
    <2>3. Fitting'  BY <1>0, <1>1, <1>2, <2>1 DEF Fitting
    <2>4. Single'  BY <1>0, <1>1, <1>2, <2>1 DEF Fitting, Single, NoDuplicateBox
    <2>5. Deleting'  BY <1>0, <1>1, <1>2, <2>1 DEF Fitting, Single, NoDuplicateBox, Deleting
    <2>6. OfOneKind'  BY <1>0, <1>1, <1>2, <2>1 DEF Fitting, Single, OfOneKind
    <2>7. GuestCleaned'
        BY <1>0, <1>1, <1>2, <2>1 DEF Fitting, Single, NoDuplicateBox, OfOneKind,
           GuestCleaned
    <2>8. Recorded'
        BY <1>0, <1>1, <1>2, <2>1 DEF Fitting, Single, Deleting, OfOneKind,
           GuestCleaned, Recorded, Uploaded, Unfinished
    <2>9. Uploaded'
        BY <1>0, <1>1, <1>2, <2>1 DEF Fitting, Single, Deleting, OfOneKind,
           GuestCleaned, Recorded, Uploaded
    <2>10. Extracting'
        BY <1>0, <1>1, <1>2, <2>1 DEF Fitting, Single, NoDuplicateBox, Deleting,
           OfOneKind, Recorded, Uploaded, Extracting, State
    <2>11. QED  BY <2>2, <2>3, <2>4, <2>5, <2>6, <2>7, <2>8, <2>9, <2>10 DEF IInv
<1>5. CASE containers' = [containers EXCEPT ![v] = None]
    <2>1. Alters(v) /\ containers'[v] = None
        BY <1>0, <1>5 DEF TypeOK
    <2>2. TypeOK'  BY <1>0, <1>1, <1>2, <2>1 DEF TypeOK, Runs, RunStates
    <2>3. Fitting'  BY <1>0, <1>1, <1>2, <2>1 DEF Fitting
    <2>4. Single'  BY <1>0, <1>1, <1>2, <2>1 DEF Fitting, Single, NoDuplicateBox
    <2>5. Deleting'  BY <1>0, <1>1, <1>2, <2>1 DEF Fitting, Single, NoDuplicateBox, Deleting
    <2>6. OfOneKind'  BY <1>0, <1>1, <1>2, <2>1 DEF Fitting, Single, OfOneKind
    <2>7. GuestCleaned'
        BY <1>0, <1>1, <1>2, <2>1 DEF Fitting, Single, NoDuplicateBox, OfOneKind,
           GuestCleaned
    <2>8. Recorded'
        BY <1>0, <1>1, <1>2, <2>1 DEF Fitting, Single, Deleting, OfOneKind,
           GuestCleaned, Recorded, Uploaded, Unfinished
    <2>9. Uploaded'
        BY <1>0, <1>1, <1>2, <2>1 DEF Fitting, Single, Deleting, OfOneKind,
           GuestCleaned, Recorded, Uploaded
    <2>10. Extracting'
        BY <1>0, <1>1, <1>2, <2>1 DEF Fitting, Single, NoDuplicateBox, Deleting,
           OfOneKind, Recorded, Uploaded, Extracting, State
    <2>11. QED  BY <2>2, <2>3, <2>4, <2>5, <2>6, <2>7, <2>8, <2>9, <2>10 DEF IInv
<1>6. QED
    BY <1>3, <1>4, <1>5 DEF CreateEnds

\* The commands that wait for a destruction learn how it ended.
LEMMA DestroyEndsKeeps ==
    ASSUME IInv, NEW v \in Vmids, DestroyEnds(v)
    PROVE  IInv'
<1>0. /\ TypeOK /\ Fitting /\ Single /\ Deleting /\ OfOneKind /\ GuestCleaned
      /\ Recorded /\ Uploaded /\ Extracting
      /\ None \notin Boxes \cup Vmids \cup Operation \cup Container
    BY ProvisionAssumption, NoneIsNoRecord DEF IInv
<1> USE DEF OnlyMoves, Becomes, Advances, Ends, Records, Alters, Keeps, Saved,
           Early, SshSteps, TemplateSteps, NewSteps, RepairSteps, DeleteSteps,
           EarlyNew, NewOf, Absent, Settled, Has, Remembers
<1> DEFINE waiting(p) == run[p].step = "destroying" /\ run[p].vmid = v
<1>1. /\ containers[v] # None /\ containers[v] \in Container
      /\ containers[v].state = "destroying"
    BY <1>0 DEF DestroyEnds, State, TypeOK
<1>2. faults' \in 0 .. MaxFaults /\ UNCHANGED <<uploads, templates, operations, unrecorded>>
    BY <1>0, ProvisionAssumption DEF DestroyEnds, TypeOK
<1>3. run \in Runs /\ Idle \in RunStates
    BY <1>0 DEF TypeOK, Runs, RunStates, Idle, Steps
<1>4. CASE /\ containers' = [containers EXCEPT ![v] = None]
           /\ run' = [p \in Commands |->
                  IF waiting(p) THEN [run[p] EXCEPT !.step = "pending"] ELSE run[p]]
    <2>1. Alters(v) /\ containers'[v] = None
        BY <1>0, <1>4 DEF TypeOK
    <2>2. ASSUME NEW p \in Commands
          PROVE  /\ run'[p] \in RunStates
                 /\ run'[p].step = IF waiting(p) THEN "pending" ELSE run[p].step
                 /\ run'[p].verb = run[p].verb /\ run'[p].box = run[p].box
                 /\ run'[p].vmid = run[p].vmid /\ run'[p].memory = run[p].memory
        <3>1. run[p] \in RunStates
            BY <1>3 DEF Runs
        <3>2. QED
            BY <1>4, <3>1 DEF RunStates, Steps
    <2>3. run' \in Runs
        BY <1>4, <2>2 DEF Runs
    <2>4. \A p \in Commands :
              /\ run'[p].step = IF waiting(p) THEN "pending" ELSE run[p].step
              /\ run'[p].verb = run[p].verb /\ run'[p].box = run[p].box
              /\ run'[p].vmid = run[p].vmid /\ run'[p].memory = run[p].memory
        BY <2>2
    <2>5. TypeOK'  BY <1>0, <1>1, <1>2, <2>1, <2>3, <2>4 DEF TypeOK, Runs, RunStates
    <2>6. Fitting'  BY <1>0, <1>1, <1>2, <2>1, <2>3, <2>4 DEF Fitting
    <2>7. Single'  BY <1>0, <1>1, <1>2, <2>1, <2>3, <2>4 DEF Fitting, Single, NoDuplicateBox
    <2>8. Deleting'
        BY <1>0, <1>1, <1>2, <2>1, <2>3, <2>4 DEF Fitting, Single, NoDuplicateBox,
           Deleting
    <2>9. OfOneKind'  BY <1>0, <1>1, <1>2, <2>1, <2>3, <2>4 DEF Fitting, Single, OfOneKind
    <2>10. GuestCleaned'
        BY <1>0, <1>1, <1>2, <2>1, <2>3, <2>4 DEF Fitting, Single, NoDuplicateBox,
           OfOneKind, GuestCleaned
    <2>11. Recorded'
        BY <1>0, <1>1, <1>2, <2>1, <2>3, <2>4 DEF Fitting, Single, Deleting, OfOneKind,
           GuestCleaned, Recorded, Uploaded, Unfinished
    <2>12. Uploaded'
        BY <1>0, <1>1, <1>2, <2>1, <2>3, <2>4 DEF Fitting, Single, Deleting, OfOneKind,
           GuestCleaned, Recorded, Uploaded
    <2>13. Extracting'
        BY <1>0, <1>1, <1>2, <2>1, <2>3, <2>4 DEF Fitting, Single, NoDuplicateBox,
           Deleting, OfOneKind, Recorded, Uploaded, Extracting, State
    <2>14. QED  BY <2>5, <2>6, <2>7, <2>8, <2>9, <2>10, <2>11, <2>12, <2>13 DEF IInv
<1>5. CASE /\ containers' = [containers EXCEPT ![v].state = "stopped"]
           /\ run' = [p \in Commands |-> IF waiting(p) THEN Idle ELSE run[p]]
    <2>1. Keeps(v, "stopped", containers[v].agent, containers[v].creds)
        BY <1>0, <1>1, <1>5 DEF TypeOK, Container
    <2>2. \A p \in Commands : run'[p] = IF waiting(p) THEN Idle ELSE run[p]
        BY <1>5
    <2>3. run' \in Runs
        BY <1>3, <1>5 DEF Runs
    <2>4. \A p \in Commands :
              \/ run'[p] = run[p]
              \/ /\ run[p].step = "destroying"
                 /\ run'[p].step = "idle" /\ run'[p].verb = "none" /\ run'[p].box = None
                 /\ run'[p].vmid = None /\ run'[p].memory = None
        BY <2>2 DEF Idle
    <2>5. TypeOK'  BY <1>0, <1>1, <1>2, <2>1, <2>3, <2>4 DEF TypeOK, Runs, RunStates
    <2>6. Fitting'  BY <1>0, <1>1, <1>2, <2>1, <2>3, <2>4 DEF Fitting
    <2>7. Single'  BY <1>0, <1>1, <1>2, <2>1, <2>3, <2>4 DEF Fitting, Single, NoDuplicateBox
    <2>8. Deleting'
        BY <1>0, <1>1, <1>2, <2>1, <2>3, <2>4 DEF Fitting, Single, NoDuplicateBox,
           Deleting
    <2>9. OfOneKind'  BY <1>0, <1>1, <1>2, <2>1, <2>3, <2>4 DEF Fitting, Single, OfOneKind
    <2>10. GuestCleaned'
        BY <1>0, <1>1, <1>2, <2>1, <2>3, <2>4 DEF Fitting, Single, NoDuplicateBox,
           OfOneKind, GuestCleaned
    <2>11. Recorded'
        BY <1>0, <1>1, <1>2, <2>1, <2>3, <2>4 DEF Fitting, Single, Deleting, OfOneKind,
           GuestCleaned, Recorded, Uploaded, Unfinished
    <2>12. Uploaded'
        BY <1>0, <1>1, <1>2, <2>1, <2>3, <2>4 DEF Fitting, Single, Deleting, OfOneKind,
           GuestCleaned, Recorded, Uploaded
    <2>13. Extracting'
        BY <1>0, <1>1, <1>2, <2>1, <2>3, <2>4 DEF Fitting, Single, NoDuplicateBox,
           Deleting, OfOneKind, Recorded, Uploaded, Extracting, State
    <2>14. QED  BY <2>5, <2>6, <2>7, <2>8, <2>9, <2>10, <2>11, <2>12, <2>13 DEF IInv
<1>6. QED
    BY <1>4, <1>5 DEF DestroyEnds

\* A guest starts.
LEMMA GuestStartsKeeps ==
    ASSUME IInv, NEW v \in Vmids, GuestStarts(v)
    PROVE  IInv'
<1>0. /\ TypeOK /\ Fitting /\ Single /\ Deleting /\ OfOneKind /\ GuestCleaned
      /\ Recorded /\ Uploaded /\ Extracting
      /\ None \notin Boxes \cup Vmids \cup Operation \cup Container
    BY ProvisionAssumption, NoneIsNoRecord DEF IInv
<1> USE DEF OnlyMoves, Becomes, Advances, Ends, Records, Alters, Keeps, Saved,
           Early, SshSteps, TemplateSteps, NewSteps, RepairSteps, DeleteSteps,
           EarlyNew, NewOf, Absent, Settled, Has, Remembers
<1>1. /\ containers[v] # None /\ containers[v] \in Container
      /\ containers[v].state = "stopped"
      /\ containers' = [containers EXCEPT ![v].state = "running"]
    BY <1>0 DEF GuestStarts, State, TypeOK
<1>2. faults' \in 0 .. MaxFaults /\ UNCHANGED <<uploads, templates, operations, run, unrecorded>>
    BY <1>0, ProvisionAssumption DEF GuestStarts, TypeOK
<1>3. Keeps(v, "running", containers[v].agent, containers[v].creds)
    BY <1>0, <1>1 DEF TypeOK, Container
<1>4. containers[v] # None /\ containers[v].state = "stopped"
    BY <1>1
<1>5. TypeOK'  BY <1>0, <1>2, <1>3, <1>4 DEF TypeOK, Runs, RunStates
<1>6. Fitting'  BY <1>0, <1>2, <1>3, <1>4 DEF Fitting
<1>7. Single'  BY <1>0, <1>2, <1>3, <1>4 DEF Fitting, Single, NoDuplicateBox
<1>8. Deleting'  BY <1>0, <1>2, <1>3, <1>4 DEF Fitting, Single, NoDuplicateBox, Deleting
<1>9. OfOneKind'  BY <1>0, <1>2, <1>3, <1>4 DEF Fitting, Single, OfOneKind
<1>10. GuestCleaned'
    BY <1>0, <1>2, <1>3, <1>4 DEF Fitting, Single, NoDuplicateBox, OfOneKind,
       GuestCleaned
<1>11. Recorded'
    BY <1>0, <1>2, <1>3, <1>4 DEF Fitting, Single, Deleting, OfOneKind, GuestCleaned,
       Recorded, Uploaded, Unfinished
<1>12. Uploaded'
    BY <1>0, <1>2, <1>3, <1>4 DEF Fitting, Single, Deleting, OfOneKind, GuestCleaned,
       Recorded, Uploaded
<1>13. Extracting'
    BY <1>0, <1>2, <1>3, <1>4 DEF Fitting, Single, NoDuplicateBox, Deleting, OfOneKind,
       Recorded, Uploaded, Extracting, State
<1>14. QED  BY <1>5, <1>6, <1>7, <1>8, <1>9, <1>10, <1>11, <1>12, <1>13 DEF IInv

\* A guest stops.
LEMMA GuestStopsKeeps ==
    ASSUME IInv, NEW v \in Vmids, GuestStops(v)
    PROVE  IInv'
<1>0. /\ TypeOK /\ Fitting /\ Single /\ Deleting /\ OfOneKind /\ GuestCleaned
      /\ Recorded /\ Uploaded /\ Extracting
      /\ None \notin Boxes \cup Vmids \cup Operation \cup Container
    BY ProvisionAssumption, NoneIsNoRecord DEF IInv
<1> USE DEF OnlyMoves, Becomes, Advances, Ends, Records, Alters, Keeps, Saved,
           Early, SshSteps, TemplateSteps, NewSteps, RepairSteps, DeleteSteps,
           EarlyNew, NewOf, Absent, Settled, Has, Remembers
<1>1. /\ containers[v] # None /\ containers[v] \in Container
      /\ containers[v].state = "running"
      /\ containers' = [containers EXCEPT ![v].state = "stopped"]
    BY <1>0 DEF GuestStops, State, TypeOK
<1>2. faults' \in 0 .. MaxFaults /\ UNCHANGED <<uploads, templates, operations, run, unrecorded>>
    BY <1>0, ProvisionAssumption DEF GuestStops, TypeOK
<1>3. Keeps(v, "stopped", containers[v].agent, containers[v].creds)
    BY <1>0, <1>1 DEF TypeOK, Container
<1>4. containers[v] # None /\ containers[v].state = "running"
    BY <1>1
<1>5. TypeOK'  BY <1>0, <1>2, <1>3, <1>4 DEF TypeOK, Runs, RunStates
<1>6. Fitting'  BY <1>0, <1>2, <1>3, <1>4 DEF Fitting
<1>7. Single'  BY <1>0, <1>2, <1>3, <1>4 DEF Fitting, Single, NoDuplicateBox
<1>8. Deleting'  BY <1>0, <1>2, <1>3, <1>4 DEF Fitting, Single, NoDuplicateBox, Deleting
<1>9. OfOneKind'  BY <1>0, <1>2, <1>3, <1>4 DEF Fitting, Single, OfOneKind
<1>10. GuestCleaned'
    BY <1>0, <1>2, <1>3, <1>4 DEF Fitting, Single, NoDuplicateBox, OfOneKind,
       GuestCleaned
<1>11. Recorded'
    BY <1>0, <1>2, <1>3, <1>4 DEF Fitting, Single, Deleting, OfOneKind, GuestCleaned,
       Recorded, Uploaded, Unfinished
<1>12. Uploaded'
    BY <1>0, <1>2, <1>3, <1>4 DEF Fitting, Single, Deleting, OfOneKind, GuestCleaned,
       Recorded, Uploaded
<1>13. Extracting'
    BY <1>0, <1>2, <1>3, <1>4 DEF Fitting, Single, NoDuplicateBox, Deleting, OfOneKind,
       Recorded, Uploaded, Extracting, State
<1>14. QED  BY <1>5, <1>6, <1>7, <1>8, <1>9, <1>10, <1>11, <1>12, <1>13 DEF IInv

-----------------------------------------------------------------------------
(***************************************************************************)
(* The theorems                                                            *)
(***************************************************************************)

\* Every step of a command that goes on keeps the invariant.
LEMMA ProceedsKeeps ==
    ASSUME IInv, NEW p \in Commands, Proceeds(p)
    PROVE  IInv'
<1>1. CASE Uploads(p)  BY <1>1, UploadsKeeps
<1>2. CASE RecordsUpload(p)  BY <1>2, RecordsUploadKeeps
<1>3. CASE UploadFinishes(p)  BY <1>3, UploadFinishesKeeps
<1>4. CASE Lists(p)  BY <1>4, ListsKeeps
<1>5. CASE Creates(p)  BY <1>5, CreatesKeeps
<1>6. CASE CreateConflicts(p)  BY <1>6, CreateConflictsKeeps
<1>7. CASE CreateRefused(p)  BY <1>7, CreateRefusedKeeps
<1>8. CASE RecordsCreate(p)  BY <1>8, RecordsCreateKeeps
<1>9. CASE CreateFinishes(p)  BY <1>9, CreateFinishesKeeps
<1>10. CASE Bootstraps(p)  BY <1>10, BootstrapsKeeps
<1>11. CASE RecordsReady(p)  BY <1>11, RecordsReadyKeeps
<1>12. CASE CleansGuest(p)  BY <1>12, CleansGuestKeeps
<1>13. CASE RecordsClean(p)  BY <1>13, RecordsCleanKeeps
<1>14. CASE Forgets(p)  BY <1>14, ForgetsKeeps
<1>15. CASE Untasks(p)  BY <1>15, UntasksKeeps
<1>16. CASE Untemplates(p)  BY <1>16, UntemplatesKeeps
<1>17. CASE Connects(p)  BY <1>17, ConnectsKeeps
<1>18. CASE RepairMisses(p)  BY <1>18, RepairMissesKeeps
<1>19. CASE RepairEnters(p)  BY <1>19, RepairEntersKeeps
<1>20. CASE DeleteQueues(p)  BY <1>20, DeleteQueuesKeeps
<1>21. CASE DeleteStops(p)  BY <1>21, DeleteStopsKeeps
<1>22. CASE DeleteDestroys(p)  BY <1>22, DeleteDestroysKeeps
<1>23. CASE DeleteCleans(p)  BY <1>23, DeleteCleansKeeps
<1>24. CASE \E v \in Vmids : RepairFinds(p, v)  BY <1>24, RepairFindsKeeps
<1>25. QED
    BY <1>1, <1>2, <1>3, <1>4, <1>5, <1>6, <1>7, <1>8, <1>9, <1>10, <1>11, <1>12, <1>13,
       <1>14, <1>15, <1>16, <1>17, <1>18, <1>19, <1>20, <1>21, <1>22, <1>23, <1>24 DEF
       Proceeds

\* What a command does, what fails and what PVE does keeps the invariant.
LEMMA NextKeeps ==
    ASSUME IInv, [Next]_vars
    PROVE  IInv'
<1>1. ASSUME NEW p \in Commands, Proceeds(p)
      PROVE  IInv'
    BY <1>1, ProceedsKeeps
<1>2. ASSUME NEW p \in Commands, Breaks(p)
      PROVE  IInv'
    BY <1>2, CreateUnheardKeeps, KilledKeeps, FailsEarlyKeeps DEF Breaks
<1>3. ASSUME NEW p \in Commands, NEW b \in Boxes, Begins(p, b)
      PROVE  IInv'
    BY <1>3, NewBeginsKeeps, RepairBeginsKeeps, DeleteBeginsKeeps DEF Begins
<1>4. ASSUME NEW b \in Boxes, UploadEnds(b)
      PROVE  IInv'
    BY <1>4, UploadEndsKeeps
<1>5. ASSUME NEW v \in Vmids,
             CreateEnds(v) \/ DestroyEnds(v) \/ GuestStarts(v) \/ GuestStops(v)
      PROVE  IInv'
    BY <1>5, CreateEndsKeeps, DestroyEndsKeeps, GuestStartsKeeps, GuestStopsKeeps
<1>6. CASE UNCHANGED vars
    <2>1. UNCHANGED <<containers, uploads, templates, operations, run, unrecorded, faults>>
        BY <1>6 DEF vars
    <2>2. /\ TypeOK' /\ Fitting' /\ Single' /\ Deleting' /\ OfOneKind'
          /\ GuestCleaned' /\ Recorded' /\ Uploaded' /\ Extracting'
        BY <2>1, SMTT(30) DEF IInv, TypeOK, Fitting, Single, NoDuplicateBox, Deleting, OfOneKind,
           GuestCleaned, Recorded, Uploaded, Extracting, EarlyNew, NewOf, Absent, Settled,
           Has, State, Remembers, Unfinished
    <2>3. QED  BY <2>2 DEF IInv
<1>7. QED  BY <1>1, <1>2, <1>3, <1>4, <1>5, <1>6 DEF Next

\* Nothing exists at first.
LEMMA InitHolds ==
    ASSUME Init
    PROVE  IInv
<1>1. /\ \A v \in Vmids : containers[v] = None
      /\ \A b \in Boxes : operations[b] = None
      /\ \A p \in Commands : /\ run[p].step = "idle" /\ run[p].verb = "none"
                             /\ run[p].box = None /\ run[p].memory = None
      /\ uploads = {} /\ templates = {}
    BY DEF Init, Idle
<1>2. Idle \in RunStates
    BY DEF Idle, RunStates, Steps
<1>3. TypeOK
    BY <1>2, ProvisionAssumption DEF Init, TypeOK, RunStates
<1>4. \A b \in Boxes : ~EarlyNew(b) /\ Absent(b) /\ Settled(b) /\ ~Unfinished(b)
    BY <1>1 DEF EarlyNew, NewOf, Absent, Has, Settled, Unfinished
<1>5. \A p \in Commands : ~Remembers(p)
    BY <1>1 DEF Remembers, TemplateSteps
<1>6. /\ Fitting /\ Single /\ Deleting /\ OfOneKind /\ GuestCleaned
      /\ Recorded /\ Uploaded /\ Extracting
    BY <1>1, <1>4, <1>5 DEF Fitting, Single, NoDuplicateBox, Deleting, OfOneKind,
       GuestCleaned, Recorded, Uploaded, Extracting, NewOf, Absent, Has, SshSteps, Settled
<1>7. QED  BY <1>3, <1>6 DEF IInv

\* The invariant holds in every state that the commands, PVE and the faults reach.
LEMMA Inductive == Spec => []IInv
<1>1. Init => IInv
    BY InitHolds
<1>2. IInv /\ [Next]_vars => IInv'
    BY NextKeeps
<1>3. QED  BY <1>1, <1>2, PTL DEF Spec

\* Containers, templates, operations and commands keep their shapes.
THEOREM ProvisionTyped == Spec => []TypeOK
<1>1. IInv => TypeOK
    BY DEF IInv
<1>2. QED  BY <1>1, Inductive, PTL

\* However many creations race for VMIDs and lose answers, no box has two containers.
THEOREM OneContainerPerBox == Spec => []NoDuplicateBox
<1>1. IInv => NoDuplicateBox
    BY DEF IInv, Single
<1>2. QED  BY <1>1, Inductive, PTL

\* run_delete gives up the recovery files of a box only after the box is gone.
THEOREM CleanupOnlyAfterDeletion == Spec => []CleanupFollowsDeletion
<1>1. IInv => CleanupFollowsDeletion
    BY DEF IInv, Deleting, Absent, TemplateSteps, CleanupFollowsDeletion
<1>2. QED  BY <1>1, Inductive, PTL

\* Killed at any point, with repairs and deletions beside it, a creation leaves the
\* operation from which `pbox repair` goes on.
THEOREM InterruptionsRepairable == Spec => []InterruptedRepairable
<1>1. IInv => InterruptedRepairable
    BY DEF IInv, Recorded, InterruptedRepairable
<1>2. QED  BY <1>1, Inductive, PTL

\* A private template is named by an operation as long as it exists, and exists as
\* long as a creation reads it, unless it is of a box in `unrecorded`: an upload whose
\* task could not be saved may be stored after the cleanup, and nobody names it.
THEOREM TemplateLifeFollowsOperation == Spec => []TemplateSafe
<1>1. IInv => TemplateOwned
    BY DEF IInv, TypeOK, Uploaded, TemplateOwned
<1>2. IInv => TemplateKeptWhileRead
    <2>1. SUFFICES ASSUME IInv, NEW v \in Vmids, State(v) = "creating", containers[v].agent
                   PROVE  containers[v].box \in templates \cup unrecorded
        BY DEF TemplateKeptWhileRead
    <2>2. containers[v] # None /\ containers[v].box \in Boxes
        BY <2>1 DEF IInv, TypeOK, State, Container
    <2>3. QED  BY <2>1, <2>2 DEF IInv, Extracting, Has
<1>3. IInv => TemplateSafe
    BY <1>1, <1>2 DEF TemplateSafe
<1>4. QED  BY <1>3, Inductive, PTL
=============================================================================
