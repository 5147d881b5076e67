--------------------------- MODULE Snapshots_proofs ---------------------------
(***************************************************************************)
(* What captures, their repair and the boxes made from them leave behind,  *)
(* for any number of commands, copies, clones and faults.                  *)
(***************************************************************************)
EXTENDS Snapshots, TLAPS

-----------------------------------------------------------------------------
(***************************************************************************)
(* The inductive invariant                                                 *)
(***************************************************************************)

AllSteps == SourceSteps \cup CloneSteps \cup {"idle"}
RunStates ==
    [step: AllSteps,
     verb: {"none", "capture", "repair-source", "restore", "repair"},
     was: {"running", "stopped", None}, at: Copies \cup Clones \cup {None}]
Runs == [Commands -> RunStates]

\* Variables and command records have their shapes, and a command's step fits
\* its verb.
Shaped ==
    /\ source \in Source
    /\ copies \in [Copies -> Copy \cup {None}]
    /\ clones \in [Clones -> Clone \cup {None}]
    /\ run \in Runs
    /\ captures \in 0..MaxCaptures
    /\ before \in {"running", "stopped", None}
    /\ disturbed \in BOOLEAN
    /\ faults \in 0..MaxFaults

AtSource(p) == run[p].verb \in {"capture", "repair-source"}

Fitting ==
    \A p \in Commands :
        /\ AtSource(p) <=> run[p].step \in SourceSteps
        /\ run[p].verb \in {"restore", "repair"} <=> run[p].step \in CloneSteps
        /\ run[p].step \in CaptureSteps \ {"begun"} => run[p].verb = "capture"
        /\ run[p].step = "read" => run[p].verb = "repair-source"
        /\ run[p].step \in SourceSteps => run[p].was \in {"running", "stopped"}
        /\ run[p].step = "reshut" => run[p].was = "stopped"
        /\ run[p].step \in {"copying", "convert"} => run[p].at \in Copies
        /\ run[p].step \in CloneSteps => run[p].at \in Clones

\* The preparation that a capture made is its own until it is cleaned away.
Holding(p) ==
    /\ run[p].verb = "capture"
    /\ run[p].step \in {"prepare", "halt", "clone", "copying", "convert", "rise", "clean"}

Owned ==
    /\ source.prior = None <=> source.prep = "none"
    /\ \A p, q \in Commands : ~(run[p].verb = "capture" /\ run[q].verb = "repair-source")
    /\ \A p, q \in Commands :
           run[p].verb = "repair-source" /\ run[q].verb = "repair-source" => p = q
    /\ \A p \in Commands : Holding(p) => source.prep # "none"
    /\ \A p, q \in Commands : Holding(p) /\ Holding(q) => p = q
    /\ \A p \in Commands : run[p].step \in {"halt", "clone"} => source.prep = "full"

\* Every copy was taken of a prepared source, and a clone keeps a way in.
Handed ==
    /\ \A c \in Copies : copies[c] # None => copies[c].prepared
    /\ \A k \in Clones :
           clones[k] # None =>
               /\ clones[k].stage \/ clones[k].own
               /\ clones[k].agent = "own" => clones[k].own
               /\ ~clones[k].marker => clones[k].own /\ ~clones[k].stage
    /\ \A p \in Commands :
           LET k == run[p].at
           IN  /\ run[p].step \in CloneSteps \ {"cloning"} =>
                      clones[k] # None /\ clones[k].state # "copying"
               /\ run[p].step \in {"strip", "shut", "reboot", "greet", "finish"} =>
                      clones[k].own
               /\ run[p].step \in {"shut", "reboot", "greet", "finish"} =>
                      ~clones[k].stage

\* Undisturbed, a command at the source is alone there, and what it knows of
\* the state before the capture is right at each of its steps.
Restoring ==
    ~disturbed /\ before # None =>
        /\ \A p, q \in Commands : AtSource(p) /\ AtSource(q) => p = q
        /\ source.prep # "none" => source.prior = before
        /\ source.prep = "none" /\ (\A p \in Commands : ~AtSource(p)) =>
               source.state = before
        /\ \A p \in Commands :
               LET step == run[p].step
               IN  /\ step \in SourceSteps \ {"begun", "read"} => run[p].was = before
                   /\ step \in {"begun", "read"} /\ source.prep = "none" =>
                          run[p].was = before
                   /\ step = "mark" \/ (step = "begun" /\ run[p].verb = "capture") =>
                          source.prep = "none"
                   /\ step = "begun" => source.state = run[p].was
                   /\ step \in {"mark", "read", "prepare", "halt", "clean"} =>
                          source.state = "running"
                   /\ step = "rise" /\ source.prep = "none" => source.state = "running"

IInv == Shaped /\ Fitting /\ Owned /\ Handed /\ Restoring

-----------------------------------------------------------------------------
(***************************************************************************)
(* Effects of a step                                                       *)
(***************************************************************************)

OnlyMoves(p) == run' \in Runs /\ \A q \in Commands : q # p => run'[q] = run[q]

Becomes(p, step, verb, was, at) ==
    /\ run'[p].step = step
    /\ run'[p].verb = verb
    /\ run'[p].was = was
    /\ run'[p].at = at

SourceBecomes(state, prep, prior) ==
    /\ source' \in Source
    /\ source'.state = state
    /\ source'.prep = prep
    /\ source'.prior = prior

\* A command that goes on changes its step only.
LEMMA GotoMoves ==
    ASSUME Shaped, NEW p \in Commands, NEW s \in AllSteps, Goto(p, s)
    PROVE  OnlyMoves(p) /\ Becomes(p, s, run[p].verb, run[p].was, run[p].at)
<1>1. run[p] \in RunStates
    BY DEF Shaped, Runs
<1>2. QED  BY <1>1 DEF Goto, OnlyMoves, Becomes, Shaped, Runs, RunStates

\* A command that ends leaves nothing behind but what it did.
LEMMA ExitMoves ==
    ASSUME Shaped, NEW p \in Commands, Exit(p)
    PROVE  OnlyMoves(p) /\ Becomes(p, "idle", "none", None, None)
<1>1. Idle \in RunStates
    BY DEF Idle, AllSteps, RunStates
<1>2. QED  BY <1>1 DEF Exit, Idle, OnlyMoves, Becomes, Shaped, Runs

\* A step that leaves the source and the commands there alone keeps what is
\* known of them.
LEMMA Aloof ==
    ASSUME Owned, Restoring, UNCHANGED <<source, before, disturbed>>,
           \A q \in Commands : AtSource(q)' <=> AtSource(q),
           \A q \in Commands : AtSource(q) => run'[q] = run[q],
           Fitting, Fitting'
    PROVE  Owned' /\ Restoring'
<1>1. \A q \in Commands : Holding(q)' <=> Holding(q)
    BY DEF AtSource, Holding
<1>2. Owned'
    BY <1>1 DEF Owned, AtSource, Fitting, SourceSteps, CaptureSteps
<1>3. Restoring'
    BY DEF Restoring, AtSource, Fitting, SourceSteps, CaptureSteps
<1>4. QED  BY <1>2, <1>3

\* A step that leaves the clones and the commands there alone keeps what is
\* known of them, if every copy stays complete.
LEMMA HandedKept ==
    ASSUME Handed, clones' = clones,
           \A c \in Copies : copies'[c] # None => copies'[c].prepared,
           \A q \in Commands : run'[q].step \in CloneSteps => run'[q] = run[q]
    PROVE  Handed'
BY DEF Handed, CloneSteps

\* What a step at the source has to show: the rest of the invariant concerns
\* the copies and the clones.
Result ==
    /\ run' \in Runs
    /\ source' \in Source
    /\ \A q \in Commands : run'[q].step \in CloneSteps => run'[q] = run[q]
    /\ Fitting' /\ Owned' /\ Restoring'

\* The source of a capture or a repair is up when its command goes on.
LEMMA BeginsKeeps ==
    ASSUME SnapshotsAssumption, Shaped, Fitting, Owned, Restoring,
           NEW p \in Commands, Begins(p)
    PROVE  Result
<1>0. /\ Shaped /\ Fitting /\ Owned /\ Restoring
      /\ None \notin {"running", "stopped"}
    BY DEF SnapshotsAssumption
<1> USE DEF OnlyMoves, Becomes, SourceBecomes, AtSource, SourceSteps, CaptureSteps,
            CloneSteps
<1>1. CASE /\ run[p].step = "begun"
           /\ run[p].was = "running"
           /\ run[p].verb = "capture"
           /\ UNCHANGED source
           /\ Goto(p, "mark")
           /\ UNCHANGED <<before, disturbed>>
    <2>1. OnlyMoves(p) /\ Becomes(p, "mark", run[p].verb, run[p].was, run[p].at)
        BY <1>0, <1>1, GotoMoves DEF AllSteps
    <2>2. SourceBecomes(source.state, source.prep, source.prior)
        BY <1>0, <1>1 DEF Shaped, Fitting, Source
    <2>3. Fitting' /\ Owned'
        BY <1>0, <1>1, <2>1, <2>2 DEF Fitting, Owned, Holding
    <2>4. Restoring'
        BY <1>0, <1>1, <2>1, <2>2 DEF Restoring, Fitting, Owned, Holding
    <2>5. QED  BY <1>0, <2>1, <2>2, <2>3, <2>4 DEF Result
<1>2. CASE /\ run[p].step = "begun"
           /\ run[p].was = "running"
           /\ run[p].verb # "capture"
           /\ UNCHANGED source
           /\ Goto(p, "read")
           /\ UNCHANGED <<before, disturbed>>
    <2>1. OnlyMoves(p) /\ Becomes(p, "read", run[p].verb, run[p].was, run[p].at)
        BY <1>0, <1>2, GotoMoves DEF AllSteps
    <2>2. SourceBecomes(source.state, source.prep, source.prior)
        BY <1>0, <1>2 DEF Shaped, Fitting, Source
    <2>3. Fitting' /\ Owned'
        BY <1>0, <1>2, <2>1, <2>2 DEF Fitting, Owned, Holding
    <2>4. Restoring'
        BY <1>0, <1>2, <2>1, <2>2 DEF Restoring, Fitting, Owned, Holding
    <2>5. QED  BY <1>0, <2>1, <2>2, <2>3, <2>4 DEF Result
<1>3. CASE /\ run[p].step = "begun"
           /\ run[p].was = "stopped"
           /\ source.state = "stopped"
           /\ run[p].verb = "capture"
           /\ source' = [source EXCEPT !.state = "running"]
           /\ Goto(p, "mark")
           /\ UNCHANGED <<before, disturbed>>
    <2>1. OnlyMoves(p) /\ Becomes(p, "mark", run[p].verb, run[p].was, run[p].at)
        BY <1>0, <1>3, GotoMoves DEF AllSteps
    <2>2. SourceBecomes("running", source.prep, source.prior)
        BY <1>0, <1>3 DEF Shaped, Fitting, Source
    <2>3. Fitting' /\ Owned'
        BY <1>0, <1>3, <2>1, <2>2 DEF Fitting, Owned, Holding
    <2>4. Restoring'
        BY <1>0, <1>3, <2>1, <2>2 DEF Restoring, Fitting, Owned, Holding
    <2>5. QED  BY <1>0, <2>1, <2>2, <2>3, <2>4 DEF Result
<1>4. CASE /\ run[p].step = "begun"
           /\ run[p].was = "stopped"
           /\ source.state = "stopped"
           /\ run[p].verb # "capture"
           /\ source' = [source EXCEPT !.state = "running"]
           /\ Goto(p, "read")
           /\ UNCHANGED <<before, disturbed>>
    <2>1. OnlyMoves(p) /\ Becomes(p, "read", run[p].verb, run[p].was, run[p].at)
        BY <1>0, <1>4, GotoMoves DEF AllSteps
    <2>2. SourceBecomes("running", source.prep, source.prior)
        BY <1>0, <1>4 DEF Shaped, Fitting, Source
    <2>3. Fitting' /\ Owned'
        BY <1>0, <1>4, <2>1, <2>2 DEF Fitting, Owned, Holding
    <2>4. Restoring'
        BY <1>0, <1>4, <2>1, <2>2 DEF Restoring, Fitting, Owned, Holding
    <2>5. QED  BY <1>0, <2>1, <2>2, <2>3, <2>4 DEF Result
<1>5. CASE /\ run[p].step = "begun"
           /\ run[p].was = "stopped"
           /\ UNCHANGED source
           /\ Exit(p)
           /\ UNCHANGED <<before, disturbed>>
    <2>1. OnlyMoves(p) /\ Becomes(p, "idle", "none", None, None)
        BY <1>0, <1>5, ExitMoves DEF AllSteps
    <2>2. SourceBecomes(source.state, source.prep, source.prior)
        BY <1>0, <1>5 DEF Shaped, Fitting, Source
    <2>3. Fitting' /\ Owned'
        BY <1>0, <1>5, <2>1, <2>2 DEF Fitting, Owned, Holding
    <2>4. Restoring'
        BY <1>0, <1>5, <2>1, <2>2 DEF Restoring, Fitting, Owned, Holding
    <2>5. QED  BY <1>0, <2>1, <2>2, <2>3, <2>4 DEF Result
<1>6. QED
    BY <1>1, <1>2, <1>3, <1>4, <1>5 DEF Begins, history

\* Only a capture that finds no preparation makes one, and records the state.
LEMMA MarksKeeps ==
    ASSUME SnapshotsAssumption, Shaped, Fitting, Owned, Restoring,
           NEW p \in Commands, Marks(p)
    PROVE  Result
<1>0. /\ Shaped /\ Fitting /\ Owned /\ Restoring
      /\ None \notin {"running", "stopped"}
    BY DEF SnapshotsAssumption
<1> USE DEF OnlyMoves, Becomes, SourceBecomes, AtSource, SourceSteps, CaptureSteps,
            CloneSteps
<1>1. CASE /\ run[p].step = "mark"
           /\ source.state = "running"
           /\ source.prep = "none"
           /\ source' = [source EXCEPT !.prep = "partial", !.prior = run[p].was]
           /\ Goto(p, "prepare")
           /\ UNCHANGED <<before, disturbed>>
    <2>1. OnlyMoves(p) /\ Becomes(p, "prepare", run[p].verb, run[p].was, run[p].at)
        BY <1>0, <1>1, GotoMoves DEF AllSteps
    <2>2. SourceBecomes(source.state, "partial", run[p].was)
        BY <1>0, <1>1 DEF Shaped, Fitting, Source
    <2>3. Fitting' /\ Owned'
        BY <1>0, <1>1, <2>1, <2>2 DEF Fitting, Owned, Holding
    <2>4. Restoring'
        BY <1>0, <1>1, <2>1, <2>2 DEF Restoring, Fitting, Owned, Holding
    <2>5. QED  BY <1>0, <2>1, <2>2, <2>3, <2>4 DEF Result
<1>2. CASE /\ run[p].step = "mark"
           /\ source.state = "stopped" \/ source.prep # "none"
           /\ run[p].was = "running"
           /\ UNCHANGED source
           /\ Exit(p)
           /\ UNCHANGED <<before, disturbed>>
    <2>1. OnlyMoves(p) /\ Becomes(p, "idle", "none", None, None)
        BY <1>0, <1>2, ExitMoves DEF AllSteps
    <2>2. SourceBecomes(source.state, source.prep, source.prior)
        BY <1>0, <1>2 DEF Shaped, Fitting, Source
    <2>3. Fitting' /\ Owned'
        BY <1>0, <1>2, <2>1, <2>2 DEF Fitting, Owned, Holding
    <2>4. Restoring'
        BY <1>0, <1>2, <2>1, <2>2 DEF Restoring, Fitting, Owned, Holding
    <2>5. QED  BY <1>0, <2>1, <2>2, <2>3, <2>4 DEF Result
<1>3. CASE /\ run[p].step = "mark"
           /\ source.state = "stopped" \/ source.prep # "none"
           /\ run[p].was # "running"
           /\ UNCHANGED source
           /\ Goto(p, "reshut")
           /\ UNCHANGED <<before, disturbed>>
    <2>1. OnlyMoves(p) /\ Becomes(p, "reshut", run[p].verb, run[p].was, run[p].at)
        BY <1>0, <1>3, GotoMoves DEF AllSteps
    <2>2. SourceBecomes(source.state, source.prep, source.prior)
        BY <1>0, <1>3 DEF Shaped, Fitting, Source
    <2>3. Fitting' /\ Owned'
        BY <1>0, <1>3, <2>1, <2>2 DEF Fitting, Owned, Holding
    <2>4. Restoring'
        BY <1>0, <1>3, <2>1, <2>2 DEF Restoring, Fitting, Owned, Holding
    <2>5. QED  BY <1>0, <2>1, <2>2, <2>3, <2>4 DEF Result
<1>4. QED
    BY <1>1, <1>2, <1>3 DEF Marks, history, AfterCleanup

\* The holder completes its preparation.
LEMMA PreparesKeeps ==
    ASSUME SnapshotsAssumption, Shaped, Fitting, Owned, Restoring,
           NEW p \in Commands, Prepares(p)
    PROVE  Result
<1>0. /\ Shaped /\ Fitting /\ Owned /\ Restoring
      /\ None \notin {"running", "stopped"}
    BY DEF SnapshotsAssumption
<1> USE DEF OnlyMoves, Becomes, SourceBecomes, AtSource, SourceSteps, CaptureSteps,
            CloneSteps
<1>1. CASE /\ run[p].step = "prepare"
           /\ source.state = "running"
           /\ source' = [source EXCEPT !.prep = "full"]
           /\ Goto(p, "halt")
           /\ UNCHANGED <<before, disturbed>>
    <2>1. OnlyMoves(p) /\ Becomes(p, "halt", run[p].verb, run[p].was, run[p].at)
        BY <1>0, <1>1, GotoMoves DEF AllSteps
    <2>2. SourceBecomes(source.state, "full", source.prior)
        BY <1>0, <1>1 DEF Shaped, Fitting, Source
    <2>3. Fitting' /\ Owned'
        BY <1>0, <1>1, <2>1, <2>2 DEF Fitting, Owned, Holding
    <2>4. Restoring'
        BY <1>0, <1>1, <2>1, <2>2 DEF Restoring, Fitting, Owned, Holding
    <2>5. QED  BY <1>0, <2>1, <2>2, <2>3, <2>4 DEF Result
<1>2. CASE /\ run[p].step = "prepare"
           /\ source.state = "stopped"
           /\ UNCHANGED source
           /\ Goto(p, "rise")
           /\ UNCHANGED <<before, disturbed>>
    <2>1. OnlyMoves(p) /\ Becomes(p, "rise", run[p].verb, run[p].was, run[p].at)
        BY <1>0, <1>2, GotoMoves DEF AllSteps
    <2>2. SourceBecomes(source.state, source.prep, source.prior)
        BY <1>0, <1>2 DEF Shaped, Fitting, Source
    <2>3. Fitting' /\ Owned'
        BY <1>0, <1>2, <2>1, <2>2 DEF Fitting, Owned, Holding
    <2>4. Restoring'
        BY <1>0, <1>2, <2>1, <2>2 DEF Restoring, Fitting, Owned, Holding
    <2>5. QED  BY <1>0, <2>1, <2>2, <2>3, <2>4 DEF Result
<1>3. QED
    BY <1>1, <1>2 DEF Prepares, history

\* The holder stops the source it prepared.
LEMMA HaltsKeeps ==
    ASSUME SnapshotsAssumption, Shaped, Fitting, Owned, Restoring,
           NEW p \in Commands, Halts(p)
    PROVE  Result
<1>0. /\ Shaped /\ Fitting /\ Owned /\ Restoring
      /\ None \notin {"running", "stopped"}
    BY DEF SnapshotsAssumption
<1> USE DEF OnlyMoves, Becomes, SourceBecomes, AtSource, SourceSteps, CaptureSteps,
            CloneSteps
<1>1. CASE /\ run[p].step = "halt"
           /\ source.state = "running"
           /\ source' = [source EXCEPT !.state = "stopped"]
           /\ Goto(p, "clone")
           /\ UNCHANGED <<before, disturbed>>
    <2>1. OnlyMoves(p) /\ Becomes(p, "clone", run[p].verb, run[p].was, run[p].at)
        BY <1>0, <1>1, GotoMoves DEF AllSteps
    <2>2. SourceBecomes("stopped", source.prep, source.prior)
        BY <1>0, <1>1 DEF Shaped, Fitting, Source
    <2>3. Fitting' /\ Owned'
        BY <1>0, <1>1, <2>1, <2>2 DEF Fitting, Owned, Holding
    <2>4. Restoring'
        BY <1>0, <1>1, <2>1, <2>2 DEF Restoring, Fitting, Owned, Holding
    <2>5. QED  BY <1>0, <2>1, <2>2, <2>3, <2>4 DEF Result
<1>2. CASE /\ run[p].step = "halt"
           /\ source.state = "stopped"
           /\ UNCHANGED source
           /\ Goto(p, "rise")
           /\ UNCHANGED <<before, disturbed>>
    <2>1. OnlyMoves(p) /\ Becomes(p, "rise", run[p].verb, run[p].was, run[p].at)
        BY <1>0, <1>2, GotoMoves DEF AllSteps
    <2>2. SourceBecomes(source.state, source.prep, source.prior)
        BY <1>0, <1>2 DEF Shaped, Fitting, Source
    <2>3. Fitting' /\ Owned'
        BY <1>0, <1>2, <2>1, <2>2 DEF Fitting, Owned, Holding
    <2>4. Restoring'
        BY <1>0, <1>2, <2>1, <2>2 DEF Restoring, Fitting, Owned, Holding
    <2>5. QED  BY <1>0, <2>1, <2>2, <2>3, <2>4 DEF Result
<1>3. QED
    BY <1>1, <1>2 DEF Halts, history

\* Waiting for the copy leaves the source alone.
LEMMA CopyAwaitedKeeps ==
    ASSUME SnapshotsAssumption, Shaped, Fitting, Owned, Restoring,
           NEW p \in Commands, CopyAwaited(p)
    PROVE  Result
<1>0. /\ Shaped /\ Fitting /\ Owned /\ Restoring
      /\ None \notin {"running", "stopped"}
    BY DEF SnapshotsAssumption
<1> USE DEF OnlyMoves, Becomes, SourceBecomes, AtSource, SourceSteps, CaptureSteps,
            CloneSteps
<1>1. CASE /\ run[p].step = "copying"
           /\ UNCHANGED source
           /\ Goto(p, "rise")
           /\ UNCHANGED <<before, disturbed>>
    <2>1. OnlyMoves(p) /\ Becomes(p, "rise", run[p].verb, run[p].was, run[p].at)
        BY <1>0, <1>1, GotoMoves DEF AllSteps
    <2>2. SourceBecomes(source.state, source.prep, source.prior)
        BY <1>0, <1>1 DEF Shaped, Fitting, Source
    <2>3. Fitting' /\ Owned'
        BY <1>0, <1>1, <2>1, <2>2 DEF Fitting, Owned, Holding
    <2>4. Restoring'
        BY <1>0, <1>1, <2>1, <2>2 DEF Restoring, Fitting, Owned, Holding
    <2>5. QED  BY <1>0, <2>1, <2>2, <2>3, <2>4 DEF Result
<1>2. CASE /\ run[p].step = "copying"
           /\ UNCHANGED source
           /\ Goto(p, "convert")
           /\ UNCHANGED <<before, disturbed>>
    <2>1. OnlyMoves(p) /\ Becomes(p, "convert", run[p].verb, run[p].was, run[p].at)
        BY <1>0, <1>2, GotoMoves DEF AllSteps
    <2>2. SourceBecomes(source.state, source.prep, source.prior)
        BY <1>0, <1>2 DEF Shaped, Fitting, Source
    <2>3. Fitting' /\ Owned'
        BY <1>0, <1>2, <2>1, <2>2 DEF Fitting, Owned, Holding
    <2>4. Restoring'
        BY <1>0, <1>2, <2>1, <2>2 DEF Restoring, Fitting, Owned, Holding
    <2>5. QED  BY <1>0, <2>1, <2>2, <2>3, <2>4 DEF Result
<1>3. QED
    BY <1>1, <1>2 DEF CopyAwaited, history

\* The source is up for its cleanup.
LEMMA RisesKeeps ==
    ASSUME SnapshotsAssumption, Shaped, Fitting, Owned, Restoring,
           NEW p \in Commands, Rises(p)
    PROVE  Result
<1>0. /\ Shaped /\ Fitting /\ Owned /\ Restoring
      /\ None \notin {"running", "stopped"}
    BY DEF SnapshotsAssumption
<1> USE DEF OnlyMoves, Becomes, SourceBecomes, AtSource, SourceSteps, CaptureSteps,
            CloneSteps
<1>1. CASE /\ run[p].step = "rise"
           /\ source' = [source EXCEPT !.state = "running"]
           /\ Goto(p, "clean")
           /\ UNCHANGED <<before, disturbed>>
    <2>1. OnlyMoves(p) /\ Becomes(p, "clean", run[p].verb, run[p].was, run[p].at)
        BY <1>0, <1>1, GotoMoves DEF AllSteps
    <2>2. SourceBecomes("running", source.prep, source.prior)
        BY <1>0, <1>1 DEF Shaped, Fitting, Source
    <2>3. Fitting' /\ Owned'
        BY <1>0, <1>1, <2>1, <2>2 DEF Fitting, Owned, Holding
    <2>4. Restoring'
        BY <1>0, <1>1, <2>1, <2>2 DEF Restoring, Fitting, Owned, Holding
    <2>5. QED  BY <1>0, <2>1, <2>2, <2>3, <2>4 DEF Result
<1>2. CASE /\ run[p].step = "rise"
           /\ source.state = "stopped"
           /\ UNCHANGED source
           /\ Exit(p)
           /\ UNCHANGED <<before, disturbed>>
    <2>1. OnlyMoves(p) /\ Becomes(p, "idle", "none", None, None)
        BY <1>0, <1>2, ExitMoves DEF AllSteps
    <2>2. SourceBecomes(source.state, source.prep, source.prior)
        BY <1>0, <1>2 DEF Shaped, Fitting, Source
    <2>3. Fitting' /\ Owned'
        BY <1>0, <1>2, <2>1, <2>2 DEF Fitting, Owned, Holding
    <2>4. Restoring'
        BY <1>0, <1>2, <2>1, <2>2 DEF Restoring, Fitting, Owned, Holding
    <2>5. QED  BY <1>0, <2>1, <2>2, <2>3, <2>4 DEF Result
<1>3. QED
    BY <1>1, <1>2 DEF Rises, history

\* The cleanup removes preparation and record together.
LEMMA CleansKeeps ==
    ASSUME SnapshotsAssumption, Shaped, Fitting, Owned, Restoring,
           NEW p \in Commands, Cleans(p)
    PROVE  Result
<1>0. /\ Shaped /\ Fitting /\ Owned /\ Restoring
      /\ None \notin {"running", "stopped"}
    BY DEF SnapshotsAssumption
<1> USE DEF OnlyMoves, Becomes, SourceBecomes, AtSource, SourceSteps, CaptureSteps,
            CloneSteps
<1>1. CASE /\ run[p].step = "clean"
           /\ source.state = "running"
           /\ run[p].was = "running"
           /\ source' = [source EXCEPT !.prep = "none", !.prior = None]
           /\ Exit(p)
           /\ UNCHANGED <<before, disturbed>>
    <2>1. OnlyMoves(p) /\ Becomes(p, "idle", "none", None, None)
        BY <1>0, <1>1, ExitMoves DEF AllSteps
    <2>2. SourceBecomes(source.state, "none", None)
        BY <1>0, <1>1 DEF Shaped, Fitting, Source
    <2>3. Fitting' /\ Owned'
        BY <1>0, <1>1, <2>1, <2>2 DEF Fitting, Owned, Holding
    <2>4. Restoring'
        BY <1>0, <1>1, <2>1, <2>2 DEF Restoring, Fitting, Owned, Holding
    <2>5. QED  BY <1>0, <2>1, <2>2, <2>3, <2>4 DEF Result
<1>2. CASE /\ run[p].step = "clean"
           /\ source.state = "running"
           /\ run[p].was # "running"
           /\ source' = [source EXCEPT !.prep = "none", !.prior = None]
           /\ Goto(p, "reshut")
           /\ UNCHANGED <<before, disturbed>>
    <2>1. OnlyMoves(p) /\ Becomes(p, "reshut", run[p].verb, run[p].was, run[p].at)
        BY <1>0, <1>2, GotoMoves DEF AllSteps
    <2>2. SourceBecomes(source.state, "none", None)
        BY <1>0, <1>2 DEF Shaped, Fitting, Source
    <2>3. Fitting' /\ Owned'
        BY <1>0, <1>2, <2>1, <2>2 DEF Fitting, Owned, Holding
    <2>4. Restoring'
        BY <1>0, <1>2, <2>1, <2>2 DEF Restoring, Fitting, Owned, Holding
    <2>5. QED  BY <1>0, <2>1, <2>2, <2>3, <2>4 DEF Result
<1>3. CASE /\ run[p].step = "clean"
           /\ source.state = "stopped"
           /\ run[p].was = "running"
           /\ UNCHANGED source
           /\ Exit(p)
           /\ UNCHANGED <<before, disturbed>>
    <2>1. OnlyMoves(p) /\ Becomes(p, "idle", "none", None, None)
        BY <1>0, <1>3, ExitMoves DEF AllSteps
    <2>2. SourceBecomes(source.state, source.prep, source.prior)
        BY <1>0, <1>3 DEF Shaped, Fitting, Source
    <2>3. Fitting' /\ Owned'
        BY <1>0, <1>3, <2>1, <2>2 DEF Fitting, Owned, Holding
    <2>4. Restoring'
        BY <1>0, <1>3, <2>1, <2>2 DEF Restoring, Fitting, Owned, Holding
    <2>5. QED  BY <1>0, <2>1, <2>2, <2>3, <2>4 DEF Result
<1>4. CASE /\ run[p].step = "clean"
           /\ source.state = "stopped"
           /\ run[p].was # "running"
           /\ UNCHANGED source
           /\ Goto(p, "reshut")
           /\ UNCHANGED <<before, disturbed>>
    <2>1. OnlyMoves(p) /\ Becomes(p, "reshut", run[p].verb, run[p].was, run[p].at)
        BY <1>0, <1>4, GotoMoves DEF AllSteps
    <2>2. SourceBecomes(source.state, source.prep, source.prior)
        BY <1>0, <1>4 DEF Shaped, Fitting, Source
    <2>3. Fitting' /\ Owned'
        BY <1>0, <1>4, <2>1, <2>2 DEF Fitting, Owned, Holding
    <2>4. Restoring'
        BY <1>0, <1>4, <2>1, <2>2 DEF Restoring, Fitting, Owned, Holding
    <2>5. QED  BY <1>0, <2>1, <2>2, <2>3, <2>4 DEF Result
<1>5. QED
    BY <1>1, <1>2, <1>3, <1>4 DEF Cleans, history, AfterCleanup

\* A source that was stopped is stopped again.
LEMMA ReshutsKeeps ==
    ASSUME SnapshotsAssumption, Shaped, Fitting, Owned, Restoring,
           NEW p \in Commands, Reshuts(p)
    PROVE  Result
<1>0. /\ Shaped /\ Fitting /\ Owned /\ Restoring
      /\ None \notin {"running", "stopped"}
    BY DEF SnapshotsAssumption
<1> USE DEF OnlyMoves, Becomes, SourceBecomes, AtSource, SourceSteps, CaptureSteps,
            CloneSteps
<1>1. CASE /\ run[p].step = "reshut"
           /\ source' = [source EXCEPT !.state = "stopped"]
           /\ Exit(p)
           /\ UNCHANGED <<before, disturbed>>
    <2>1. OnlyMoves(p) /\ Becomes(p, "idle", "none", None, None)
        BY <1>0, <1>1, ExitMoves DEF AllSteps
    <2>2. SourceBecomes("stopped", source.prep, source.prior)
        BY <1>0, <1>1 DEF Shaped, Fitting, Source
    <2>3. Fitting' /\ Owned'
        BY <1>0, <1>1, <2>1, <2>2 DEF Fitting, Owned, Holding
    <2>4. Restoring'
        BY <1>0, <1>1, <2>1, <2>2 DEF Restoring, Fitting, Owned, Holding
    <2>5. QED  BY <1>0, <2>1, <2>2, <2>3, <2>4 DEF Result
<1>2. QED
    BY <1>1 DEF Reshuts, history

\* The holder has the prepared source copied, or goes on to restore it.
LEMMA ClonesSourceKeeps ==
    ASSUME SnapshotsAssumption, Shaped, Fitting, Owned, Restoring,
           NEW p \in Commands, ClonesSource(p)
    PROVE  Result
<1>0. /\ Shaped /\ Fitting /\ Owned /\ Restoring
      /\ None \notin {"running", "stopped"}
    BY DEF SnapshotsAssumption
<1>1. \/ \E c \in Copies : OnlyMoves(p) /\ Becomes(p, "copying", run[p].verb, run[p].was, c)
      \/ OnlyMoves(p) /\ Becomes(p, "rise", run[p].verb, run[p].was, run[p].at)
    <2>1. ASSUME NEW c \in Copies,
                 run' = [run EXCEPT ![p].at = c, ![p].step = "copying"]
          PROVE  OnlyMoves(p) /\ Becomes(p, "copying", run[p].verb, run[p].was, c)
        BY <1>0, <2>1
           DEF OnlyMoves, Becomes, Shaped, Runs, RunStates, AllSteps, SourceSteps,
               CaptureSteps
    <2>2. ASSUME Goto(p, "rise")
          PROVE  OnlyMoves(p) /\ Becomes(p, "rise", run[p].verb, run[p].was, run[p].at)
        BY <1>0, <2>2, GotoMoves DEF AllSteps, SourceSteps
    <2>3. QED  BY <2>1, <2>2 DEF ClonesSource
<1>2. SourceBecomes(source.state, source.prep, source.prior)
    BY <1>0 DEF ClonesSource, SourceBecomes, Shaped, Source
<1>c. run[p].step = "clone" /\ UNCHANGED <<before, disturbed>>
    BY DEF ClonesSource, history
<1>3. Fitting'
    BY <1>0, <1>c, <1>1
       DEF Fitting, OnlyMoves, Becomes, AtSource, SourceSteps, CaptureSteps, CloneSteps
<1>4. Owned'
    BY <1>0, <1>c, <1>1, <1>2
       DEF Owned, Holding, Fitting, OnlyMoves, Becomes, SourceBecomes, AtSource,
           SourceSteps, CaptureSteps
<1>5. Restoring'
    BY <1>0, <1>c, <1>1, <1>2
       DEF Restoring, Owned, Holding, Fitting, OnlyMoves, Becomes, SourceBecomes,
           AtSource, SourceSteps, CaptureSteps
<1>6. QED
    BY <1>0, <1>c, <1>1, <1>2, <1>3, <1>4, <1>5
       DEF Result, OnlyMoves, Becomes, SourceBecomes, CloneSteps

\* Making the copy a template leaves the source alone.
LEMMA ConvertsKeeps ==
    ASSUME SnapshotsAssumption, Shaped, Fitting, Owned, Restoring,
           NEW p \in Commands, Converts(p)
    PROVE  Result
<1>0. /\ Shaped /\ Fitting /\ Owned /\ Restoring
      /\ None \notin {"running", "stopped"}
    BY DEF SnapshotsAssumption
<1>1. OnlyMoves(p) /\ Becomes(p, "rise", run[p].verb, run[p].was, run[p].at)
    BY <1>0, GotoMoves DEF Converts, AllSteps, SourceSteps
<1>2. SourceBecomes(source.state, source.prep, source.prior)
    BY <1>0 DEF Converts, SourceBecomes, Shaped
<1>c. run[p].step = "convert" /\ UNCHANGED <<before, disturbed>>
    BY DEF Converts, history
<1>3. Fitting'
    BY <1>0, <1>c, <1>1
       DEF Fitting, OnlyMoves, Becomes, AtSource, SourceSteps, CaptureSteps, CloneSteps
<1>4. Owned'
    BY <1>0, <1>c, <1>1, <1>2
       DEF Owned, Holding, Fitting, OnlyMoves, Becomes, SourceBecomes, AtSource,
           SourceSteps, CaptureSteps
<1>5. Restoring'
    BY <1>0, <1>c, <1>1, <1>2
       DEF Restoring, Owned, Holding, Fitting, OnlyMoves, Becomes, SourceBecomes,
           AtSource, SourceSteps, CaptureSteps
<1>6. QED
    BY <1>0, <1>c, <1>1, <1>2, <1>3, <1>4, <1>5
       DEF Result, OnlyMoves, Becomes, SourceBecomes, CloneSteps

\* A repair learns the recorded state, or keeps the one it found.
LEMMA ReadsPriorKeeps ==
    ASSUME SnapshotsAssumption, Shaped, Fitting, Owned, Restoring,
           NEW p \in Commands, ReadsPrior(p)
    PROVE  Result
<1>0. /\ Shaped /\ Fitting /\ Owned /\ Restoring
      /\ None \notin {"running", "stopped"}
    BY DEF SnapshotsAssumption
<1>1. OnlyMoves(p) /\ \/ Becomes(p, "idle", "none", None, None)
                       \/ /\ source.state = "running"
                          /\ Becomes(p, "rise", run[p].verb,
                                     IF source.prior = None THEN run[p].was ELSE source.prior,
                                     run[p].at)
    <2>1. CASE Exit(p)
        BY <1>0, <2>1, ExitMoves
    <2>2. CASE /\ source.state = "running"
               /\ run' = [run EXCEPT ![p].step = "rise",
                             ![p].was = IF source.prior = None THEN @ ELSE source.prior]
        <3>1. source.prior \in {"running", "stopped", None} /\ run \in Runs
            BY <1>0 DEF Shaped, Source
        <3> DEFINE was == IF source.prior = None THEN run[p].was ELSE source.prior
                   next == [run[p] EXCEPT !.step = "rise", !.was = was]
        <3>2. run' = [run EXCEPT ![p] = next]
            BY <2>2, <3>1 DEF Runs
        <3>3. run[p] \in RunStates /\ was \in {"running", "stopped", None}
            BY <3>1 DEF Runs, RunStates
        <3> HIDE DEF was
        <3>4. /\ next \in RunStates
              /\ next.step = "rise" /\ next.verb = run[p].verb
              /\ next.was = was /\ next.at = run[p].at
            BY <3>3 DEF RunStates, AllSteps, SourceSteps
        <3> HIDE DEF next
        <3>5. OnlyMoves(p) /\ Becomes(p, "rise", run[p].verb, was, run[p].at)
            BY <3>1, <3>2, <3>4 DEF OnlyMoves, Becomes, Runs
        <3>6. QED  BY <2>2, <3>5 DEF was
    <2>3. QED  BY <2>1, <2>2 DEF ReadsPrior
<1>2. SourceBecomes(source.state, source.prep, source.prior)
    BY <1>0 DEF ReadsPrior, SourceBecomes, Shaped
<1>c. /\ run[p].step = "read" /\ UNCHANGED <<before, disturbed>>
      /\ Becomes(p, "idle", "none", None, None) => source.state = "stopped"
      /\ source.prior \in {"running", "stopped", None}
    <2>1. run[p].step = "read" /\ UNCHANGED <<before, disturbed>>
        BY DEF ReadsPrior, history
    <2>2. CASE source.state = "stopped"
        BY <1>0, <2>1, <2>2 DEF Shaped, Source
    <2>3. CASE source.state # "stopped"
        <3>1. run' = [run EXCEPT ![p].step = "rise",
                          ![p].was = IF source.prior = None THEN @ ELSE source.prior]
            BY <2>3 DEF ReadsPrior
        <3>2. run'[p].step = "rise"
            BY <1>0, <3>1 DEF Shaped, Runs
        <3>3. QED  BY <1>0, <2>1, <3>2 DEF Becomes, Shaped, Source
    <2>4. QED  BY <2>2, <2>3
<1>3. Fitting'
    BY <1>0, <1>c, <1>1
       DEF Fitting, OnlyMoves, Becomes, AtSource, SourceSteps, CaptureSteps, CloneSteps
<1>4. Owned'
    BY <1>0, <1>c, <1>1, <1>2
       DEF Owned, Holding, Fitting, OnlyMoves, Becomes, SourceBecomes, AtSource,
           SourceSteps, CaptureSteps
<1>5. Restoring'
    BY <1>0, <1>c, <1>1, <1>2
       DEF Restoring, Owned, Holding, Fitting, OnlyMoves, Becomes, SourceBecomes,
           AtSource, SourceSteps, CaptureSteps
<1>6. QED
    BY <1>0, <1>c, <1>1, <1>2, <1>3, <1>4, <1>5
       DEF Result, OnlyMoves, Becomes, SourceBecomes, CloneSteps

\* A capture that begins alone at a clean source knows its state; another one
\* counts as a disturbance.
LEMMA CaptureBeginsKeeps ==
    ASSUME SnapshotsAssumption, Shaped, Fitting, Owned, Restoring,
           NEW p \in Commands, CaptureBegins(p)
    PROVE  Result
<1>0. /\ Shaped /\ Fitting /\ Owned /\ Restoring
      /\ None \notin {"running", "stopped"}
    BY DEF SnapshotsAssumption
<1>1. OnlyMoves(p) /\ Becomes(p, "begun", "capture", source.state, None)
    BY <1>0
       DEF CaptureBegins, Idle, OnlyMoves, Becomes, Shaped, Source, Runs, RunStates,
           AllSteps,
                SourceSteps, CaptureSteps
<1>2. SourceBecomes(source.state, source.prep, source.prior)
    BY <1>0 DEF CaptureBegins, SourceBecomes, Shaped
<1>c. /\ run[p].step = "idle" /\ run[p].verb = "none"
      /\ \A q \in Commands : run[q].verb # "repair-source"
      /\ \/ /\ \A q \in Commands : run[q].verb # "capture"
            /\ source.prep = "none" /\ before' = source.state /\ disturbed' = FALSE
         \/ disturbed' = TRUE
      /\ source.state \in {"running", "stopped"}
    BY <1>0 DEF CaptureBegins, Doing, Idle, Shaped, Source
<1>3. Fitting'
    BY <1>0, <1>c, <1>1
       DEF Fitting, OnlyMoves, Becomes, AtSource, SourceSteps, CaptureSteps, CloneSteps
<1>4. Owned'
    BY <1>0, <1>c, <1>1, <1>2
       DEF Owned, Holding, Fitting, OnlyMoves, Becomes, SourceBecomes, AtSource,
           SourceSteps, CaptureSteps
<1>5. Restoring'
    BY <1>0, <1>c, <1>1, <1>2
       DEF Restoring, Owned, Holding, Fitting, OnlyMoves, Becomes, SourceBecomes,
           AtSource, SourceSteps, CaptureSteps
<1>6. QED
    BY <1>0, <1>c, <1>1, <1>2, <1>3, <1>4, <1>5
       DEF Result, OnlyMoves, Becomes, SourceBecomes, CloneSteps

\* A repair of the source begins when nobody else is at it.
LEMMA RepairSourceBeginsKeeps ==
    ASSUME SnapshotsAssumption, Shaped, Fitting, Owned, Restoring,
           NEW p \in Commands, RepairSourceBegins(p)
    PROVE  Result
<1>0. /\ Shaped /\ Fitting /\ Owned /\ Restoring
      /\ None \notin {"running", "stopped"}
    BY DEF SnapshotsAssumption
<1>1. OnlyMoves(p) /\ Becomes(p, "begun", "repair-source", source.state, None)
    BY <1>0
       DEF RepairSourceBegins, Idle, OnlyMoves, Becomes, Shaped, Source, Runs, RunStates,
           AllSteps,
                SourceSteps, CaptureSteps
<1>2. SourceBecomes(source.state, source.prep, source.prior)
    BY <1>0 DEF RepairSourceBegins, SourceBecomes, Shaped
<1>c. /\ run[p].step = "idle" /\ run[p].verb = "none"
      /\ \A q \in Commands : run[q].verb \notin {"capture", "repair-source"}
      /\ UNCHANGED <<before, disturbed>>
      /\ source.state \in {"running", "stopped"}
    BY <1>0 DEF RepairSourceBegins, Doing, Idle, history, Shaped, Source
<1>3. Fitting'
    BY <1>0, <1>c, <1>1
       DEF Fitting, OnlyMoves, Becomes, AtSource, SourceSteps, CaptureSteps, CloneSteps
<1>4. Owned'
    BY <1>0, <1>c, <1>1, <1>2
       DEF Owned, Holding, Fitting, OnlyMoves, Becomes, SourceBecomes, AtSource,
           SourceSteps, CaptureSteps
<1>5. Restoring'
    BY <1>0, <1>c, <1>1, <1>2
       DEF Restoring, Owned, Holding, Fitting, OnlyMoves, Becomes, SourceBecomes,
           AtSource, SourceSteps, CaptureSteps
<1>6. QED
    BY <1>0, <1>c, <1>1, <1>2, <1>3, <1>4, <1>5
       DEF Result, OnlyMoves, Becomes, SourceBecomes, CloneSteps

-----------------------------------------------------------------------------
(***************************************************************************)
(* Clones                                                                  *)
(***************************************************************************)

\* The identity of a clone after a step.
CloneBecomes(k, state, agent, stage, own, marker) ==
    /\ clones' \in [Clones -> Clone \cup {None}]
    /\ \A m \in Clones : m # k => clones'[m] = clones[m]
    /\ clones'[k] \in Clone
    /\ clones'[k].state = state
    /\ clones'[k].agent = agent
    /\ clones'[k].stage = stage
    /\ clones'[k].own = own
    /\ clones'[k].marker = marker

\* The agent that a boot runs.
Booted(k) == IF clones[k].stage THEN "bootstrap" ELSE IF clones[k].own THEN "own" ELSE "none"

\* What a step at a clone has to show.
CloneResult ==
    /\ run' \in Runs
    /\ clones' \in [Clones -> Clone \cup {None}]
    /\ Fitting' /\ Owned' /\ Handed' /\ Restoring'

\* A boot or a shutdown changes the clone's state and its agent.
LEMMA ClonePowered ==
    ASSUME Shaped, NEW k \in Clones, clones[k] # None
    PROVE  /\ Boots(k) => CloneBecomes(k, "running", Booted(k), clones[k].stage,
                                      clones[k].own, clones[k].marker)
           /\ Stops(k) => CloneBecomes(k, "stopped", "none", clones[k].stage,
                                      clones[k].own, clones[k].marker)
<1>1. clones[k] \in Clone /\ clones \in [Clones -> Clone \cup {None}]
    BY DEF Shaped
<1>2. ASSUME Boots(k)
      PROVE  CloneBecomes(k, "running", Booted(k), clones[k].stage, clones[k].own,
                          clones[k].marker)
    BY <1>1, <1>2 DEF Boots, CloneBecomes, Booted, Clone
<1>3. ASSUME Stops(k)
      PROVE  CloneBecomes(k, "stopped", "none", clones[k].stage, clones[k].own,
                          clones[k].marker)
    BY <1>1, <1>3 DEF Stops, CloneBecomes, Clone
<1>4. QED  BY <1>2, <1>3

\* A command at a clone leaves what is known of the source.
LEMMA CloneAloof ==
    ASSUME Owned, Restoring, Fitting, Fitting', UNCHANGED <<source, before, disturbed>>,
           NEW p \in Commands, OnlyMoves(p), ~AtSource(p), ~AtSource(p)'
    PROVE  Owned' /\ Restoring'
<1>1. \A q \in Commands : AtSource(q)' <=> AtSource(q)
    BY DEF OnlyMoves, AtSource
<1>2. \A q \in Commands : AtSource(q) => run'[q] = run[q]
    BY DEF OnlyMoves
<1>3. QED  BY <1>1, <1>2, Aloof

\* A clone is up for its identity.
LEMMA AdoptsKeeps ==
    ASSUME NoneIsNoContainer, Shaped, Fitting, Owned, Handed, Restoring,
           NEW p \in Commands, NEW k \in Clones, Adopts(p, k)
    PROVE  CloneResult
<1>0. /\ Shaped /\ Fitting /\ Handed /\ None \notin Clone
      /\ run[p].step = "adopt" /\ run[p].at = k /\ clones[k] # None /\ clones[k] \in Clone
      /\ UNCHANGED <<source, copies, before, disturbed>>
    BY DEF Adopts, At, history, Shaped, NoneIsNoContainer
<1>1. CASE clones[k].state = "stopped" /\ Boots(k) /\ Goto(p, "reach")
    <2>1. OnlyMoves(p) /\ Becomes(p, "reach", run[p].verb, run[p].was, run[p].at)
        BY <1>0, <1>1, GotoMoves DEF AllSteps, CloneSteps
    <2>2. CloneBecomes(k, "running", Booted(k), clones[k].stage,
                       clones[k].own, clones[k].marker)
        BY <1>0, <1>1, ClonePowered DEF CloneBecomes, Shaped
    <2>3. Fitting'
        BY <1>0, <2>1
           DEF Fitting, OnlyMoves, Becomes, AtSource, SourceSteps, CaptureSteps,
                          CloneSteps
    <2>0. clones[k].state = "stopped"
        BY <1>1
    <2>4. Handed'
        BY <1>0, <2>0, <2>1, <2>2
           DEF Handed, Fitting, OnlyMoves, Becomes, CloneBecomes, Booted, CloneSteps
    <2>5. ~AtSource(p) /\ ~AtSource(p)'
        BY <1>0, <2>1 DEF Becomes, Fitting, AtSource, SourceSteps, CaptureSteps
    <2>6. QED
        BY <1>0, <2>1, <2>2, <2>3, <2>4, <2>5, CloneAloof
           DEF CloneResult, OnlyMoves, CloneBecomes
<1>2. CASE clones[k].state = "running" /\ UNCHANGED clones /\ Goto(p, "reach")
    <2>1. OnlyMoves(p) /\ Becomes(p, "reach", run[p].verb, run[p].was, run[p].at)
        BY <1>0, <1>2, GotoMoves DEF AllSteps, CloneSteps
    <2>2. CloneBecomes(k, clones[k].state, clones[k].agent, clones[k].stage,
                       clones[k].own,
                       clones[k].marker)
        BY <1>0, <1>2 DEF CloneBecomes, Shaped, Clone
    <2>3. Fitting'
        BY <1>0, <2>1
           DEF Fitting, OnlyMoves, Becomes, AtSource, SourceSteps, CaptureSteps,
                          CloneSteps
    <2>0. clones[k].state = "running"
        BY <1>2
    <2>4. Handed'
        BY <1>0, <2>0, <2>1, <2>2
           DEF Handed, Fitting, OnlyMoves, Becomes, CloneBecomes, Booted, CloneSteps
    <2>5. ~AtSource(p) /\ ~AtSource(p)'
        BY <1>0, <2>1 DEF Becomes, Fitting, AtSource, SourceSteps, CaptureSteps
    <2>6. QED
        BY <1>0, <2>1, <2>2, <2>3, <2>4, <2>5, CloneAloof
           DEF CloneResult, OnlyMoves, CloneBecomes
<1>3. QED
    BY <1>1, <1>2 DEF Adopts, At

\* The bootstrap files go only if the clone answers as itself.
LEMMA ReachesKeeps ==
    ASSUME NoneIsNoContainer, Shaped, Fitting, Owned, Handed, Restoring,
           NEW p \in Commands, NEW k \in Clones, Reaches(p, k)
    PROVE  CloneResult
<1>0. /\ Shaped /\ Fitting /\ Handed /\ None \notin Clone
      /\ run[p].step = "reach" /\ run[p].at = k /\ clones[k] # None /\ clones[k] \in Clone
      /\ UNCHANGED <<source, copies, before, disturbed>>
    BY DEF Reaches, At, history, Shaped, NoneIsNoContainer
<1>1. CASE /\ clones[k].agent = "own"
           /\ clones' = [clones EXCEPT ![k].stage = FALSE]
           /\ Goto(p, "shut")
    <2>1. OnlyMoves(p) /\ Becomes(p, "shut", run[p].verb, run[p].was, run[p].at)
        BY <1>0, <1>1, GotoMoves DEF AllSteps, CloneSteps
    <2>2. CloneBecomes(k, clones[k].state, clones[k].agent, FALSE, clones[k].own,
                       clones[k].marker)
        BY <1>0, <1>1 DEF CloneBecomes, Shaped, Clone
    <2>3. Fitting'
        BY <1>0, <2>1
           DEF Fitting, OnlyMoves, Becomes, AtSource, SourceSteps, CaptureSteps,
                          CloneSteps
    <2>0. clones[k].agent = "own"
        BY <1>1
    <2>4. Handed'
        BY <1>0, <2>0, <2>1, <2>2
           DEF Handed, Fitting, OnlyMoves, Becomes, CloneBecomes, Booted, CloneSteps
    <2>5. ~AtSource(p) /\ ~AtSource(p)'
        BY <1>0, <2>1 DEF Becomes, Fitting, AtSource, SourceSteps, CaptureSteps
    <2>6. QED
        BY <1>0, <2>1, <2>2, <2>3, <2>4, <2>5, CloneAloof
           DEF CloneResult, OnlyMoves, CloneBecomes
<1>2. CASE clones[k].agent = "bootstrap" /\ UNCHANGED clones /\ Goto(p, "upload")
    <2>1. OnlyMoves(p) /\ Becomes(p, "upload", run[p].verb, run[p].was, run[p].at)
        BY <1>0, <1>2, GotoMoves DEF AllSteps, CloneSteps
    <2>2. CloneBecomes(k, clones[k].state, clones[k].agent, clones[k].stage,
                       clones[k].own,
                       clones[k].marker)
        BY <1>0, <1>2 DEF CloneBecomes, Shaped, Clone
    <2>3. Fitting'
        BY <1>0, <2>1
           DEF Fitting, OnlyMoves, Becomes, AtSource, SourceSteps, CaptureSteps,
                          CloneSteps
    <2>0. clones[k].agent = "bootstrap"
        BY <1>2
    <2>4. Handed'
        BY <1>0, <2>0, <2>1, <2>2
           DEF Handed, Fitting, OnlyMoves, Becomes, CloneBecomes, Booted, CloneSteps
    <2>5. ~AtSource(p) /\ ~AtSource(p)'
        BY <1>0, <2>1 DEF Becomes, Fitting, AtSource, SourceSteps, CaptureSteps
    <2>6. QED
        BY <1>0, <2>1, <2>2, <2>3, <2>4, <2>5, CloneAloof
           DEF CloneResult, OnlyMoves, CloneBecomes
<1>3. CASE UNCHANGED clones /\ Exit(p)
    <2>1. OnlyMoves(p) /\ Becomes(p, "idle", "none", None, None)
        BY <1>0, <1>3, ExitMoves DEF AllSteps, CloneSteps
    <2>2. CloneBecomes(k, clones[k].state, clones[k].agent, clones[k].stage,
                       clones[k].own,
                       clones[k].marker)
        BY <1>0, <1>3 DEF CloneBecomes, Shaped, Clone
    <2>3. Fitting'
        BY <1>0, <2>1
           DEF Fitting, OnlyMoves, Becomes, AtSource, SourceSteps, CaptureSteps,
                          CloneSteps
    <2>4. Handed'
        BY <1>0, <2>1, <2>2
           DEF Handed, Fitting, OnlyMoves, Becomes, CloneBecomes, Booted, CloneSteps
    <2>5. ~AtSource(p) /\ ~AtSource(p)'
        BY <1>0, <2>1 DEF Becomes, Fitting, AtSource, SourceSteps, CaptureSteps
    <2>6. QED
        BY <1>0, <2>1, <2>2, <2>3, <2>4, <2>5, CloneAloof
           DEF CloneResult, OnlyMoves, CloneBecomes
<1>4. QED
    BY <1>1, <1>2, <1>3 DEF Reaches, At

\* The identity is written before the bootstrap files go.
LEMMA UploadsKeeps ==
    ASSUME NoneIsNoContainer, Shaped, Fitting, Owned, Handed, Restoring,
           NEW p \in Commands, NEW k \in Clones, Uploads(p, k)
    PROVE  CloneResult
<1>0. /\ Shaped /\ Fitting /\ Handed /\ None \notin Clone
      /\ run[p].step = "upload" /\ run[p].at = k /\ clones[k] # None /\ clones[k] \in Clone
      /\ UNCHANGED <<source, copies, before, disturbed>>
    BY DEF Uploads, At, history, Shaped, NoneIsNoContainer
<1>1. CASE /\ clones[k].agent = "bootstrap"
           /\ clones' = [clones EXCEPT ![k].own = TRUE]
           /\ Goto(p, "strip")
    <2>1. OnlyMoves(p) /\ Becomes(p, "strip", run[p].verb, run[p].was, run[p].at)
        BY <1>0, <1>1, GotoMoves DEF AllSteps, CloneSteps
    <2>2. CloneBecomes(k, clones[k].state, clones[k].agent, clones[k].stage,
                       TRUE, clones[k].marker)
        BY <1>0, <1>1 DEF CloneBecomes, Shaped, Clone
    <2>3. Fitting'
        BY <1>0, <2>1
           DEF Fitting, OnlyMoves, Becomes, AtSource, SourceSteps, CaptureSteps,
                          CloneSteps
    <2>0. clones[k].agent = "bootstrap"
        BY <1>1
    <2>4. Handed'
        BY <1>0, <2>0, <2>1, <2>2
           DEF Handed, Fitting, OnlyMoves, Becomes, CloneBecomes, Booted, CloneSteps
    <2>5. ~AtSource(p) /\ ~AtSource(p)'
        BY <1>0, <2>1 DEF Becomes, Fitting, AtSource, SourceSteps, CaptureSteps
    <2>6. QED
        BY <1>0, <2>1, <2>2, <2>3, <2>4, <2>5, CloneAloof
           DEF CloneResult, OnlyMoves, CloneBecomes
<1>2. CASE UNCHANGED clones /\ Exit(p)
    <2>1. OnlyMoves(p) /\ Becomes(p, "idle", "none", None, None)
        BY <1>0, <1>2, ExitMoves DEF AllSteps, CloneSteps
    <2>2. CloneBecomes(k, clones[k].state, clones[k].agent, clones[k].stage,
                       clones[k].own,
                       clones[k].marker)
        BY <1>0, <1>2 DEF CloneBecomes, Shaped, Clone
    <2>3. Fitting'
        BY <1>0, <2>1
           DEF Fitting, OnlyMoves, Becomes, AtSource, SourceSteps, CaptureSteps,
                          CloneSteps
    <2>4. Handed'
        BY <1>0, <2>1, <2>2
           DEF Handed, Fitting, OnlyMoves, Becomes, CloneBecomes, Booted, CloneSteps
    <2>5. ~AtSource(p) /\ ~AtSource(p)'
        BY <1>0, <2>1 DEF Becomes, Fitting, AtSource, SourceSteps, CaptureSteps
    <2>6. QED
        BY <1>0, <2>1, <2>2, <2>3, <2>4, <2>5, CloneAloof
           DEF CloneResult, OnlyMoves, CloneBecomes
<1>3. QED
    BY <1>1, <1>2 DEF Uploads, At

\* The bootstrap files go after the identity was written.
LEMMA StripsKeeps ==
    ASSUME NoneIsNoContainer, Shaped, Fitting, Owned, Handed, Restoring,
           NEW p \in Commands, NEW k \in Clones, Strips(p, k)
    PROVE  CloneResult
<1>0. /\ Shaped /\ Fitting /\ Handed /\ None \notin Clone
      /\ run[p].step = "strip" /\ run[p].at = k /\ clones[k] # None /\ clones[k] \in Clone
      /\ UNCHANGED <<source, copies, before, disturbed>>
    BY DEF Strips, At, history, Shaped, NoneIsNoContainer
<1>1. CASE clones' = [clones EXCEPT ![k].stage = FALSE] /\ Goto(p, "shut")
    <2>1. OnlyMoves(p) /\ Becomes(p, "shut", run[p].verb, run[p].was, run[p].at)
        BY <1>0, <1>1, GotoMoves DEF AllSteps, CloneSteps
    <2>2. CloneBecomes(k, clones[k].state, clones[k].agent, FALSE, clones[k].own,
                       clones[k].marker)
        BY <1>0, <1>1 DEF CloneBecomes, Shaped, Clone
    <2>3. Fitting'
        BY <1>0, <2>1
           DEF Fitting, OnlyMoves, Becomes, AtSource, SourceSteps, CaptureSteps,
                          CloneSteps
    <2>4. Handed'
        BY <1>0, <2>1, <2>2
           DEF Handed, Fitting, OnlyMoves, Becomes, CloneBecomes, Booted, CloneSteps
    <2>5. ~AtSource(p) /\ ~AtSource(p)'
        BY <1>0, <2>1 DEF Becomes, Fitting, AtSource, SourceSteps, CaptureSteps
    <2>6. QED
        BY <1>0, <2>1, <2>2, <2>3, <2>4, <2>5, CloneAloof
           DEF CloneResult, OnlyMoves, CloneBecomes
<1>2. CASE UNCHANGED clones /\ Exit(p)
    <2>1. OnlyMoves(p) /\ Becomes(p, "idle", "none", None, None)
        BY <1>0, <1>2, ExitMoves DEF AllSteps, CloneSteps
    <2>2. CloneBecomes(k, clones[k].state, clones[k].agent, clones[k].stage,
                       clones[k].own,
                       clones[k].marker)
        BY <1>0, <1>2 DEF CloneBecomes, Shaped, Clone
    <2>3. Fitting'
        BY <1>0, <2>1
           DEF Fitting, OnlyMoves, Becomes, AtSource, SourceSteps, CaptureSteps,
                          CloneSteps
    <2>4. Handed'
        BY <1>0, <2>1, <2>2
           DEF Handed, Fitting, OnlyMoves, Becomes, CloneBecomes, Booted, CloneSteps
    <2>5. ~AtSource(p) /\ ~AtSource(p)'
        BY <1>0, <2>1 DEF Becomes, Fitting, AtSource, SourceSteps, CaptureSteps
    <2>6. QED
        BY <1>0, <2>1, <2>2, <2>3, <2>4, <2>5, CloneAloof
           DEF CloneResult, OnlyMoves, CloneBecomes
<1>3. QED
    BY <1>1, <1>2 DEF Strips, At

\* A shutdown keeps the files.
LEMMA ShutsKeeps ==
    ASSUME NoneIsNoContainer, Shaped, Fitting, Owned, Handed, Restoring,
           NEW p \in Commands, NEW k \in Clones, Shuts(p, k)
    PROVE  CloneResult
<1>0. /\ Shaped /\ Fitting /\ Handed /\ None \notin Clone
      /\ run[p].step = "shut" /\ run[p].at = k /\ clones[k] # None /\ clones[k] \in Clone
      /\ UNCHANGED <<source, copies, before, disturbed>>
    BY DEF Shuts, At, history, Shaped, NoneIsNoContainer
<1>1. CASE clones[k].state = "running" /\ Stops(k) /\ Goto(p, "reboot")
    <2>1. OnlyMoves(p) /\ Becomes(p, "reboot", run[p].verb, run[p].was, run[p].at)
        BY <1>0, <1>1, GotoMoves DEF AllSteps, CloneSteps
    <2>2. CloneBecomes(k, "stopped", "none", clones[k].stage,
                       clones[k].own, clones[k].marker)
        BY <1>0, <1>1, ClonePowered DEF CloneBecomes, Shaped
    <2>3. Fitting'
        BY <1>0, <2>1
           DEF Fitting, OnlyMoves, Becomes, AtSource, SourceSteps, CaptureSteps,
                          CloneSteps
    <2>0. clones[k].state = "running"
        BY <1>1
    <2>4. Handed'
        BY <1>0, <2>0, <2>1, <2>2
           DEF Handed, Fitting, OnlyMoves, Becomes, CloneBecomes, Booted, CloneSteps
    <2>5. ~AtSource(p) /\ ~AtSource(p)'
        BY <1>0, <2>1 DEF Becomes, Fitting, AtSource, SourceSteps, CaptureSteps
    <2>6. QED
        BY <1>0, <2>1, <2>2, <2>3, <2>4, <2>5, CloneAloof
           DEF CloneResult, OnlyMoves, CloneBecomes
<1>2. CASE clones[k].state = "running" /\ Stops(k) /\ Goto(p, "finish")
    <2>1. OnlyMoves(p) /\ Becomes(p, "finish", run[p].verb, run[p].was, run[p].at)
        BY <1>0, <1>2, GotoMoves DEF AllSteps, CloneSteps
    <2>2. CloneBecomes(k, "stopped", "none", clones[k].stage,
                       clones[k].own, clones[k].marker)
        BY <1>0, <1>2, ClonePowered DEF CloneBecomes, Shaped
    <2>3. Fitting'
        BY <1>0, <2>1
           DEF Fitting, OnlyMoves, Becomes, AtSource, SourceSteps, CaptureSteps,
                          CloneSteps
    <2>0. clones[k].state = "running"
        BY <1>2
    <2>4. Handed'
        BY <1>0, <2>0, <2>1, <2>2
           DEF Handed, Fitting, OnlyMoves, Becomes, CloneBecomes, Booted, CloneSteps
    <2>5. ~AtSource(p) /\ ~AtSource(p)'
        BY <1>0, <2>1 DEF Becomes, Fitting, AtSource, SourceSteps, CaptureSteps
    <2>6. QED
        BY <1>0, <2>1, <2>2, <2>3, <2>4, <2>5, CloneAloof
           DEF CloneResult, OnlyMoves, CloneBecomes
<1>3. CASE UNCHANGED clones /\ Exit(p)
    <2>1. OnlyMoves(p) /\ Becomes(p, "idle", "none", None, None)
        BY <1>0, <1>3, ExitMoves DEF AllSteps, CloneSteps
    <2>2. CloneBecomes(k, clones[k].state, clones[k].agent, clones[k].stage,
                       clones[k].own,
                       clones[k].marker)
        BY <1>0, <1>3 DEF CloneBecomes, Shaped, Clone
    <2>3. Fitting'
        BY <1>0, <2>1
           DEF Fitting, OnlyMoves, Becomes, AtSource, SourceSteps, CaptureSteps,
                          CloneSteps
    <2>4. Handed'
        BY <1>0, <2>1, <2>2
           DEF Handed, Fitting, OnlyMoves, Becomes, CloneBecomes, Booted, CloneSteps
    <2>5. ~AtSource(p) /\ ~AtSource(p)'
        BY <1>0, <2>1 DEF Becomes, Fitting, AtSource, SourceSteps, CaptureSteps
    <2>6. QED
        BY <1>0, <2>1, <2>2, <2>3, <2>4, <2>5, CloneAloof
           DEF CloneResult, OnlyMoves, CloneBecomes
<1>4. QED
    BY <1>1, <1>2, <1>3 DEF Shuts, At

\* A reboot keeps the files.
LEMMA RebootsKeeps ==
    ASSUME NoneIsNoContainer, Shaped, Fitting, Owned, Handed, Restoring,
           NEW p \in Commands, NEW k \in Clones, Reboots(p, k)
    PROVE  CloneResult
<1>0. /\ Shaped /\ Fitting /\ Handed /\ None \notin Clone
      /\ run[p].step = "reboot" /\ run[p].at = k /\ clones[k] # None /\ clones[k] \in Clone
      /\ UNCHANGED <<source, copies, before, disturbed>>
    BY DEF Reboots, At, history, Shaped, NoneIsNoContainer
<1>1. CASE clones[k].state = "stopped" /\ Boots(k) /\ Goto(p, "greet")
    <2>1. OnlyMoves(p) /\ Becomes(p, "greet", run[p].verb, run[p].was, run[p].at)
        BY <1>0, <1>1, GotoMoves DEF AllSteps, CloneSteps
    <2>2. CloneBecomes(k, "running", Booted(k), clones[k].stage,
                       clones[k].own, clones[k].marker)
        BY <1>0, <1>1, ClonePowered DEF CloneBecomes, Shaped
    <2>3. Fitting'
        BY <1>0, <2>1
           DEF Fitting, OnlyMoves, Becomes, AtSource, SourceSteps, CaptureSteps,
                          CloneSteps
    <2>0. clones[k].state = "stopped"
        BY <1>1
    <2>4. Handed'
        BY <1>0, <2>0, <2>1, <2>2
           DEF Handed, Fitting, OnlyMoves, Becomes, CloneBecomes, Booted, CloneSteps
    <2>5. ~AtSource(p) /\ ~AtSource(p)'
        BY <1>0, <2>1 DEF Becomes, Fitting, AtSource, SourceSteps, CaptureSteps
    <2>6. QED
        BY <1>0, <2>1, <2>2, <2>3, <2>4, <2>5, CloneAloof
           DEF CloneResult, OnlyMoves, CloneBecomes
<1>2. CASE UNCHANGED clones /\ Exit(p)
    <2>1. OnlyMoves(p) /\ Becomes(p, "idle", "none", None, None)
        BY <1>0, <1>2, ExitMoves DEF AllSteps, CloneSteps
    <2>2. CloneBecomes(k, clones[k].state, clones[k].agent, clones[k].stage,
                       clones[k].own,
                       clones[k].marker)
        BY <1>0, <1>2 DEF CloneBecomes, Shaped, Clone
    <2>3. Fitting'
        BY <1>0, <2>1
           DEF Fitting, OnlyMoves, Becomes, AtSource, SourceSteps, CaptureSteps,
                          CloneSteps
    <2>4. Handed'
        BY <1>0, <2>1, <2>2
           DEF Handed, Fitting, OnlyMoves, Becomes, CloneBecomes, Booted, CloneSteps
    <2>5. ~AtSource(p) /\ ~AtSource(p)'
        BY <1>0, <2>1 DEF Becomes, Fitting, AtSource, SourceSteps, CaptureSteps
    <2>6. QED
        BY <1>0, <2>1, <2>2, <2>3, <2>4, <2>5, CloneAloof
           DEF CloneResult, OnlyMoves, CloneBecomes
<1>3. QED
    BY <1>1, <1>2 DEF Reboots, At

\* Waiting for the answer changes nothing.
LEMMA GreetsKeeps ==
    ASSUME NoneIsNoContainer, Shaped, Fitting, Owned, Handed, Restoring,
           NEW p \in Commands, NEW k \in Clones, Greets(p, k)
    PROVE  CloneResult
<1>0. /\ Shaped /\ Fitting /\ Handed /\ None \notin Clone
      /\ run[p].step = "greet" /\ run[p].at = k /\ clones[k] # None /\ clones[k] \in Clone
      /\ UNCHANGED <<source, copies, before, disturbed>>
    BY DEF Greets, At, history, Shaped, NoneIsNoContainer
<1>1. CASE clones[k].agent = "own" /\ UNCHANGED clones /\ Goto(p, "finish")
    <2>1. OnlyMoves(p) /\ Becomes(p, "finish", run[p].verb, run[p].was, run[p].at)
        BY <1>0, <1>1, GotoMoves DEF AllSteps, CloneSteps
    <2>2. CloneBecomes(k, clones[k].state, clones[k].agent, clones[k].stage,
                       clones[k].own,
                       clones[k].marker)
        BY <1>0, <1>1 DEF CloneBecomes, Shaped, Clone
    <2>3. Fitting'
        BY <1>0, <2>1
           DEF Fitting, OnlyMoves, Becomes, AtSource, SourceSteps, CaptureSteps,
                          CloneSteps
    <2>0. clones[k].agent = "own"
        BY <1>1
    <2>4. Handed'
        BY <1>0, <2>0, <2>1, <2>2
           DEF Handed, Fitting, OnlyMoves, Becomes, CloneBecomes, Booted, CloneSteps
    <2>5. ~AtSource(p) /\ ~AtSource(p)'
        BY <1>0, <2>1 DEF Becomes, Fitting, AtSource, SourceSteps, CaptureSteps
    <2>6. QED
        BY <1>0, <2>1, <2>2, <2>3, <2>4, <2>5, CloneAloof
           DEF CloneResult, OnlyMoves, CloneBecomes
<1>2. CASE UNCHANGED clones /\ Exit(p)
    <2>1. OnlyMoves(p) /\ Becomes(p, "idle", "none", None, None)
        BY <1>0, <1>2, ExitMoves DEF AllSteps, CloneSteps
    <2>2. CloneBecomes(k, clones[k].state, clones[k].agent, clones[k].stage,
                       clones[k].own,
                       clones[k].marker)
        BY <1>0, <1>2 DEF CloneBecomes, Shaped, Clone
    <2>3. Fitting'
        BY <1>0, <2>1
           DEF Fitting, OnlyMoves, Becomes, AtSource, SourceSteps, CaptureSteps,
                          CloneSteps
    <2>4. Handed'
        BY <1>0, <2>1, <2>2
           DEF Handed, Fitting, OnlyMoves, Becomes, CloneBecomes, Booted, CloneSteps
    <2>5. ~AtSource(p) /\ ~AtSource(p)'
        BY <1>0, <2>1 DEF Becomes, Fitting, AtSource, SourceSteps, CaptureSteps
    <2>6. QED
        BY <1>0, <2>1, <2>2, <2>3, <2>4, <2>5, CloneAloof
           DEF CloneResult, OnlyMoves, CloneBecomes
<1>3. QED
    BY <1>1, <1>2 DEF Greets, At

\* The marker goes last.
LEMMA FinishesKeeps ==
    ASSUME NoneIsNoContainer, Shaped, Fitting, Owned, Handed, Restoring,
           NEW p \in Commands, NEW k \in Clones, Finishes(p, k)
    PROVE  CloneResult
<1>0. /\ Shaped /\ Fitting /\ Handed /\ None \notin Clone
      /\ run[p].step = "finish" /\ run[p].at = k /\ clones[k] # None /\ clones[k] \in Clone
      /\ UNCHANGED <<source, copies, before, disturbed>>
    BY DEF Finishes, At, history, Shaped, NoneIsNoContainer
<1>1. CASE clones' = [clones EXCEPT ![k].marker = FALSE] /\ Exit(p)
    <2>1. OnlyMoves(p) /\ Becomes(p, "idle", "none", None, None)
        BY <1>0, <1>1, ExitMoves DEF AllSteps, CloneSteps
    <2>2. CloneBecomes(k, clones[k].state, clones[k].agent, clones[k].stage,
                       clones[k].own,
                       FALSE)
        BY <1>0, <1>1 DEF CloneBecomes, Shaped, Clone
    <2>3. Fitting'
        BY <1>0, <2>1
           DEF Fitting, OnlyMoves, Becomes, AtSource, SourceSteps, CaptureSteps,
                          CloneSteps
    <2>4. Handed'
        BY <1>0, <2>1, <2>2
           DEF Handed, Fitting, OnlyMoves, Becomes, CloneBecomes, Booted, CloneSteps
    <2>5. ~AtSource(p) /\ ~AtSource(p)'
        BY <1>0, <2>1 DEF Becomes, Fitting, AtSource, SourceSteps, CaptureSteps
    <2>6. QED
        BY <1>0, <2>1, <2>2, <2>3, <2>4, <2>5, CloneAloof
           DEF CloneResult, OnlyMoves, CloneBecomes
<1>2. QED
    BY <1>1 DEF Finishes, At

\* A restore waits for its clone.
LEMMA CloneAwaitedKeeps ==
    ASSUME NoneIsNoContainer, Shaped, Fitting, Owned, Handed, Restoring,
           NEW p \in Commands, CloneAwaited(p)
    PROVE  CloneResult
<1> DEFINE k == run[p].at
<1>0. /\ Shaped /\ Fitting /\ Handed /\ run[p].step = "cloning"
      /\ UNCHANGED <<source, copies, clones, before, disturbed>>
    BY DEF CloneAwaited, history
<1>1. \/ OnlyMoves(p) /\ Becomes(p, "idle", "none", None, None)
      \/ /\ clones[k] # None /\ clones[k].state # "copying"
         /\ OnlyMoves(p) /\ Becomes(p, "adopt", run[p].verb, run[p].was, k)
    BY <1>0, GotoMoves, ExitMoves DEF CloneAwaited, AllSteps, CloneSteps
<1>2. Fitting'
    BY <1>0, <1>1 DEF Fitting, OnlyMoves, Becomes, AtSource, SourceSteps, CaptureSteps,
                      CloneSteps
<1>3. Handed'
    BY <1>0, <1>1 DEF Handed, Fitting, OnlyMoves, Becomes, CloneSteps
<1>4. ~AtSource(p) /\ ~AtSource(p)'
    BY <1>0, <1>1 DEF Becomes, Fitting, AtSource, SourceSteps, CaptureSteps
<1>5. QED
    BY <1>0, <1>1, <1>2, <1>3, <1>4, CloneAloof DEF CloneResult, OnlyMoves, Shaped

\* A clone begins with the preparation of the saved environment in it.
LEMMA RestoreBeginsKeeps ==
    ASSUME NoneIsNoContainer, Shaped, Fitting, Owned, Handed, Restoring,
           NEW p \in Commands, NEW k \in Clones, RestoreBegins(p, k)
    PROVE  CloneResult
<1>0. /\ Shaped /\ Fitting /\ Handed /\ None \notin Clone
      /\ run[p].step = "idle" /\ run[p].verb = "none" /\ clones[k] = None
      /\ UNCHANGED <<source, copies, before, disturbed>>
    BY DEF RestoreBegins, Idle, history, NoneIsNoContainer
<1>1. OnlyMoves(p) /\ Becomes(p, "cloning", "restore", None, k)
    BY <1>0
       DEF RestoreBegins, Idle, OnlyMoves, Becomes, Shaped, Runs, RunStates, AllSteps,
                CloneSteps
<1>2. CloneBecomes(k, "copying", "none", TRUE, FALSE, TRUE)
    <2>1. PICK c \in Copies :
              /\ copies[c] # None
              /\ clones' = [clones EXCEPT ![k] =
                     [state |-> "copying", agent |-> "none",
                      stage |-> copies[c].prepared, own |-> FALSE, marker |-> TRUE]]
        BY DEF RestoreBegins
    <2>2. copies[c].prepared = TRUE
        BY <1>0, <2>1 DEF Handed, Shaped, Copy
    <2>3. QED  BY <1>0, <2>1, <2>2 DEF CloneBecomes, Shaped, Clone
<1>3. Fitting'
    BY <1>0, <1>1 DEF Fitting, OnlyMoves, Becomes, AtSource, SourceSteps, CaptureSteps,
                      CloneSteps
<1>4. Handed'
    BY <1>0, <1>1, <1>2 DEF Handed, Fitting, OnlyMoves, Becomes, CloneBecomes, CloneSteps
<1>5. ~AtSource(p) /\ ~AtSource(p)'
    BY <1>0, <1>1 DEF Becomes, AtSource
<1>6. QED
    BY <1>0, <1>1, <1>2, <1>3, <1>4, <1>5, CloneAloof
       DEF CloneResult, OnlyMoves, CloneBecomes

\* A repair begins with a clone that PVE has finished.
LEMMA RepairBeginsKeeps ==
    ASSUME NoneIsNoContainer, Shaped, Fitting, Owned, Handed, Restoring,
           NEW p \in Commands, NEW k \in Clones, RepairBegins(p, k)
    PROVE  CloneResult
<1>0. /\ Shaped /\ Fitting /\ Handed
      /\ run[p].step = "idle" /\ run[p].verb = "none"
      /\ clones[k] # None /\ clones[k].state # "copying"
      /\ UNCHANGED <<source, copies, clones, before, disturbed>>
    BY DEF RepairBegins, Idle, history
<1>1. OnlyMoves(p) /\ Becomes(p, "adopt", "repair", None, k)
    BY <1>0 DEF RepairBegins, Idle, OnlyMoves, Becomes, Shaped, Runs, RunStates, AllSteps,
                CloneSteps
<1>2. Fitting'
    BY <1>0, <1>1 DEF Fitting, OnlyMoves, Becomes, AtSource, SourceSteps, CaptureSteps,
                      CloneSteps
<1>3. Handed'
    BY <1>0, <1>1 DEF Handed, Fitting, OnlyMoves, Becomes, CloneSteps
<1>4. ~AtSource(p) /\ ~AtSource(p)'
    BY <1>0, <1>1 DEF Becomes, AtSource
<1>5. QED
    BY <1>0, <1>1, <1>2, <1>3, <1>4, CloneAloof DEF CloneResult, OnlyMoves, Shaped

\* A clone is switched, or PVE ends its copy: no command is at one that PVE
\* removes, and none loses what it has of an identity.
LEMMA ClonesAtPveKeep ==
    ASSUME NoneIsNoContainer, Shaped, Fitting, Owned, Handed, Restoring,
           NEW k \in Clones, CloneCopyEnds(k) \/ CloneSwitched(k)
    PROVE  CloneResult
<1>0. /\ Shaped /\ Fitting /\ Handed /\ Owned /\ Restoring /\ None \notin Clone
      /\ clones[k] # None
      /\ UNCHANGED <<source, copies, run, before, disturbed>>
    BY DEF CloneCopyEnds, CloneSwitched, NoneIsNoContainer
<1>1. \/ CloneBecomes(k, "stopped", "none", clones[k].stage, clones[k].own,
                      clones[k].marker)
      \/ CloneBecomes(k, "running", Booted(k), clones[k].stage, clones[k].own,
                      clones[k].marker)
      \/ /\ clones[k].state = "copying" /\ clones'[k] = None
         /\ clones' \in [Clones -> Clone \cup {None}]
         /\ \A m \in Clones : m # k => clones'[m] = clones[m]
    <2>1. CASE Boots(k) \/ Stops(k)
        BY <1>0, <2>1, ClonePowered
    <2>2. CASE clones' = [clones EXCEPT ![k] = None] /\ clones[k].state = "copying"
        BY <1>0, <2>2 DEF Shaped
    <2>3. QED  BY <2>1, <2>2 DEF CloneCopyEnds, CloneSwitched
<1>2. Fitting'
    BY <1>0 DEF Fitting, AtSource
<1>3. Handed'
    BY <1>0, <1>1 DEF Handed, Fitting, CloneBecomes, Booted, CloneSteps
<1>4. Owned' /\ Restoring'
    BY <1>0, <1>2, Aloof DEF AtSource
<1>5. QED  BY <1>0, <1>1, <1>2, <1>3, <1>4 DEF CloneResult, CloneBecomes, Shaped

-----------------------------------------------------------------------------
(***************************************************************************)
(* Failures                                                                *)
(***************************************************************************)

\* Others at a source that a command is at count as a disturbance; at any other
\* time the source has no former state to return to.
LEMMA SourceSwitchedKeeps ==
    ASSUME SnapshotsAssumption, Shaped, Fitting, Owned, Restoring, SourceSwitched
    PROVE  Result
<1>0. /\ Shaped /\ Fitting /\ Owned /\ Restoring /\ run' = run
      /\ disturbed' = TRUE \/ before' = None
    BY DEF SourceSwitched
<1>1. /\ source' \in Source /\ source'.prep = source.prep /\ source'.prior = source.prior
    BY <1>0 DEF SourceSwitched, Shaped, Source
<1>2. Fitting'
    BY <1>0 DEF Fitting, AtSource
<1>3. Owned'
    BY <1>0, <1>1 DEF Owned, Holding
<1>4. Restoring'
    BY <1>0 DEF Restoring
<1>5. QED  BY <1>0, <1>1, <1>2, <1>3, <1>4 DEF Result, Shaped

\* A command that ends at the source leaves the preparation with its record, or
\* the state as it was; else the source counts as disturbed.
LEMMA EndsAtSource ==
    ASSUME SnapshotsAssumption, Shaped, Fitting, Owned, Restoring,
           NEW p \in Commands, Exit(p), LeavesSource(p), UNCHANGED <<source, before>>
    PROVE  Result
<1>0. /\ Shaped /\ Fitting /\ Owned /\ Restoring
      /\ None \notin {"running", "stopped"} /\ UNCHANGED <<source, before>>
    BY DEF SnapshotsAssumption
<1>1. OnlyMoves(p) /\ Becomes(p, "idle", "none", None, None)
    BY ExitMoves
<1>2. Fitting'
    BY <1>0, <1>1 DEF Fitting, OnlyMoves, Becomes, AtSource, SourceSteps, CaptureSteps,
                      CloneSteps
<1>3. Owned'
    BY <1>0, <1>1 DEF Owned, Holding, Fitting, OnlyMoves, Becomes, AtSource
<1>4. Restoring'
    <2>1. SUFFICES ASSUME ~disturbed', before # None
                   PROVE  Restoring'
        BY <1>0 DEF Restoring
    <2>2. /\ ~disturbed
          /\ run[p].step \in SourceSteps =>
                 source.prior # None \/ source.state = run[p].was
        BY <2>1 DEF LeavesSource
    <2>3. QED
        BY <1>0, <1>1, <2>1, <2>2
           DEF Restoring, Owned, Holding, Fitting, OnlyMoves, Becomes, AtSource,
               SourceSteps, CaptureSteps
<1>5. QED
    BY <1>0, <1>1, <1>2, <1>3, <1>4
       DEF Result, OnlyMoves, Becomes, Shaped, CloneSteps

\* A failed request: the holder goes on to restore the source, and the other
\* commands end.
LEMMA FailsKeeps ==
    ASSUME SnapshotsAssumption, Shaped, Fitting, Owned, Restoring,
           NEW p \in Commands, Fails(p)
    PROVE  Result
<1>0. /\ Shaped /\ Fitting /\ Owned /\ Restoring
      /\ None \notin {"running", "stopped"}
    BY DEF SnapshotsAssumption
<1> USE DEF OnlyMoves, Becomes, SourceBecomes, AtSource, SourceSteps, CaptureSteps,
            CloneSteps
<1>1. CASE /\ run[p].step \in {"prepare", "halt", "clone", "copying", "convert"}
           /\ UNCHANGED source
           /\ Goto(p, "rise")
           /\ UNCHANGED <<before, disturbed>>
    <2>1. OnlyMoves(p) /\ Becomes(p, "rise", run[p].verb, run[p].was, run[p].at)
        BY <1>0, <1>1, GotoMoves DEF AllSteps
    <2>2. SourceBecomes(source.state, source.prep, source.prior)
        BY <1>0, <1>1 DEF Shaped, Fitting, Source
    <2>3. Fitting' /\ Owned'
        BY <1>0, <1>1, <2>1, <2>2 DEF Fitting, Owned, Holding
    <2>4. Restoring'
        BY <1>0, <1>1, <2>1, <2>2 DEF Restoring, Fitting, Owned, Holding
    <2>5. QED  BY <1>0, <2>1, <2>2, <2>3, <2>4 DEF Result
<1>2. CASE /\ run[p].step \in {"mark", "clean"}
           /\ run[p].was = "running"
           /\ UNCHANGED source
           /\ Exit(p)
           /\ UNCHANGED <<before, disturbed>>
    <2>1. OnlyMoves(p) /\ Becomes(p, "idle", "none", None, None)
        BY <1>0, <1>2, ExitMoves DEF AllSteps
    <2>2. SourceBecomes(source.state, source.prep, source.prior)
        BY <1>0, <1>2 DEF Shaped, Fitting, Source
    <2>3. Fitting' /\ Owned'
        BY <1>0, <1>2, <2>1, <2>2 DEF Fitting, Owned, Holding
    <2>4. Restoring'
        BY <1>0, <1>2, <2>1, <2>2 DEF Restoring, Fitting, Owned, Holding
    <2>5. QED  BY <1>0, <2>1, <2>2, <2>3, <2>4 DEF Result
<1>3. CASE /\ run[p].step \in {"mark", "clean"}
           /\ run[p].was # "running"
           /\ UNCHANGED source
           /\ Goto(p, "reshut")
           /\ UNCHANGED <<before, disturbed>>
    <2>1. OnlyMoves(p) /\ Becomes(p, "reshut", run[p].verb, run[p].was, run[p].at)
        BY <1>0, <1>3, GotoMoves DEF AllSteps
    <2>2. SourceBecomes(source.state, source.prep, source.prior)
        BY <1>0, <1>3 DEF Shaped, Fitting, Source
    <2>3. Fitting' /\ Owned'
        BY <1>0, <1>3, <2>1, <2>2 DEF Fitting, Owned, Holding
    <2>4. Restoring'
        BY <1>0, <1>3, <2>1, <2>2 DEF Restoring, Fitting, Owned, Holding
    <2>5. QED  BY <1>0, <2>1, <2>2, <2>3, <2>4 DEF Result
<1>4. CASE /\ run[p].step = "mark"
           /\ source.prep = "none"
           /\ run[p].was = "running"
           /\ source' = [source EXCEPT !.prep = "partial", !.prior = run[p].was]
           /\ Exit(p)
           /\ UNCHANGED <<before, disturbed>>
    <2>1. OnlyMoves(p) /\ Becomes(p, "idle", "none", None, None)
        BY <1>0, <1>4, ExitMoves DEF AllSteps
    <2>2. SourceBecomes(source.state, "partial", run[p].was)
        BY <1>0, <1>4 DEF Shaped, Fitting, Source
    <2>3. Fitting' /\ Owned'
        BY <1>0, <1>4, <2>1, <2>2 DEF Fitting, Owned, Holding
    <2>4. Restoring'
        BY <1>0, <1>4, <2>1, <2>2 DEF Restoring, Fitting, Owned, Holding
    <2>5. QED  BY <1>0, <2>1, <2>2, <2>3, <2>4 DEF Result
<1>5. CASE /\ run[p].step = "mark"
           /\ source.prep = "none"
           /\ run[p].was # "running"
           /\ source' = [source EXCEPT !.prep = "partial", !.prior = run[p].was]
           /\ Goto(p, "reshut")
           /\ UNCHANGED <<before, disturbed>>
    <2>1. OnlyMoves(p) /\ Becomes(p, "reshut", run[p].verb, run[p].was, run[p].at)
        BY <1>0, <1>5, GotoMoves DEF AllSteps
    <2>2. SourceBecomes(source.state, "partial", run[p].was)
        BY <1>0, <1>5 DEF Shaped, Fitting, Source
    <2>3. Fitting' /\ Owned'
        BY <1>0, <1>5, <2>1, <2>2 DEF Fitting, Owned, Holding
    <2>4. Restoring'
        BY <1>0, <1>5, <2>1, <2>2 DEF Restoring, Fitting, Owned, Holding
    <2>5. QED  BY <1>0, <2>1, <2>2, <2>3, <2>4 DEF Result
<1>6. CASE Exit(p) /\ LeavesSource(p) /\ UNCHANGED <<source, before>>
    BY <1>6, EndsAtSource
<1>7. QED  BY <1>1, <1>2, <1>3, <1>4, <1>5, <1>6 DEF Fails, AfterCleanup

-----------------------------------------------------------------------------
(***************************************************************************)
(* The invariant                                                           *)
(***************************************************************************)

\* Bounds and records of the past keep their types.
LEMMA HistoryTyped ==
    ASSUME SnapshotsAssumption, Shaped, [Next]_vars
    PROVE  /\ captures' \in 0..MaxCaptures
           /\ before' \in {"running", "stopped", None}
           /\ disturbed' \in BOOLEAN
           /\ faults' \in 0..MaxFaults
<1>0. /\ captures \in 0..MaxCaptures /\ before \in {"running", "stopped", None}
      /\ disturbed \in BOOLEAN /\ faults \in 0..MaxFaults
      /\ source.state \in {"running", "stopped"}
      /\ MaxCaptures \in Nat /\ MaxFaults \in Nat
    BY DEF Shaped, Source, SnapshotsAssumption
<1>1. CASE UNCHANGED history
    BY <1>0, <1>1 DEF history
<1>2. ASSUME NEW p \in Commands, CaptureBegins(p)
      PROVE  /\ captures' \in 0..MaxCaptures
             /\ before' \in {"running", "stopped", None}
             /\ disturbed' \in BOOLEAN
             /\ faults' \in 0..MaxFaults
    <2>1. captures' = captures + 1 /\ captures < MaxCaptures /\ faults' = faults
        BY <1>2 DEF CaptureBegins
    <2>2. \/ before' = source.state /\ disturbed' = FALSE
          \/ disturbed' = TRUE /\ before' = before
        BY <1>2 DEF CaptureBegins
    <2>3. captures' \in 0..MaxCaptures
        BY <1>0, <2>1
    <2>4. before' \in {"running", "stopped", None} /\ disturbed' \in BOOLEAN
        BY <1>0, <2>2
    <2>5. QED  BY <1>0, <2>1, <2>3, <2>4
<1>3. ASSUME NEW p \in Commands, LeavesSource(p)
      PROVE  disturbed' \in BOOLEAN
    BY <1>0, <1>3 DEF LeavesSource
<1>4. ASSUME Fault
      PROVE  faults' \in 0..MaxFaults
    BY <1>0, <1>4 DEF Fault
<1>5. ASSUME NEW p \in Commands, Killed(p) \/ Fails(p)
      PROVE  /\ captures' \in 0..MaxCaptures
             /\ before' \in {"running", "stopped", None}
             /\ disturbed' \in BOOLEAN
             /\ faults' \in 0..MaxFaults
    BY <1>0, <1>3, <1>4, <1>5 DEF Killed, Fails
<1>6. ASSUME \/ \E c \in Copies : SourceCopyEnds(c) \/ DeletesSaved(c)
             \/ \E k \in Clones : CloneCopyEnds(k) \/ CloneSwitched(k)
             \/ SourceSwitched
      PROVE  /\ captures' \in 0..MaxCaptures
             /\ before' \in {"running", "stopped", None}
             /\ disturbed' \in BOOLEAN
             /\ faults' \in 0..MaxFaults
    <2>1. captures' = captures /\ faults' \in 0..MaxFaults
        BY <1>0, <1>4, <1>6
           DEF SourceCopyEnds, DeletesSaved, CloneCopyEnds, CloneSwitched, SourceSwitched,
               history
    <2>2. \/ UNCHANGED <<before, disturbed>>
          \/ disturbed' = TRUE /\ before' = before
          \/ before' = None /\ disturbed' = disturbed
        BY <1>6
           DEF SourceCopyEnds, DeletesSaved, CloneCopyEnds, CloneSwitched, SourceSwitched,
               history
    <2>3. QED  BY <1>0, <2>1, <2>2
<1>7. ASSUME NEW p \in Commands,
             \/ CaptureStep(p) \/ CloneStep(p) \/ RepairSourceBegins(p)
             \/ \E k \in Clones : RestoreBegins(p, k) \/ RepairBegins(p, k)
      PROVE  UNCHANGED history
    BY <1>7

         DEF CaptureStep, CloneStep, RepairSourceBegins, RestoreBegins, RepairBegins,
             Begins,
           Marks, Prepares, Halts, ClonesSource, CopyAwaited, Converts, ReadsPrior, Rises,
           Cleans, Reshuts, CloneAwaited, Adopts, Reaches, Uploads, Strips, Shuts, Reboots,
           Greets, Finishes
<1>8. QED
    BY <1>1, <1>2, <1>5, <1>6, <1>7 DEF Next, PveStep, vars, history

\* Every copy is taken of a prepared source.
LEMMA CopiesPrepared ==
    ASSUME NoneIsNoContainer, Shaped, Fitting, Owned, Handed, [Next]_vars
    PROVE  /\ copies' \in [Copies -> Copy \cup {None}]
           /\ \A c \in Copies : copies'[c] # None => copies'[c].prepared
<1>0. Shaped /\ Fitting /\ Owned /\ Handed /\ None \notin Copy
    BY DEF NoneIsNoContainer
<1> DEFINE Complete == /\ copies' \in [Copies -> Copy \cup {None}]
                       /\ \A c \in Copies : copies'[c] # None => copies'[c].prepared
<1>1. CASE copies' = copies
    BY <1>0, <1>1 DEF Shaped, Handed
<1>2. ASSUME NEW p \in Commands, ClonesSource(p)
      PROVE  Complete
    <2>1. CASE copies' = copies
        BY <1>1, <2>1
    <2>2. CASE \E c \in Copies : copies' = [copies EXCEPT ![c] =
                       [state |-> "copying", prepared |-> source.prep = "full"]]
        <3>1. source.prep = "full"
            BY <1>0, <1>2 DEF ClonesSource, Owned
        <3>2. PICK c \in Copies : copies' = [copies EXCEPT ![c] =
                       [state |-> "copying", prepared |-> TRUE]]
            BY <2>2, <3>1
        <3>3. QED  BY <1>0, <3>2 DEF Shaped, Handed, Copy
    <2>3. QED  BY <1>2, <2>1, <2>2 DEF ClonesSource
<1>3. ASSUME NEW p \in Commands, Converts(p)
      PROVE  Complete
    <2>1. CASE copies' = copies
        BY <1>1, <2>1
    <2>2. CASE /\ copies[run[p].at] # None
               /\ copies' = [copies EXCEPT ![run[p].at].state = "ready"]
        <3>1. run[p].at \in Copies
            BY <1>0, <1>3 DEF Converts, Fitting
        <3>2. PICK c \in Copies : /\ copies[c] # None
                                 /\ copies' = [copies EXCEPT ![c].state = "ready"]
            BY <2>2, <3>1
        <3>3. copies[c] \in Copy /\ copies[c].prepared
            BY <1>0, <3>2 DEF Shaped, Handed
        <3>4. QED  BY <1>0, <3>2, <3>3 DEF Shaped, Handed, Copy
    <2>3. QED  BY <1>3, <2>1, <2>2 DEF Converts
<1>4. ASSUME NEW c \in Copies, SourceCopyEnds(c)
      PROVE  Complete
    <2>1. copies[c] \in Copy /\ copies[c].prepared
        BY <1>0, <1>4 DEF SourceCopyEnds, Shaped, Handed
    <2>2. CASE copies' = [copies EXCEPT ![c].state = "copied"]
        BY <1>0, <2>1, <2>2 DEF Shaped, Handed, Copy
    <2>3. CASE copies' = [copies EXCEPT ![c] = None]
        BY <1>0, <2>3 DEF Shaped, Handed
    <2>4. QED  BY <1>4, <2>2, <2>3 DEF SourceCopyEnds
<1>5. ASSUME NEW c \in Copies, DeletesSaved(c)
      PROVE  Complete
    BY <1>0, <1>5 DEF DeletesSaved, Shaped, Handed
<1>6. ASSUME NEW p \in Commands,
             \/ Begins(p) \/ Marks(p) \/ Prepares(p) \/ Halts(p) \/ CopyAwaited(p)
             \/ ReadsPrior(p) \/ Rises(p) \/ Cleans(p) \/ Reshuts(p) \/ CloneStep(p)
             \/ CaptureBegins(p) \/ RepairSourceBegins(p) \/ Killed(p) \/ Fails(p)
             \/ \E k \in Clones : RestoreBegins(p, k) \/ RepairBegins(p, k)
      PROVE  copies' = copies
    BY <1>6
       DEF CloneStep, RepairSourceBegins, RestoreBegins, RepairBegins, Begins, Marks,
           Prepares, Halts, CopyAwaited, ReadsPrior, Rises, Cleans, Reshuts, CloneAwaited,
           Adopts, Reaches, Uploads, Strips, Shuts, Reboots, Greets, Finishes,
           CaptureBegins, Killed, Fails
<1>7. ASSUME \/ SourceSwitched \/ UNCHANGED vars
             \/ \E k \in Clones : CloneCopyEnds(k) \/ CloneSwitched(k)
      PROVE  copies' = copies
    BY <1>7 DEF SourceSwitched, CloneCopyEnds, CloneSwitched, vars
<1> HIDE DEF Complete
<1>8. Complete
    <2>1. CASE copies' = copies
        BY <1>1, <2>1 DEF Complete
    <2>2. QED
        BY <1>2, <1>3, <1>4, <1>5, <1>6, <1>7, <2>1 DEF Next, PveStep, CaptureStep
<1>9. QED  BY <1>8 DEF Complete

\* Every step keeps the invariant.
LEMMA IInvStep ==
    ASSUME SnapshotsAssumption, NoneIsNoContainer
    PROVE  IInv /\ [Next]_vars => IInv'
<1> SUFFICES ASSUME IInv, [Next]_vars
             PROVE  IInv'
    OBVIOUS
<1>0. Shaped /\ Fitting /\ Owned /\ Handed /\ Restoring
    BY DEF IInv
<1>h. /\ captures' \in 0..MaxCaptures
      /\ before' \in {"running", "stopped", None}
      /\ disturbed' \in BOOLEAN
      /\ faults' \in 0..MaxFaults
    BY <1>0, HistoryTyped
<1>c. /\ copies' \in [Copies -> Copy \cup {None}]
      /\ \A c \in Copies : copies'[c] # None => copies'[c].prepared
    BY <1>0, CopiesPrepared
<1>1. ASSUME Result, clones' = clones
      PROVE  IInv'
    <2>1. Handed'
        BY <1>0, <1>1, <1>c, HandedKept DEF Result
    <2>2. Shaped'
        BY <1>0, <1>1, <1>c, <1>h DEF Result, Shaped
    <2>3. QED  BY <1>1, <2>1, <2>2 DEF Result, IInv
<1>2. ASSUME CloneResult, source' = source
      PROVE  IInv'
    <2>1. Shaped'
        BY <1>0, <1>2, <1>c, <1>h DEF CloneResult, Shaped
    <2>2. QED  BY <1>2, <2>1 DEF CloneResult, IInv
<1>3. ASSUME NEW p \in Commands,
             CaptureStep(p) \/ CaptureBegins(p) \/ RepairSourceBegins(p) \/ Fails(p)
      PROVE  IInv'
    <2>1. Result
        BY <1>0, <1>3, BeginsKeeps, MarksKeeps, PreparesKeeps, HaltsKeeps, ClonesSourceKeeps,
           CopyAwaitedKeeps, ConvertsKeeps, ReadsPriorKeeps, RisesKeeps, CleansKeeps,
           ReshutsKeeps, CaptureBeginsKeeps, RepairSourceBeginsKeeps, FailsKeeps
           DEF CaptureStep
    <2>2. clones' = clones
        BY <1>3

             DEF CaptureStep, RepairSourceBegins, CaptureBegins, Begins, Marks, Prepares,
                 Halts,
               ClonesSource, CopyAwaited, Converts, ReadsPrior, Rises, Cleans, Reshuts, Fails
    <2>3. QED  BY <1>1, <2>1, <2>2
<1>4. ASSUME NEW p \in Commands, Killed(p)
      PROVE  IInv'
    <2>1. Result /\ clones' = clones
        BY <1>0, <1>4, EndsAtSource DEF Killed
    <2>2. QED  BY <1>1, <2>1
<1>5. CASE SourceSwitched
    <2>1. Result /\ clones' = clones
        BY <1>0, <1>5, SourceSwitchedKeeps DEF SourceSwitched
    <2>2. QED  BY <1>1, <2>1
<1>6. ASSUME NEW p \in Commands,
             CloneStep(p) \/ \E k \in Clones : RestoreBegins(p, k) \/ RepairBegins(p, k)
      PROVE  IInv'
    <2>1. CloneResult
        BY <1>0, <1>6, CloneAwaitedKeeps, AdoptsKeeps, ReachesKeeps, UploadsKeeps,
           StripsKeeps, ShutsKeeps, RebootsKeeps, GreetsKeeps, FinishesKeeps,
           RestoreBeginsKeeps, RepairBeginsKeeps
           DEF CloneStep
    <2>2. source' = source
        BY <1>6
           DEF CloneStep, CloneAwaited, Adopts, Reaches, Uploads, Strips, Shuts, Reboots,
               Greets, Finishes, RestoreBegins, RepairBegins
    <2>3. QED  BY <1>2, <2>1, <2>2
<1>7. ASSUME NEW k \in Clones, CloneCopyEnds(k) \/ CloneSwitched(k)
      PROVE  IInv'
    <2>1. CloneResult /\ source' = source
        BY <1>0, <1>7, ClonesAtPveKeep DEF CloneCopyEnds, CloneSwitched
    <2>2. QED  BY <1>2, <2>1
<1>8. ASSUME NEW c \in Copies, SourceCopyEnds(c) \/ DeletesSaved(c)
      PROVE  IInv'
    <2>1. /\ UNCHANGED <<clones, run, before, disturbed>>
          /\ source' \in Source /\ source'.state = source.state
          /\ source'.prep = source.prep /\ source'.prior = source.prior
        BY <1>0, <1>8 DEF SourceCopyEnds, DeletesSaved, history, Shaped, Source
    <2>2. Fitting' /\ Owned'
        BY <1>0, <2>1 DEF Fitting, AtSource, Owned, Holding
    <2>3. Restoring'
        BY <1>0, <2>1 DEF Restoring, AtSource
    <2>4. QED  BY <1>0, <1>1, <2>1, <2>2, <2>3 DEF Result, Shaped
<1>9. CASE UNCHANGED vars
    BY <1>0, <1>9
       DEF vars, history, IInv, Shaped, Fitting, AtSource, Owned, Holding, Handed,
                      Restoring
<1>10. QED
    BY <1>3, <1>4, <1>5, <1>6, <1>7, <1>8, <1>9 DEF Next, PveStep

\* Nothing was saved or begun at first.
LEMMA IInvInit ==
    ASSUME SnapshotsAssumption, Init
    PROVE  IInv
<1>0. /\ source.state \in {"running", "stopped"} /\ source \in Source
      /\ source.prep = "none" /\ source.prior = None
    <2>1. PICK state \in {"running", "stopped"} :
              source = [state |-> state, prep |-> "none", prior |-> None, locked |-> FALSE]
        BY DEF Init
    <2>2. QED  BY <2>1 DEF Source
<1>i. /\ \A p \in Commands : run[p] = Idle /\ run[p].step = "idle" /\ run[p].verb = "none"
      /\ run \in Runs
    <2>1. Idle \in RunStates /\ Idle.step = "idle" /\ Idle.verb = "none"
        BY DEF Idle, RunStates, AllSteps
    <2>2. QED  BY <2>1 DEF Init, Runs
<1>1. Shaped
    <2>1. /\ copies = [c \in Copies |-> None] /\ clones = [k \in Clones |-> None]
          /\ captures = 0 /\ before = None /\ disturbed = FALSE /\ faults = 0
        BY DEF Init
    <2>2. copies \in [Copies -> Copy \cup {None}] /\ clones \in [Clones -> Clone \cup {None}]
        BY <2>1
    <2>3. captures \in 0..MaxCaptures /\ faults \in 0..MaxFaults
        BY <2>1 DEF SnapshotsAssumption
    <2>4. QED  BY <1>0, <1>i, <2>1, <2>2, <2>3 DEF Shaped
<1>2. Fitting /\ Owned
    BY <1>0, <1>i
       DEF Fitting, AtSource, Owned, Holding, SourceSteps, CaptureSteps, CloneSteps
<1>3. Handed /\ Restoring
    BY <1>i DEF Init, Handed, Restoring, CloneSteps
<1>4. QED  BY <1>1, <1>2, <1>3 DEF IInv

\* The invariant, for every behaviour.
LEMMA IInvAlways ==
    ASSUME SnapshotsAssumption, NoneIsNoContainer
    PROVE  Spec => []IInv
<1>1. Init => IInv
    BY IInvInit
<1>2. IInv /\ [Next]_vars => IInv'
    BY IInvStep
<1>3. QED  BY <1>1, <1>2, PTL DEF Spec

\* Every reachable state is well formed, and a command is at a container of its
\* kind (snapshots.rs).
THEOREM SnapshotsTyped ==
    ASSUME SnapshotsAssumption, NoneIsNoContainer
    PROVE  Spec => []TypeOK
<1>1. IInv => TypeOK
    <2> SUFFICES ASSUME IInv
                 PROVE  TypeOK
        OBVIOUS
    <2>0. Shaped /\ Fitting
        BY DEF IInv
    <2>1. ASSUME NEW p \in Commands
          PROVE  /\ run[p].step \in AllSteps
                 /\ run[p].verb \in {"none", "capture", "repair-source", "restore", "repair"}
        BY <2>0 DEF Shaped, Runs, RunStates
    <2>2. /\ \A c \in Copies : copies[c] = None \/ copies[c] \in Copy
          /\ \A k \in Clones : clones[k] = None \/ clones[k] \in Clone
        BY <2>0 DEF Shaped
    <2>3. QED  BY <2>0, <2>1, <2>2 DEF Shaped, Fitting, TypeOK, AllSteps
<1>2. QED  BY <1>1, IInvAlways, PTL

\* No half-prepared copy of a source ever becomes a saved environment, however
\* captures, crashes and deletions overlap (the exclusive mkdir, the shutdown before
\* the copy), as long as no repair of the source overlaps a capture: that is left to
\* the user, and CaptureBegins and RepairSourceBegins exclude it.
THEOREM SavedCopyComplete ==
    ASSUME SnapshotsAssumption, NoneIsNoContainer
    PROVE  Spec => []ReadyCopyPrepared
<1>1. IInv => ReadyCopyPrepared
    BY DEF IInv, Handed, ReadyCopyPrepared
<1>2. QED  BY <1>1, IInvAlways, PTL

\* A source that nobody is at and that has no preparation left is up or down as
\* it was before the capture (restore_source, prior-state, repair-source).
THEOREM SourceStateRestored ==
    ASSUME SnapshotsAssumption, NoneIsNoContainer
    PROVE  Spec => []SourceRestored
<1>1. IInv => SourceRestored
    BY DEF IInv, Restoring, SourceRestored, Engaged, Doing, AtSource
<1>2. QED  BY <1>1, IInvAlways, PTL

\* A clone keeps the bootstrap agent until it has its own identity, and the
\* marker of an unfinished one until then (the order of finalize).
THEOREM CloneKeepsWayIn ==
    ASSUME SnapshotsAssumption, NoneIsNoContainer
    PROVE  Spec => []CloneRecoverable
<1>1. IInv => CloneRecoverable
    BY DEF IInv, Handed, CloneRecoverable, CloneReachable, MarkerUntilOwn
<1>2. QED  BY <1>1, IInvAlways, PTL
=============================================================================
