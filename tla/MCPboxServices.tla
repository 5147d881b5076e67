-------------------------- MODULE MCPboxServices --------------------------
\* Model values and the view for the instances of PboxServices.
EXTENDS PboxServices, TLC

\* How many elements of S are in each situation, whichever they are; of two, the set of
\* their situations says it.
Tally(S, Situation(_)) ==
    IF Cardinality(S) <= 2 THEN {Situation(e) : e \in S}
    ELSE [x \in {Situation(e) : e \in S} |-> Cardinality({e \in S : Situation(e) = x})]

\* Where c stands in a sequence of names.
Positions(c, s) == {i \in DOMAIN s : s[i] = c}
CallerSituation(c) == <<line[c], call[c], Positions(c, backlog), handshaking = c>>
\* Of the events sent by s nothing but their number matters when nobody takes them; of a
\* bridge that is done only what it has read, and nothing when both are.
Kinds(s) == [i \in DOMAIN channel[s] |-> IF Heard(s) THEN channel[s][i].what ELSE "any"]
Mail(s, c) ==
    <<hand[s].conn = c, IF Heard(s) THEN {i \in DOMAIN channel[s] : channel[s][i].conn = c} ELSE {}>>
ConnSituation(c) ==
    LET over == \A s \in Sides : On(s, c, "done")
        Side(s) ==
            IF On(s, c, "done")
            THEN <<bridge[s][c].readClosed, socket[s][c].wrote>>
            ELSE <<bridge[s][c], socket[s][c], queue[s][c]>>
    IN  <<over, [s \in Sides |-> <<Mail(s, c), c \in known[s]>>],
          IF over THEN <<>> ELSE <<[s \in Sides |-> On(s, c, "done")], [s \in Sides |-> Side(s)]>> >>
CallSituation(c) == <<cacheCall[c], lockfile = c>>
\* Of the provenance, an application tells its own from the other's.  A base that is no
\* longer current is not used; nor is what a killed run knew, or the settings that decide
\* on a checkpoint once every run has passed that.
ApplySituation(c) ==
    LET Seen(entries) == {<<e.by = c, e.id.number, e.result>> : e \in entries}
        at == run[c].at
    IN  <<at, IF at = "killed" THEN <<>> ELSE
              [run[c] EXCEPT !.base = IF run[c].current THEN Seen(@) ELSE {},
                             !.tries = IF at = "done" THEN 0 ELSE @],
          c \in asked, c \in checkpoints, Seen(metadata)>>
SettingsUsed ==
    IF \E c \in Applications : In(c, {"finds_box"}) THEN settings
    ELSE [settings EXCEPT !.policy = "never", !.able = TRUE]
CommandSituation(c) == <<cmd[c], pveTask[c], seen[c]>>
ControllerSituation(c) == update[c]
TermSituation(t) == term[t]
DaemonSituation(d) == daemon[d]
\* Nothing follows from a command that is over but what TemplatesSound says of it.
PreparationSituation(c) ==
    IF Settled(c) /\ prep[c].task # "runs" THEN <<>> ELSE <<ask[c], prep[c]>>

SettingSituation(c) == <<[tuning[c] EXCEPT !.replaced = @ = "user"], c \in tempFiles, saver = c, relayKey = c>>
\* Of a visit that is over only the reason is left.
VisitSituation(c) ==
    CASE visit[c].at = "failed" -> <<>>
      [] visit[c].at \in {"refused", "confirmed"} ->
             <<visit[c].at, visit[c].kind, visit[c].token.key, visit[c].refusedBy, RefusedForReason>>
      [] OTHER -> <<visit[c]>>

\* Storages: all of them good for everything, or the second alone and for
\* templates.  Commands: boxes and a pull that leave the node to pbox, one that
\* names the storage it pulls to, a relay's box that names node and storage.
MCLayouts ==
    {[s \in Storages |-> {"rootdir", "vztmpl"}],
     [s \in Storages |-> IF s = 1 THEN {} ELSE {"vztmpl"}]}
MCRequests ==
    LET Plain == [kind |-> "new", node |-> 0, given |-> FALSE, rootfs |-> FALSE,
                  root |-> 0, tmpl |-> 0]
    IN {Plain, [Plain EXCEPT !.given = TRUE], [Plain EXCEPT !.kind = "pull", !.tmpl = 2],
        [Plain EXCEPT !.kind = "relay", !.root = 2, !.node = 2]}

\* What NothingTorn asks of a fetched file, which is nothing once a file may have been
\* written in place.
Uniform(got) ==
    NothingInPlace => Len(got) = MaxParts /\ \A i, j \in DOMAIN got : got[i] = got[j]
DownloadSeen(down) ==
    IF down.at \in {"write", "ok"} THEN <<down.at, Uniform(down.got)>>
    ELSE IF NothingInPlace THEN <<down>>
    ELSE <<[down EXCEPT !.got = [i \in DOMAIN @ |-> NoFile], !.content.by = NoFile]>>

\* After the last restart a temporary file counts if a later upload may get its number,
\* and the numbers of the uploads that run do not count.
LastLife == restarts = MaxRestarts
TempsSeen == IF LastLife THEN {x \in temps : x.id >= uploadId} ELSE temps
UploadIdSeen == IF LastLife /\ TempsSeen = {} THEN 0 ELSE uploadId

\* Of the files of a directory none differs from the others, a failed upload leaves
\* but its files; the set of what one sees under every naming of the files.
FilesUnder(p) ==
    LET Name(f) == IF f = NoFile THEN NoFile ELSE p[f]
        New(x) == [x EXCEPT !.file = Name(@)]
    IN  <<[t \in Targets |-> {<<p[f], remote[t][f]>> : f \in Files}],
          {New(x) : x \in TempsSeen}, IF LastLife THEN {} ELSE {New(x) : x \in unarmed},
          [u \in Uploads |->
              IF upload[u].at = "failed" THEN <<>>
              ELSE <<[New(upload[u]) EXCEPT !.todo = {p[f] : f \in @},
                                            !.id = IF LastLife THEN 0 ELSE @]>>],
          [d \in Downloads |-> DownloadSeen(New(download[d]))]>>
FilesView == {FilesUnder(p) : p \in Permutations(Files)}

\* What tells states apart: of the service examined, as the others do not move,
\* and up to the names of invocations, which are interchangeable.
ServiceView ==
    CASE service = "admission"   -> <<service, slots, ready, Tally(Callers, CallerSituation)>>
      [] service = "exec"        -> <<service, execVars>>
      [] service = "files"       -> <<service, sameName, directory, UploadIdSeen, restarts, TempsOwned, FilesView>>
      [] service = "forward"     -> <<service, forwardVars>>
      [] service = "reverse"     ->
            <<service, session, permits, ReverseComplete, [s \in Sides |-> hand[s].what], [s \in Sides |-> Kinds(s)],
              Tally(Conns, ConnSituation)>>
      [] service = "supervision" ->
            <<service, box, pid1, disk, agentRun, hostRun, Tally(Terms, TermSituation), deaths,
              Tally(Controllers, ControllerSituation)>>
      [] service = "cache"       ->
            <<service, tip, cache, autoSync, lockfile = NoCall, kills,
              Tally(RecipeCalls, CallSituation)>>
      [] service = "apply"       -> <<service, SettingsUsed, breaks, Tally(Applications, ApplySituation)>>
      [] service = "commands"    -> <<service, power, Tally(BoxCalls, CommandSituation)>>
      [] service = "inventory"   ->
            <<service, vessel, deletion, mark, snapshot, exe, faults, ran,
              Tally(Daemons, DaemonSituation)>>
      [] service = "templates"   ->
            <<service, siteVars, stored, errors, changes, TemplatesSound,
              Tally(Preparations, PreparationSituation)>>
      [] service = "config"      ->
            <<service, values, environment, signals, saver = "user",
              IF relayKey \in Settings THEN "theirs" ELSE relayKey, Tally(Settings, SettingSituation)>>
      [] service = "access"      ->
            <<service, time, siteAccess, blindFor, freeSlots, Tally(Visitors, VisitSituation)>>
      [] service = "terminal"    ->
            IF Running THEN <<service, terminalVars>>
            ELSE <<service, ssh, held, pump, keyed, parser.split, program, printer.shown, early>>
=============================================================================
