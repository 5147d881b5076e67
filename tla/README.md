# A TLA+ model of pbox

pbox runs development boxes (LXC containers on Proxmox VE) and connects a command
line to an agent inside each box, directly or through a relay. This directory
holds TLA+ modules of its core protocols, the TLC configurations that check them
on small instances, and proofs of their main theorems for every size.

Paths below are relative to the repository; `pbox-agent/src/sessions.rs` means
`crates/pbox-agent/src/sessions.rs`. `PROJECT.json` maps every definition to the
lines it models.

## 1. Inventory

| Component | State | Operations | Hard behaviour | What makes it correct | Module |
|---|---|---|---|---|---|
| Named terminal sessions (`pbox-agent/src/sessions.rs`, PTY part of `main.rs`) | registry of names; per session an owner task, a worker task, three bounded channels, a subscriber list, a bell and a `finished` flag; exec permits | list, start, attach, read, send, close; viewer loss; process exit | three tasks per session and any number of callers; blocking sends; timeouts that kill; removal by name | one process per name, permits add up, close means reaped; losing a viewer should not end the process, but can (section 4, Findings) | `TerminalSessions`, `SessionLifecycle` |
| Relay rendezvous (`pbox-relay/src/server.rs`, `run_agent` in `lib.rs`) | map from box to waiting connection, two semaphores, a `Notify`; per agent a waiting connection and bridges | client and agent upgrade, hand-over, forwarding, removal, reconnection | lost wakeups, stale entries, half-made connections, dead peers, restarts | no lost wakeup, no ghost entry, one client per connection, availability comes back | `RelayRendezvous` |
| Relay access (`pbox-relay/src/access.rs`) | the relay's key, its clock, slots for requests to PVE; per client a token or a credential | issue, check, open a connection, open it again | expiry, clock changes, key changes, slow PVE | in while PVE shows the box and five minutes longer, nobody refused without a reason | `RelayAccess` |
| Listener and admission (`pbox-agent/src/main.rs`) | connection, handshake, exec, file and forward permits | accept, TLS handshake, first message of a call | one slow handshake delays all; failures between two permits | permits add up and come back | `AgentAdmission` |
| One-off exec (`run_piped_command`) | process, its descendants, two output tasks, an input task, deadline | run, feed input, stream output, kill | drain timeouts, deadline, cancelled caller, descendants that keep the pipes | one exit event, after the output; process reaped; permit back | `ExecPipes` |
| File transfer (`receive_upload`, `read_file`, `pbox scp`) | temporary file, size, end marker | upload, download, copy of a directory | cancelled upload, bytes after the end marker, two copies at once, restart | destination is old or complete, success means every file | `FileTransfer` |
| TCP forwarding (`forward`, `forward_tcp`) | half-close flags, channel of events | data, half close, close with a code | sends that block the other direction, timeouts at one end | nothing lost before a clean close, permit back | `TcpForward` |
| Reverse forwarding (`reverse.rs` in agent and agent client) | per connection two bounded channels and two bridges; one event loop a side | accept, data, half close, close | blocking sends in event loops: head-of-line blocking and a circular wait | bytes in order, permits given back | `ReverseForward` |
| Terminal host, workspace init, agent update (`terminal_host.rs`, `workspace.rs`, `agent_update.rs`) | child processes, binary on disk, terminals, lock file, digests | spawn, reap, replace, update, shut down | restart during the request that causes it; several machines at once | terminals outlive updates; the agent comes back | `GuestSupervision` |
| Inventory daemon (`inventory.rs`) | snapshot, deletion marks, daemon lock | refresh, read, mark deleting | readers, deletions, refresh and updates interleave | what is shown was so; a deletion shows while it runs | `Inventory` |
| Box commands and task wait (`pbox-cli/src/main.rs`) | the container, a PVE task per command | start, stop, restart, delete, checkpoint, roll back | polls that fail, tasks that go on after the command gave up | what is reported has happened; no premature kill | `BoxCommands` |
| Boxes (`run_new`, `run_repair`, `run_delete`, `relay.rs`, `bootstrap.rs`) | PVE containers, templates and tasks, recovery operation on disk | create, repair, start, stop, delete | crash between steps, lost answers, VMID races, commands that overlap | an interrupted creation can be repaired or deleted, no private template is left behind | `BoxProvision` |
| Saved environments (`snapshots.rs`) | preparation and prior state in the source, saved copies, marker in a clone's description | capture, repair the source, restore, repair a clone, delete | crash between steps, overlapping captures, two agents in one clone | source restored, copies complete, clones reachable | `Snapshots` |
| Images and templates (`images.rs`, `relay.rs`, `main.rs`) | nodes, storages, templates in them; workspace and container of a local build | choose node and storage, pull, build, upload | choice made of an old listing, two commands storing one image | the box's template is there, the loser of a race uses the winner's, nothing left behind | `ImageTemplates` |
| Recipes (`recipes.rs`, `ansible.rs`, `run_recipe`) | cached checkout and its lock; checkpoints, bridge, provenance in metadata | sync, apply, roll back, record | stale locks, kills, optimistic digest, lost answers | Ansible reads one revision, what is reported is recorded | `RecipeCache`, `RecipeApply` |
| Configuration (`config.rs`, `run_setup`, relay keygen) | one file, the key file, the terminal's echo | set, unset, setup, keygen, secret prompt | read, prompt, write without a lock; signals at a prompt | the file is whole, a verified connection is what is saved, a key that keygen names is there, echo comes back | `LocalConfig` |
| Terminal client (`ssh_input.rs`, `sessions.rs`, `run_ssh` on) | reading thread, escape parser, bounded channels, raw mode | type, paste, resize, detach, signals | keys, sizes, start and exit race; blocked network | keys arrive once and in order, detach works unless the terminal itself is held | `TerminalClient` |
| PVE client, crypto, desktop, presentation, self update | none beyond a request or a file | | | | not modelled (section 7) |

How they interact: the CLI opens a gRPC channel over mutual TLS to the agent,
either to its TCP port or through the relay, which joins the CLI's WebSocket to
one that the agent keeps waiting. Terminals, exec, file transfer and forwarding
are calls on that channel. Terminals and one-off commands of one agent process
share the semaphore `exec_slots`. (With a terminal host the agent passes terminal
calls on to a process with a semaphore of its own; the model is of the process
that owns the sessions.) Boxes, recipes and snapshots go through PVE's HTTP API
and its tasks; the inventory daemon and the commands share files.

`PROJECT.json` lists the hazards of this code at the lines where they bite.

## 2. Plan

Done: the terminals with their promise and proofs; the relay; provisioning;
saved environments; the fourteen services of `PboxServices`; proofs of every
invariant and every action property that the passing runs check.

Left, in this order:

1. Proof that a stall of `ReverseForward` needs full channels both ways.
2. A composition of `ExecPipes` and `TerminalSessions` with `AgentAdmission`, in
   which the admission's work is the whole call rather than a step.
3. The metadata and VMID functions as operators against reference definitions.

## 3. Modules

### SessionLifecycle

What callers may rely on, without tasks and channels: `Enlist` takes a free name
and a permit together, `Launch` and `Die` are the guest process, `Unlist` frees
the name only after the process is dead, `Finish` answers those who wait in
close, `Release` gives the permit back; `Borrow` and `Return` are one-off
commands. Its own invariants (`Typed`, `Registered`, `Exclusive`, `EndsClean`,
`Accounting`) are proved in `SessionLifecycle_proofs`.

### TerminalSessions

One incarnation is one `Arc<Session>`.

| Model | Code |
|---|---|
| `registry`, `title`, `login` | the `BTreeMap` behind the registry mutex, `info.name`, `info.user` |
| `slots`, `commands` | free permits of `exec_slots`, and one-off commands holding one |
| `owner` | where `own_session` is: in its select loop, inside `publish_output`, after the loop |
| `worker`, `queue`, `final` | `run_pty_command` and the channel of 16 events to its owner |
| `input` | the channel of 32 requests to `forward_stdin` |
| `bell`, `finished` | the stored permit of `Notify close`, the watch `finished` |
| `outputs`, `pending`, `sending` | `state.outputs`, the copy `publish_output` iterates over, the send it awaits |
| `pc`, `target`, `viewed`, `told`, `reader` | an RPC handler or a viewer, its `Arc<Session>`, its channel of 64 events, whether that holds the last one, its `attachment` task |

`prepare` holds the registry mutex from the lookup to the insertion, so `Enlist`
is one step; `attach` then subscribes under the state mutex in a step of its own
(`Subscribe`), and spawns the owner in a third. The lines after the owner's loop
are four steps (`OwnerDrains`, `OwnerUnlists`, `OwnerFinishes`,
`OwnerReleases`), because callers can see each boundary. A timeout is an action
whose guard says when it can fire: `Stuck(s)` holds when the owner waits for a
viewer whose channel is full. That viewer may have vanished with its host, or be there
and not read (a stopped `pbox ssh`, or one whose own output is blocked); nothing bounds
how long it takes. The worker kills the process when its owner dropped the output
receiver, when an output event or all input is stuck for five minutes, or when a write
to the terminal takes 30 seconds; each is an action.

Left out: the screen's contents and the generation counter (it changes only when
the session ends), `read` and `list` (they change nothing), the proxying to a
terminal host, the case that the first request already carries `stdin_eof` (the
input channel then closes while the process runs), and read errors of the PTY.
A viewer's receiver that was dropped leaves the subscriber sets at once, because
every use of them tests `is_closed` first.

### RelayRendezvous

One generation is one agent connection: the relay's task for it (`conn`), the
entry it may have in `waiting`, its WebSocket (`link`, `ready`) and the agent's
end (`socket` while `run_agent` waits on it, `bridges` once a spawned bridge has
it).

| Model | Code |
|---|---|
| `waiting`, `slots`, `clients` | the fields of `Relay`, under the map's mutex or a semaphore |
| `conn` | inserted (notification still to come), upgrading, waiting and paired (`wait_and_forward`), cleanup (it returned), failed (the removal that `on_failed_upgrade` spawned) |
| `pc`, `want`, `fired`, `match` | the client branch of `upgrade`: future enabled, map searched, parked, sender in hand, socket handed over, session; its box; its `notified` future; its oneshot sender |
| `agent`, `AgentPermits` | the loop of `run_agent` and its semaphore of 32 |

The search of the map and the wait are different steps, so an agent may register
and notify in between; an entry is inserted and announced in different steps; a
hand-over (`offered`) and its receipt (`PairUp`) are different steps, so either
end may die in between. `LinkLost` silently kills a connection, which the two
ends notice independently; `RelayRestarts` loses all the relay's state. A
generation that nothing refers to is used again in place of a fresh number, which
keeps the instance finite without letting the agents run out of connections.
The bytes of a session and token checks are left out.

### BoxProvision

One command is one pbox process; nothing but the files and PVE joins them, so any
two may run at once, also on the same box.

| Model | Code |
|---|---|
| `containers` | the containers of PVE; `box` is what their description names, `agent` and `creds` are the guest's agent, and the temporary SSH key and staged files in it |
| `uploads`, `templates` | PVE's task that stores the private image of a relay creation, and the stored volume |
| `operations` | `operation.json`, present as long as its directory; the phases that repair treats alike are one |
| `run` | where a command is, its copy of the operation, the VMID it works on, the VMIDs it takes for used |
| `unrecorded` | no state of the code: the boxes of which some work of PVE cannot be in any operation |

`Save` fails when another command removed the directory. A request to PVE and the
save of its result are different steps; the task goes on without its command.
`Killed` ends a command anywhere, which is also what an error does that keeps the
operation; `FailsEarly` and `Abandon` are the errors that remove it. PVE gives a
container its description some time during its creation, so `RepairMisses` may
overlook one that is being created.

A box becomes `unrecorded` in three ways: the answer to a request was lost, the
command was killed before it saved the answer, or a repair that overlaps the
creation judged by an old copy of the operation. `InterruptedRepairable` and
`TemplateSafe` show that there is no fourth.

Left out: the choice of node, image and resources, the prompt, and what the
bootstrap copies. A VMID that is used again while a deletion waits at its prompt
is in the model (`DeleteQueues` takes whatever has the number), but no property
forbids it, because nothing in the code prevents it.

### Snapshots

One source box, the environments saved from it and the boxes made from those.

| Model | Code |
|---|---|
| `source` | the source box: `prep` is `/etc/pbox-snapshot` (an exclusive `mkdir`, then the files of `prepare_source`), `prior` its file `prior-state`, `locked` PVE's disk lock during a copy |
| `copies` | the saved environments; ready means converted into a PVE template |
| `clones` | the boxes: `stage` is the snapshot's bootstrap agent, `own` the identity that `finalize` uploads, `agent` which of the two answers, `marker` the `pbox-clone-v1` line of the description |
| `run` | where a command is; `was` is `was_running` or what `prior-state` says |
| `before`, `disturbed` | no state of the code: how the source was before the capture, and whether somebody else used it meanwhile or a command died with nothing on record |

A boot starts the bootstrap agent while its files are there, because they hold
back the box's own agent. `Fails` is an error or a lost answer: a capture that made
the preparation goes on to `restore_source`, one that did not only stops a source
that it started. `Killed` leaves everything as it is.

`SourceRestored` makes two exceptions, both in the code. Captures may overlap: the
second `mkdir` fails, but its command has started the source by then and stops it
again, whatever the first one needs. And `SOURCE_CLEANUP` removes `prior-state`
before a source that was stopped is stopped again, so that a failure in between
leaves no record, and a repair leaves the source running. `ReadyCopyPrepared` has
no exception: it holds for overlapping captures too.

Left out: names, the network of a clone, the contents of the files, and that a
`mkdir` may succeed and the write of `prior-state` behind it fail (the two are one
step, so that the error "invalid source recovery state" does not occur). In the
model a repair of the source overlaps neither a capture nor another repair. The code
does not look for the other command in either direction; docs/snapshots.md:103
leaves it to the user. Without this assumption `ReadyCopyPrepared` fails: a
repair that started first removes the preparation of a capture between its completion
and the shutdown.

### The services of one box

The fourteen modules below are small enough to be explored in full. They share no
state that they model (permits are `AgentAdmission`'s, the others are about what
happens under one), so `PboxServices` puts them side by side and lets the
services named in `Services` run, one service per behaviour; the properties of its
runs are conjunctions of the modules' own, guarded by the service they are about.

| Module | State and code | Boundaries that are steps of their own |
|---|---|---|
| `AgentAdmission` | `slots`: the five semaphores; `backlog`, `ready`, `handshaking`: the kernel's queue, `LimitedIncoming.permit` and its one handshake; `line`, `call`: a caller | permit, accept, handshake, first message, lookup or connect, work |
| `ExecPipes` | `proc`, `kin`: the process and its descendants; `output`, `task`, `input`: the pipes and the tasks on them; `alarm`: `output_failure`; `waiter`, `verdict`: `run_piped_command`; `events`, `collector`: the channel and the client | each select branch of the wait, each join (with its drain timeout, `cut`), the report |
| `FileTransfer` | `remote`, `temps`, `uploadId`: the guest's files; `upload`, `download`: a command and the agent's handler of its present file | probe, `mkdir`, open, arming of the cleanup, each part, end marker, rename or (in place) truncation and filling, reply |
| `TcpForward` | `app`: the application at each end; `loop`: `forward_tcp` and the agent's task; `pipe`: the two channels | each await of either loop |
| `ReverseForward` | `channel`, `hand`, `known`: the loop at each side with the event it awaits to pass on; `queue`, `bridge`, `socket`: the bridge of each connection; `permits` | each await of loops and bridges |
| `GuestSupervision` | `pid1`, `agentRun`, `hostRun`: init and its children with the build they run; `disk`: the binary; `term`: terminals by owner; `update`: a controller's call | compare, list and refresh of a starting agent; connect, judge, lock, ask, close, list again, and the three parts of the install script |
| `RecipeCache` | `tip`, `cache`: upstream, and the checkout with its markers; `lockfile`; `cacheCall` | judging a lock stale and renaming it; fetch, checkout (begin and end), marking |
| `RecipeApply` | `run`, `asked`, `checkpoints`, `metadata`, `settings` | checkpoint, play, bridge, recovery, removal, and the read and write of each provenance record |
| `BoxCommands` | `power`, `cmd`, `pveTask`; `seen` is history | request and poll; a failed read; the escalation of a restart |
| `Inventory` | `vessel`, `deletion`, `mark`, `snapshot`, `daemon`, `exe`; `ran` is history | lock, spawn, start; listing, reading of each box, of each mark, merging, probing, publishing |
| `TerminalClient` | `parser`, `pump`: `TerminalInput` and its thread; `typedKeys`, `control`, `inputReady`: `local_input`, the detach channel, `input_ready`; `outbox`, `wire`: `forward_terminal_input`; `program`, `printer`, `ssh`; `keyed`, `early` are history | a read of the terminal, a send, a size, each output event, the end, the joining of the thread and the restoration, which writes to the terminal |
| `ImageTemplates` | `online`, `site`, `natives`, `stored`: Proxmox; `ask`, `prep`: a command | node and storage lookups, presence, pull or build or upload, wait, recheck |
| `LocalConfig` | `values`, `tempFiles`, `relayKey`: the files; `tuning`: a command with the values it loaded (`base`) and is to save (`next`) | load, each prompt, write, rename; truncating the key and writing it |
| `RelayAccess` | `time`, `clockError`, `servedKey`, `heldKey`, `seesBox`, `freeSlots`, `visit` | ask, PVE's answer, issue, open, break |

What the properties except, because the code does it:

- `ExecComplete`: output may be cut when a descendant keeps a pipe open for 10
  seconds after the exit (`task` is `cut`), and after an output alarm.
- `NothingTorn`, for files written in place: these are truncated and filled, as
  the code says. `TempsOwned`: a restart leaves temporary files, and so does a call
  that is dropped while it awaits the open, before its cleanup is armed (`unarmed`).
- `ForwardComplete`, `ReverseComplete`: an application sees the end of its input alike
  when the other one asked for it and when its forward was cut short: the client of a
  plain forward shuts its writer down before it looks at the code of a close, and every
  other loop and bridge drops the socket when it returns. So the properties speak of
  ends next to a loop or bridge that has not failed.
- `ReverseReleased`: no await of a reverse forward has a timeout. Two applications that
  write a lot before they read fill all channels both ways, and a bridge may wait for
  its application alone (`WaitsForApplication`). Only the end of the client's command
  brings the permits back, and only if every application in the guest goes on reading:
  one that does not holds its bridge, and the loop that should end the others. The
  plain forward escapes by the agent's timeouts.
- `CheckoutApplied`: a command that judged an older lock file stale may rename a
  live one (`robbed`), between the two steps of the takeover.
- `BridgeQuiet`: a bridge whose loop ended with an error (`BridgeBreaks`) does not join
  its clients, so that an operation may still run when the rollback begins; the run is
  then reported as failed.
- `RunRecorded`: an entry in the metadata makes way for that of another run of the
  same recipe id.
- `KeyThere`: a path given to `config set relay.key-file` is not looked at, and a keygen
  that fails or is killed between truncating and writing leaves a key cut off.
- `IdentityAsked`: a setup that did not ask puts the token it loaded back.
- `LocalControl`: a terminal that takes no output holds up the end, because what it
  shows is restored by a synchronous write.
- `CheckpointTold`: when several recipes are applied and the record of an earlier one
  fails, or pbox is killed, the checkpoint stays unnamed.
- `FreshStateShown`, `DeletionShown`: after a failed refresh; for the retry of a
  deletion, whose mark a pboxd that judged the first one may remove.
- `DetachMeant`: a pause over 30 ms inside an escape sequence, and an escape key
  right before a paste, hide the bracket, so that a pasted Ctrl-] detaches.
- `EchoReturns`, for a command that is killed: a secret prompt that follows another
  one in the same process has no signal handlers, as tokio registers those once
  and the guard has put back the old dispositions.
- `EntryFollowsVisibility`, `RefusedForReason`: setting the relay's clock moves the
  five minutes.

Left out of them all: the bytes of messages, and what the modules' head comments
name; of images also that making a workspace private may fail once it is there, and
that a second pull which PVE refuses while the first still runs is an error. Known lost
updates of the configuration (two commands that save, the second over the first; a
setup that saves the token it loaded over one stored during its prompts) are in the
model; no property forbids them, because the code takes no lock and promises none.

## 4. Runs

| Run | Question | Bounds and why they are enough |
|---|---|---|
| `sessions_safety` | registry, permits, processes and callers agree; the promise is kept | two callers and two incarnations of one name: an old owner that still ends, a new one being founded, and a caller of each; channels of capacity 1, so that full channels occur at once, and with them the kills for a viewer that does not read. No host vanishes here |
| `sessions_liveness` | close returns, viewers are let go, an exited process ends its session | one incarnation, two callers that may vanish, one one-off command, one permit |
| `sessions_takeover` | does an attachment move the terminal? (violated) | two callers, one session |
| `sessions_loss` | can a viewer that is lost, or does not read, kill the process? (violated) | one caller that may vanish |
| `relay_safety` | wakeups, entries, permits, one client per connection | two boxes, two clients, three connections, two relay permits (one fewer than needed), one fault |
| `relay_liveness` | availability returns, hand-overs resolve | one box, one client, three connections, two faults |
| `provision_safety` | what do interrupted and overlapping commands leave behind? | two boxes, two commands, two VMIDs, both kinds of creation, one fault: races for a VMID, a repair or a deletion beside a creation, a repair after a crash. With two faults (9 million states, checked once) nothing changes |
| `provision_liveness` | is a pending operation resolved? | two boxes and VMIDs, one command at a time, two faults: two commands could stop and start a box against each other for ever |
| `provision_unheard` | does a lost answer keep the state for repair? (violated) | one box, one command, one VMID, one lost answer |
| `snapshots_safety` | are source, copies and clones sound after any failure, and does the preparation go away? | two commands, two captures, one saved environment and one clone, two crashes, failures or reboots: a capture beside a capture, a repair after a crash, two repairs of one clone |
| `services_safety` | does each of the fourteen services do what it reports, give back what it took and leave nothing torn? | see below |
| `services_liveness` | do permits come back, does a stopped agent serve again, is a deleted box forgotten, does local control end a terminal command? | one to five callers and one connection of a reverse forward whose client writes three chunks, which fill the guest's queue and the hand of its loop while the guest's application does not read (and here, with data from the client, `DataWhole` too); one controller and one death; one box and two commands that look for pboxd |

`services_safety` has 2.5 million states. Five callers compete for four kinds of
work with one permit each (one caller more than all permits); commands, copies,
applications, controllers, terminals, preparations and visitors come in twos, so
that each can meet another in any step; recipe calls come in threes, because the
takeover of a lock needs a holder, one that judges and one that profits; channels
have capacity 1, so that both full and empty happen at once; each kind of fault
(kills, restarts, failed polls, errors, signals, changes of the site or the clock) is
bounded by 1, or 2 where the second differs from the first. Two boxes in the
inventory, or three parts of a file, only repeat what one and two do.

Its view (`ServiceView`) drops the services that do not run and counts invocations
by situation instead of naming them. That is sound because the names are
interchangeable in every action and property, and a situation holds all that
concerns one name. Of what is over only that is kept which a later step or a property
still reads: a finished call, a bridge that is done, a provenance base that is no longer
current, the number of a temporary file that no upload can get again.

Names, clients, incarnations, boxes and generations are interchangeable, so the
safety runs use symmetry; the liveness runs do not. `CHECK_DEADLOCK FALSE` stands
in the session runs, where incarnations are used once, and in the provision runs,
where a template that no operation names keeps its identifier: then nothing may
be left to do. So it does in `snapshots_safety`, once the captures are used up.

Every property has a mutant: an operator in the module that changes one mapped
definition the way a bug would (a lock not held, a permit kept, a removal without
the generation check, a future enabled after the search) and violates it.

### Fairness

`TerminalSessions!Fairness`: tasks that can run do run. The close branch of a
select is polled again and again while the owner lives, in random order, so it
is taken if it is ready infinitely often (strong fairness); the rest is weak. A
live viewer reads; a vanished one runs into the idle timeout of its attachment,
but nothing makes it read or makes its connection end, because the server sends
no HTTP/2 keepalive.

`RelayRendezvous!Fairness`: tasks run, timeouts fire, a dead or closed connection
is noticed at each end. No client need come, no session need end, and faults are
not fair; they are bounded by `MaxFaults`, so that "comes back" means after the
last one.

`BoxProvision!Fairness`: commands go on, PVE ends its tasks, and the user starts
a stopped box and repairs a box with a pending operation (strong fairness,
because another command may be running each time). No creation or deletion need
be asked for.

`Snapshots!Fairness`: commands go on, PVE ends its copies, and the user repairs a
source that was left prepared (strong fairness, as above), which is what
`docs/snapshots.md` tells him to do. No capture or restore need be asked for.

`PboxServices`: the listener's stream is polled and a handshake times out; every
await of the agent's exec and plain forward tasks has a timeout, so they go on
whatever the other side does; the guest's loop and bridges of a reverse forward take
the steps that no application holds up, and its loop ends once it can notice that the
client is gone; init reaps
and starts its children or stops; pboxd takes its steps and commands that look for
it are run again and again; the thread and the tasks of a terminal's client are
scheduled, not what they talk to. Nothing is assumed of callers, of the commands
they run, of the applications at the ends of a forward of either kind, or of the
local terminal.

### Findings

- `sessions_takeover`: `README.md` and `docs/cli-design.md` say that attaching
  moves a session from its previous connection. `attach` only adds a subscriber:
  both viewers stay, both feed the terminal, and each answers terminal queries.
- `sessions_loss`: `sessions.rs` says that attachments may disappear without
  ending the process. A viewer whose host vanishes without closing, or whose command
  is stopped or blocked on its own output, leaves its channel full; `publish_output`
  then waits without a timeout, the owner sends no heartbeats, and after five minutes
  the worker's idle timeouts kill the process.
- `provision_unheard`: `PLAN.md` says that interrupted provisioning must retain
  enough state for repair. Over SSH a creation request that times out after PVE
  accepted it counts as "PVE did not create box"; the operation and its key are
  removed while PVE creates the container.
- Not a run of its own: when PVE removes a container whose creation failed after
  its VMID was saved, neither `repair` nor `rm` finds the box, and the operation
  stays (`Stranded`, the exception in `PendingResolved`).
- Likewise the second exception of `SourceRestored` (section 3, Snapshots): the
  error message sends the user to `repair-source`, which has no record to follow.

## 5. Proofs

`SessionLifecycle_proofs`: the inductive invariant is `Typed`, `Registered` and
`Ordered`, which ties phase, process and `finished` together (a new session has
no process, one that is over has a dead one). Lemma `PromiseStep` shows that
every step keeps it; `Exclusive` and `EndsClean` follow from it (`PromiseMeans`),
neither of them being inductive alone. `PermitsAddUp` needs cardinalities: each
step adds or removes at most one holder of a permit.

`TerminalSessions_proofs`:

- `TypeCorrect`: typing, one lemma per kind of actor.
- `Joined` and `Aimed` are the strengthening. `Joined` ties the two tasks of a
  session to each other: before the owner is spawned there is no worker, after
  `worker.await` the worker is gone, and `finished` is set exactly by the owner's
  last two steps. `Aimed` says that a caller that is not idle holds an
  incarnation. `JoinedCorrect` proves both invariant; `WorkerKeepsOwner` follows.
- `KeepsPromise`: `TerminalSessions` implements `SessionLifecycle` with `phase`
  read off the owner and `process` off the worker. Client, owner and worker steps
  are mapped in `ClientMaps`, `OwnerMaps` and `WorkerMaps`.
- `RegistryAgrees`, `OneProcess`, `CloseMeansReaped` and `SlotsAddUp` are the
  promise's invariants carried over through the refinement.

`RelayRendezvous_proofs`: the inductive invariant is `Matching`: typing,
`NoGhostWaiter`, `NoLostWakeup` and two conjuncts that neither says. `Promised` says
what a client that was given a connection may rely on: the connection is no longer
listed, nobody else has it, it leads to the box asked for while a task of it is left,
and one that was handed over has a task that holds it. `Connected` says that an agent
that waits has the connection on which it waits. `MatchingStep` shows that all
twenty kinds of step keep it; without `Promised` a pairing could serve two clients.
`ClientsFindTheirAgent` (`WaitersServed`) and `NoSocketSharedOrMisrouted`
(`OneClientPerSocket`) follow from it, and `OnlyOwnEntryRemoved`
(`EntryTakenOrEnded`) from it for each step. `RelayPermitsAccounted` counts: a step
other than a restart moves at most one permit of each kind, with its holder
(`PermitsMove`).

`Snapshots_proofs`: the inductive invariant `IInv` has five parts. `Shaped` and
`Fitting` are types and which steps belong to which verb. `Owned`: at most one
capture holds the preparation, a repair of the source excludes captures, the
preparation is there while it is held and complete before the copy, and
`prior-state` is there exactly with it. `Handed`: every copy is complete; a clone has
a way in; a command past the upload is at a clone with an identity, and past the
cleanup at one without the bootstrap files. `Restoring` says, for a source that was
not disturbed, what each step of the one command there knows of the state before the
capture. `SavedCopyComplete`, `CloneKeepsWayIn` and `SourceStateRestored` follow from
`Handed` and `Restoring`, which `Owned` supports. There is a lemma per action, and
`Aloof` and `HandedKept` say that source and clones do not disturb each other.

`BoxProvision_proofs`: none of the five properties is inductive, because a command
works with a copy of the operation that others may have changed or removed. The
invariant `IInv` adds to the types:

- `Fitting`: which steps a command of each verb takes for a box of each kind, and what
  it remembers there.
- `Single`: one creation per box, and no container before that creation made it. With
  it a lost answer or a conflict of VMIDs cannot lead to a second one
  (`OneContainerPerBox`).
- `Deleting`: the box of a deletion is nowhere but at its VMID, and nowhere at all once
  the task is over (`CleanupOnlyAfterDeletion`); no creation of it is about to begin one.
- `OfOneKind`: every copy of an operation, and the operation, agree on relay or SSH. A
  box made over SSH has no template or task; one made of an image has its agent and no
  temporary key, so that only its template keeps it unfinished.
- `GuestCleaned`: over SSH, the guest has the agent once it was installed, and no key
  once it was cleaned, when the command gives up the operation.
- `Recorded`, `Uploaded` and `Extracting`, for the boxes that are not `unrecorded`: the
  operation is there while the box is on its way, it names the template while PVE stores
  or has it, a copy that names none means that none is left, and a creation that PVE
  runs has the template until a task that was recorded is over.

There is a lemma per action; `EndKeeps` covers every way in which a command ends and
leaves PVE alone, and `SaveAmends` the two outcomes of `save_operation`.
`CandidateIsFree` rests on the well-foundedness of the naturals.
`InterruptionsRepairable` follows from `Recorded`, `TemplateLifeFollowsOperation` from
`Uploaded` and `Extracting`. Both have the exception of `unrecorded`: that an upload
whose task was never saved appears after the cleanup is not excluded.

`AgentServices_proofs` is about what the agent does for its callers, for any number of
connections, calls, copies, chunks and machines.

- Listener and admission (`PermitsNeverLeak`: `PermitsHeld`). The strengthening is
  `AdmissionShape`: the connection in its TLS handshake is the one `handshaking` names,
  the kernel's queue holds each waiting connection once, and a call that opens a target
  is a forward; without it an accept could count a connection twice. Every step concerns
  one caller (`StepBalanced`): what it and the listener hold less of a pool is free
  afterwards, the others owe what they owed, so the sum of each pool stays
  (`BalancedKeeps`, which needs cardinalities).
- File transfer (`TransfersNeverTorn`, `NoTempLeftBehind`, `CopiesComplete`). The
  invariant `TransferInv` adds `Fitting`, what a command knows at each step (an upload is
  placed only with all its parts, only an in-place one fills, the directory is there
  before the first file); `Copied`, that what is no longer to do is at the target, and
  the file of the present handler once it was placed; `TempsKnown`, that the temporary
  file of a handler is there and is no other's, which `create_new` and not the counter
  guarantees, since a restarted agent counts from zero, and that, until a restart, a file
  whose cleanup is armed has a handler that runs; `Collecting`, that, as long as
  nothing was written in place, every file is whole and what a download has so far
  comes from the file it opened, also after a rename has taken its name away.
- Exec (`ExecInvariant`). `ChunksCounted` counts the chunks of a stream from the command
  to its collector; they add up while no task was cut. `DrainedToEnd` says that a task
  which ends by itself left nothing in its pipe, `WaitedInOrder` that the waiter takes
  the child, the two outputs and the report in this order, `ExitReported` that a status
  follows everything else.
- TCP forwarding (`ForwardInvariant`). `Passed` follows one direction from the
  application through its loop, the queue and the other loop: what was given plus what
  is under way is at most what was read, and exactly that until the receiver gives up;
  the end of the input comes last (`HalfLast`) and is passed on before the close
  (`EndPassed`). `Suits` ties each loop to its application.
- Reverse forwarding (`ReverseInvariant`). The same account over two bridges, two loops
  and three queues: `NoneLost` and `EndsLast` for the chunks, `BridgeFits` for a bridge
  and its socket, `TableFits` for the bridges a loop knows, `AnnouncedOnce` for the
  connection's first event, `PermitsOut` for the permits.
- Supervision (`SupervisionInvariant`, `TerminalsOutliveAgents`). A terminal host is
  replaced only while it has no terminal (`RefreshesIdle`), because the agent does not
  serve between its count and the replacement. So only the user, a death of the host or
  the end of PID 1 ends a terminal of the host.

`HostServices_proofs` is about the machine of the user and the relay.

- `CommandInvariant`: `BoxSeen` says that a command has seen the state that the box has
  now; `StageFits` and `TaskFits` say which stages and which PVE tasks belong to which
  command, and that a success that PVE reports was seen. A result is given at the end
  only. `ReportsHappened` and `GraceGiven` follow.
- `InventoryInvariant`: one daemon holds the lock (`LockExclusive`), a mark names a
  deletion that was asked for (`MarkNamesDeletion`), a mark judged to be over is not
  that of a deletion that runs (`OverJudged`), and the rows of a refresh ran since it
  began (`RowsRan`).
- `AccessInvariant`: a credential expires a lifetime after its issue, give or take the
  changes of the relay's clock, and PVE had just shown the box (`CredentialsTimed`,
  `JustShown`, `SeenNow`); a confirmed token was signed by the relay's key
  (`ConfirmedByKey`).
- `CacheInvariant`: unless a live lock file was renamed away, who works has the lock and
  Ansible reads the checkout it was given (`LockKept`, `CheckoutKept`). The condition is
  the code's: a lock older than its limit is taken over whether its owner lives or not.
- `ApplyInvariant`: how far an application is (`ProgressSound`), what of it is recorded
  and that an update PVE takes has started from what is there and replaces only entries
  of its own recipe id (`RecordSound`), that a checkpoint
  is named or will be (`CheckpointSound`), that the bridge is quiet unless it broke
  (`BridgeSound`).
- `ConfigInvariant`: the file is what its last saver wrote (`SaverSound`), a setup saves
  what it verified (`IdentityKept`), a key that keygen named is there and the user's own
  is replaced only when asked (`KeyKnown`), echo is off only while asking, or after a kill there
  (`EchoKept`).
- `TemplatesInvariant`: on a site that did not change meanwhile the storages chosen stay
  good (`PlacesFit`) and the archive is stored once a task or a check says so
  (`ArchiveThere`); a workspace or a container is left only by a kill or a failed
  removal (`ScratchKnown`).
- `ClientIsFaithful`: `OutputCounted` adds up what the program wrote, the events under
  way and what was shown. For the keys, `StreamInv` goes back from the program's input
  over the wire, the outbox, the queue of the reading thread and the parser to the keys
  not yet read: the places hold adjacent intervals, in order, and a key that is missing
  was dropped as early input. `DetachInv` says that, without two escapes in a row or a
  split sequence, the parser knows whether it is in a paste and whether an escape is
  pending, so that it detaches exactly on a detach key outside a paste. The sequences of
  pushed keys are defined by a function on the naturals; `PushKnows` and `ParsedKnows`
  argue by the least counterexample, since induction is not available.

`PboxServices_proofs`: the services do not share variables, so each of them takes a step
of its own specification or stutters (`AdmissionPart` to `TerminalPart`), and the
invariants above hold of the composition: `DataIsWhole`, `AnswersAreTrue`,
`RecipesAreSound`, `TemplatesAreSound`, `ConfigIsSound`, `AccessIsSound`,
`TerminalIsFaithful`, `TerminalsAreKept` and `TypesAreKept`.

The assumptions are those of the modules: finite sets of incarnations, commands,
callers, clients, visitors and connections, positive capacities, `None` and `NoCall`
distinct from every other value, the user no command, the kinds of box command and of
key and the names of services among those the modules name, a template that is given
only to a new box.

Model-checked only is liveness: `SessionsEnd`, `ViewersReleased`,
`AvailabilityRestored`, `OfferResolved`, `PendingResolved`, `PreparationRemoved`,
`CapacityReturns`, `AgentReturns`, `GoneForgotten` and `LocalControl`. Fairness and
ENABLED are beyond the prover. No property and no theorem excludes the stall of
`ReverseForward` while its command runs, which the code allows.

## 6. Running

    tlc -config TerminalSessions_safety.cfg MCTerminalSessions
    tlc -config RelayRendezvous_safety.cfg MCRelayRendezvous
    tlc -config BoxProvision_safety.cfg MCBoxProvision
    tlc -config Snapshots_safety.cfg MCSnapshots
    tlc -config PboxServices_safety.cfg MCPboxServices
    tlc -config PboxServices_liveness.cfg MCPboxServices
    tlapm AgentServices_proofs.tla
    tlapm BoxProvision_proofs.tla
    tlapm HostServices_proofs.tla
    tlapm PboxServices_proofs.tla
    tlapm RelayRendezvous_proofs.tla
    tlapm SessionLifecycle_proofs.tla
    tlapm Snapshots_proofs.tla
    tlapm TerminalSessions_proofs.tla

`HostServices_proofs` and `AgentServices_proofs` take some minutes each.

## 7. Not modelled

- PVE client: requests and decoding. What PVE answers, fails to answer and does
  later is in the modules that use it.
- Presentation and completion: text about state that is modelled elsewhere.
- Desktop: a decoder of the RFB protocol and a viewer in one task.
- Certificates and keys: values computed in one call.
- Self update: a download, a digest check and a rename by one process.
- Of the modelled parts: registry search, image aliases, guest shell scripts, name
  and pattern parsing, mounting in PID 1, and the socket between agent and
  terminal host.
