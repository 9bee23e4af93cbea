# TLA+ models of the NervesHub link agent

The agent (`src/src`) connects a Linux device to NervesHub over a Phoenix
channel, installs the firmware it is offered with fwup or RAUC, reboots into
it, lets a local application decide about both, and forwards logs. This
directory holds TLA+ modules that model its concurrent and persistent parts,
the TLC configurations that check them, and TLAPS proofs about them. Paths
below are relative to the repository, which is checked out under `src/`.

## Inventory

| Part | State it keeps | Operations | Talks to |
|---|---|---|---|
| session loop, `agent.rs` | update tool or the install that owns it, cached join, backoff, script and shell tasks, what extensions are attached | one `select!` loop: frames, heartbeat, install events, scripts, shell, logs, flush, commands | everything below |
| policy, `ipc/policy.rs` | none | what to do about an offer; whether to reboot | called by the loop |
| socket server, `ipc/mod.rs` | controller slot, per connection a pump, the questions outstanding, shared status | hello, claim, release, status, mark_valid, reboot, questions, events | applications; the loop over channels |
| update tools, `update_tool/{fwup,rauc,sandbox}.rs` | slots on disk, fwup's environment, u-boot's environment | name what runs, install, confirm | the boot script, NervesHub's checksum |
| boot scripts, `test/device/{boot,rauc-boot}.cmd` | u-boot's environment | choose a slot, count boots, roll back | fwup's environment; RAUC's service |
| log forwarding, `extensions/logging.rs` | bounded buffer, count and time of what was dropped | push, batch, sent | the tail's task; the loop's flush |
| extension negotiation, `extensions/mod.rs`, `link.rs` | what is offered, what was advertised, what is attached | join, attach, detach | NervesHub |
| scripts, `scripts.rs` | a task, a directory and a process for each; a channel of outcomes | stage, run with a timeout, clean up, report | the loop, the file system |
| local shell, `extensions/local_shell.rs` | pty and its child | start, input, output, end | the loop |
| health, geo, network identity | last CPU sample | answer a request | the loop |
| transport, TLS, identity, shared secret, http | a websocket, keys | connect, send, receive, download | NervesHub |

How they interact: NervesHub's frames, the install task's events and the
applications' commands all reach the session loop, which takes them one at a
time. The loop awaits inside its arms: while it asks the controller a question
it serves nothing else. The update tool is a value that moves from the loop
into the install task and back. The socket server runs one task per connection
and shares the controller slot and the status with the loop under locks. The
boot script and the agent share the device's two environments and never run at
the same time.

What is hard, and what must hold all the same:

* *The tool moves while sessions come and go.* One owner; a session never waits
  for it; it comes back; what NervesHub is told keeps the order of an install.
* *Questions cross threads and deadlines.* One controller; an answer decides
  only its own question; every question ends; every caller is answered.
* *The device loses power anywhere.* The slot that runs is never written; there
  is always a whole slot to boot; unconfirmed firmware goes; what was rolled
  back stays away; the identity reported is that of what runs.
* *Nothing outlives the session it belongs to by mistake.* The extensions are
  negotiated once in each session, and take place whatever the platform leaves
  out; nothing is said for an extension this session did not attach.
* *Scripts do as they like.* Each is run on its own text, what was staged for it
  is removed, and it is answered, whatever it does with its time and its output; a shell
  that leaves what is typed unread must not hold up the session.
* *Sends fail.* No log line is lost unreported or sent twice, in bounded space.

`PROJECT.json` lists each of these as hazards, at their lines.

## Modules

| Module | Models | Kind |
|---|---|---|
| `Policy` | `ipc/policy.rs` | operators |
| `InstallProtocol` | what NervesHub may rely on about update reports | abstract specification |
| `Agent` | `agent.rs`: `run`, `session` and what they call | state machine, refines `InstallProtocol` |
| `MCAgent` | configurations for TLC | instance |
| `AgentProofs`, `AgentRefinement` | theorems about `Agent` | proofs |
| `Ipc` | `ipc/mod.rs`, with the loop as far as it asks and serves | state machine |
| `IpcProofs` | theorems about `Ipc` | proofs |
| `LogBuffer` | `extensions/logging.rs` and the loop's two arms for it | state machine |
| `LogBufferProofs` | theorems about `LogBuffer` | proofs |
| `Extensions` | `extensions/mod.rs`, `link.rs` and the loop's arms for them, the life of the shell | state machine |
| `MCExtensions` | configurations for TLC | instance |
| `ExtensionsProofs` | theorems about `Extensions` | proofs |
| `Scripts` | `scripts.rs` and the loop's arms for it | state machine |
| `ScriptsProofs` | theorems about `Scripts` | proofs |
| `ABDevice` | what `update_tool/mod.rs` asks of any tool on an A/B device | abstract specification |
| `FwupDevice` | `update_tool/fwup.rs` with `boot.cmd`, `fwup.conf`, `ops.conf` | state machine, refines `ABDevice` |
| `MCFwup` | devices for TLC | instance |
| `FwupProofs` | theorems about `FwupDevice` | proofs |
| `RaucDevice` | `update_tool/rauc.rs` with `rauc-boot.cmd`, `rauc-system.conf` | state machine, refines `ABDevice` |
| `MCRauc` | devices for TLC | instance |
| `RaucProofs` | theorems about `RaucDevice` | proofs |

Operators named `...Anyway`, `...Uncached` and the like, each under a comment
that begins with "Mutant", are not part of the models: each is a definition with
a plausible bug, kept beside the definition it would replace, and every checked
property is known to fail for at least one of them.

### Agent

`phase` is where `run()` and `session()` are: `backoff`, `connecting`,
`serving` (in the `select!`), `polling` (between the two polls inside
`next_install_event`), `asking` (about to look the controller up in
`Ipc::ask`) and `waiting` (for its answer). An arm of `select!` is one action
up to the first await at which another actor can act; where an arm awaits more
(the question about an update, then the reply), it is split there. `tool`,
`install` and `task` are `Agent.tool`, `Agent.install` and the install's join
handle; `cached` stands for `Agent.firmware` and `Agent.join_params` together;
`update` and `pending` are fields of the status shared with applications.

A socket is `up`, `lost` (the peer is gone, the loop has not noticed: a send is
swallowed or refused, nondeterministically) or `none`. `said` is the last
update report the present connection carried. NervesHub may offer any firmware
whenever a session is up; applications may come, go, answer and call. The
device is abstracted to three facts: a reboot is under way, firmware is staged,
the running firmware is unproven.

`InstallProtocol` has two variables, the firmware being installed and `said`;
the refinement maps `install` to the first and `said` to itself.

### Ipc

`stage[c]` is where the task of connection `c` is: reading the hello, writing
the welcome, in the pump's `select!`, writing a frame, waiting for room in the
command channel, waiting for mark_valid's outcome, or past the pump. `slot` is
whose sender `Ipc.controller` holds. A question travels from `loop` through
`queue[c]` to `outstanding[c]`, where it gets an id of that connection, to the
application, and back. Each frame carries beside its id the question it is
about, so that `verdict` can be compared with the question that was asked. An
application answers any request it has read, late and as often as it likes. The
code has no such field as `about`, and no guard of the model reads it except to say which
waiter a kept reply belongs to. Writes wait while the application does not
read.

### LogBuffer

A line is its number, and the number is its timestamp. `lines`, `dropped` and
`gapOpened` are `Pending`'s fields; `channel` is the tail's; `message` is the
last message the socket accepted and `covered` counts the lines the accepted
messages carried or reported as dropped.

### Extensions

`session` is where `session()` is, with `joining` from the sent join to its
reply; `deadline` and `joined` are its locals `extensions_deadline` and
`extensions_joined`. `attached` is `Extensions.attached`, made anew with each
`Link`; `shell` and `output` are `Agent.shell`, which is not. The pty is between
the loop and the shell: `output` is the reader thread's channel, and `input` is
what was typed and not read. `typing` says that the loop waits in `Shell::input`,
which it awaits in its arm, and then nothing of the session is served. Whether
what runs in a shell reads what is typed while its own output is not taken is
chosen once (`reads`): the code cannot know. The platform sends
any advertisement, at any time and more than once, and answers a join at most
once, with any list. `joins`, `offer`, `wanted` and `spoke` record what the
session sent and was answered, for the properties only.

### Scripts

`stage[r]` is how far the task of request `r` is: the awaits of `scripts::run`,
`tempdir` (a directory is made first, and made private then) and `execute`, then
the send into `script_results`, whose capacity is `Channel`.
`directory[r]` is what `tempdir` made for the task, named by the agent's run and
its counter; `disk` is what those directories hold, `Absent`, `Shared` (empty, and
not private), `Empty` or a text.
`child[r]` is the process and `others[r]` says that something it started is
alive and holds its output: `wait_with_output` waits for that too. A killed agent
may leave its scripts running, since they have process groups of their own; what
it staged stays. Sessions come and go, and a result is taken from the channel
before it is sent. That a directory can be removed is an assumption
(`remove_dir_all`'s outcome is ignored by the code).

### ABDevice

Three variables: the firmware to fall back on, the candidate that was installed
and not confirmed, and what runs. An install needs the standing firmware to run
and replaces the candidate; boots choose one of the two, and one that falls back
gives the candidate up for good; only a candidate that runs is confirmed.

### RaucDevice

`first` is the head of `BOOT_ORDER` and `left[s]` is `BOOT_s_LEFT`; `record` is
RAUC's status file. `Boots` is the whole of `rauc-boot.cmd`: the choice, the
attempt spent before the boot, and the fallback to slot a. `client` is the
agent's `rauc install`; `target` and `incoming` are the service's, which goes on
when the client is killed with the agent, and whose end re-orders the slots all
the same. `CurrentFirmware` prefers the image's own uuid (`Declared` are the
images that have one) to RAUC's record about the booted slot.

RAUC itself is not in the repository. Taken from its documented behaviour, and
from the comments in `rauc-system.conf`: it writes the slot that is not booted;
the status file is written with the slot; it refuses a second client while it
installs; it may zero the target's count before it writes; an install puts its
slot first with a fresh count; `mark-good` restores the count of the booted
slot; and a slot is `good` while it has attempts left.

Habits as in `FwupDevice`: a confirmed slot that spends its attempts before it is
marked good again (`unmarked`), an update before the last was confirmed
(`update_on_probation`), and an application that calls `mark_valid` only while
`pending_validation` says so (`asks_first`). A device that has neither of the
first two is *kept*, and is an A/B device; `asks_first` is no exception. The mapping:
the standing firmware is that of the slot marked good last, and the other slot's
is the candidate while it goes first and has attempts left or runs.

### FwupDevice

`content[s]` is the image in slot `s`, or `Garbage` once a write began;
`disk` is the environment fwup writes, `flash` u-boot's own. `Boots` is the
whole of `boot.cmd`, from the boot counter to `saveenv`; `AgentStarts` is
`Fwup::new` with its `reconcile`; an install is `BeginInstall` and one of
`InstallFails` and `InstallEnds`, where `InstallEnds` is fwup's on-finish
resources, and after it the transfer's own outcome and the comparison of the
checksum, either of which may fail an install that has switched the slot; `InstallRefused` is what
`install_async` refuses before fwup runs. `CurrentFirmware` is what the join
reports, from the slot on the kernel's command line. `GoesDown` may come between
any two of them.

What users and servers do is `habits`, a set chosen for each device and never
changed: a reboot that is deferred, an install that fails although fwup succeeded
(`fails_afterwards`), an update before the last one was confirmed, a confirmation
before the reboot or on the last boot of the count, an environment that cannot be
corrected. A property
names the habits it excludes (`Orderly`, `Settled`, `Honest`), and these are as
few as possible: for each excluded habit TLC has a device that breaks the
property with it. So a guarantee of the A/B scheme is stated together with what
it takes for granted. `ImplementsAB` is about the device that has no habits: what
it falls back on is the active slot's firmware once that is validated, and until
then the previous slot's, or that of the override; the candidate is the active
slot's while it is on probation and no override is recorded against it.

## Runs

Passing runs finish in minutes with two workers.

| Run | Properties | Bounds, and why they are enough |
|---|---|---|
| `Agent_safety` | types; the tool has one owner; a session never needs a tool that is away; questions only between installs; no update is shown whose install ended with an outcome | two firmwares (symmetric), six configurations that differ in every branch of the policy, two installs (a second one meets whatever the first left), one queued report, one command, one restart, panics |
| `Agent_life` | `InstallProtocol` is implemented; the tool comes back; a success is settled | as above for a headless device and an asking one, without panics and without reboots from applications (a panic takes the tool for good, and a reboot is announced in the middle of an install) |
| `LogBuffer` | types and bounds; nothing unaccounted; gaps reported; what waits drains | batches of two (a notice and a line), a buffer of four, twelve lines: the buffer overflows several times over |
| `Ipc_safety` | types; one controller; an answer decides its own question; whoever waits, a caller or the loop, waits for something under way | two connections of either role, two questions (a late answer to the first meets the second), queues of one |
| `Ipc_live` | a disconnect resolves its question; questions end; calls return | one connection, which comes back under any role, so that callers that compete for the command channel are not in it; two questions and room for both: with less room `QuestionsEnd` fails, as `Ipc_deadlock` shows |
| `Extensions` | types; one negotiation; nothing said that was not wanted; a negotiation takes place; a shell that is over is let go; a shell that reads does not hold up the loop | three extensions: the one that is sent unasked, the one that is kept running, and one that answers requests; all eight configurations; sessions without a bound; two messages of output; room for one message of input, so that the second waits |
| `Scripts` | types; a script runs its own text and is answered with what that did; what stays on the disk is accounted for; every request is answered or lost | two requests at once and room for one result, so that a task waits for the loop; one restart of the agent; every request may get a directory |
| `Rauc` | types; what is reported runs; `ABDevice` is implemented; bad firmware does not stay | all eight sets of habits, three firmwares of which one is bad and one declares its uuid, three installs, three attempts as in the script |
| `Fwup` | types; the running slot; a slot to boot; the identity; trust; `ABDevice` is implemented; bad firmware goes | all 64 sets of habits, three firmwares of which one is bad, three installs (the third meets both slots written), a limit of two boots |

Runs that exhibit a disagreement between the code and what its comments and
documents say:

| Run | What it shows |
|---|---|
| `Agent_install_under_reboot` | the loop goes on taking offers after an accepted reboot, and begins an install that the shutdown will interrupt (`agent.rs:494`, `:1020`; the comment at `:511`). `Command::Reboot` (`:646`) does the same in the other order. |
| `Ipc_deadlock` | expired questions fill the channel while the pump waits for mark_valid's outcome: pump and loop wait for each other (`ipc/mod.rs:134`, `:376`; `docs/ipc.md:154`) |
| `Fwup_reboot_later` | an update that meets a deferred reboot is written over the running slot (`fwup.rs:295`; the comment at `:14`) |

Further disagreements, which no run shows:

* a controller that is gone before its welcome is written keeps the slot for ever
  (`ipc/mod.rs:241`: `serve` returns before the release; the comment at `:53`);
* the shell is a field of the agent and its output is sent without
  `is_attached`: it outlives its session and talks in a later one that did not
  attach it (`agent.rs:621`; the comments at `extensions/mod.rs:236` and
  `local_shell.rs:146`);
* a shell whose input nobody reads holds up the whole loop, heartbeats included
  (`local_shell.rs:118`, awaited at `agent.rs:1176`; the comment at `:694`), and
  one that waits for its output to be taken never reads it, so that neither goes
  on: `LoopGoesOn` fails without `reads`;
* a script that times out is killed alone: `kill_on_drop` kills the child and not
  its group (`scripts.rs:202`; the comments at `:28` and `:200`, and
  `docs/support-scripts.md:60`), so that `others` outlives the outcome in the model;
  a directory that was made and cannot be made private stays (`scripts.rs:294`;
  `config.rs:49`): `CleansUp` excepts both by name; stdout and stderr are put one
  after the other, and not merged in order (`scripts.rs:168`; the comment at `:136`);
* with RAUC a validated slot does not stop counting down: the script spends an
  attempt at every boot (`rauc-boot.cmd:78`; `docs/rauc.md:153`), so that a
  device which marks itself good once falls back after as many boots as there are
  attempts;
* `boot_state` says `Confirmed` of a RAUC slot that has attempts left and was
  never marked good (`rauc.rs:563`; `update_tool/mod.rs:41`), so that
  `pending_validation` is false through a trial until its last boot;
* an install task that panics takes the tool with it until the agent restarts
  (`agent.rs:577`; the comment at `:165`), and leaves the update it reported in the
  status, where applications see it until then: nothing clears `Shared.update`
  (`ipc/protocol.rs:192`, "Present while an update is in flight");
  `EndedUpdatesAreNotShown` excepts just that update, and fails without the exception;
* a progress report that is queued between two polls is dropped with the
  install, although the comment at `agent.rs:1087` says it is forwarded;
* a closed extensions channel is taken for attached (`link.rs:345`), and a device
  with no extension enabled joins with an empty offer when it is sent
  `extensions:get` (`agent.rs:438`; the comment at `extensions/mod.rs:185`);
* `max_defer_secs` forces nothing; `on_no_controller` can decide for a
  controller that was asked (`agent.rs:758`); `pending_validation` can be set for
  firmware that owes nothing; a drop notice is stamped later than the lines that
  survive it (`extensions/logging.rs:271`).

### Fairness

* `Agent`: the runtime runs the install task and the timers (weak fairness of
  the task's end, of the loop's steps and of the deadline). Backoff ends, and
  the network lets a session start again and again; an arm that is ready again
  and again is chosen by `select!`, which picks at random among ready arms
  (strong fairness of the session's start and of the install's arm). Nothing is
  asked of NervesHub, applications or the socket.
* `Ipc`: tasks run, `select!` starves no ready arm, sessions start again, and
  applications read. The deadline of a question is an assumption inside the
  properties that need it, so that `DisconnectResolves` is checked without.
* `LogBuffer`: sessions come back and get logging attached again and again.
* `Extensions`: sessions start again, the deadline's timer fires (weak fairness),
  and `select!` starves no arm that is ready in one session after another (strong
  fairness of the shell's output and of its end). A write to the pty that can end
  does; only a shell that reads at all (`reads`) is asked to go on reading.
  Nothing else is asked of the platform or the shell.
* `Scripts`: the runtime runs the tasks, whose every wait has a deadline (weak
  fairness of each task, which the script itself is no part of); sessions start
  again, and `select!` comes to the results in one of them (strong fairness).
* `FwupDevice`, `RaucDevice`: a device that is off is switched on, and one that runs goes down
  now and then; no fairness of the agent.

## Proofs

TLAPS proves these for every value of the constants that satisfies the
assumption named in the module (`AgentAssumption` and so on).

* `AgentProofs`: `TypeCorrect`, `OneOwner`, `SessionsNeedNoTool`,
  `AsksBetweenInstalls`, `EndedNotShown`. The inductive invariant adds to the properties what
  each rests on: a question about an update or a reboot exists only in the
  phases `asking` and `waiting`, polling only while there is an install, and a
  tool that was lost stays lost while its cached join stays. `EndedNotShown` holds
  with panics: a step clears the update that is shown, loses the tool, begins an
  install while nothing is shown, or leaves both alone (`ShownStep`).
* `AgentRefinement`: `Refinement` (`Agent` implements `InstallProtocol`), from the
  assumption that tasks do not panic and applications do not ask for reboots. The invariant relates `said` to `install`
  by phase: an open report without an install is not possible once the socket is
  up.
* `LogBufferProofs`: `LinesAccountedFor`, `GapsReported`,
  `LogTypeCorrect` (which has the bounds), for any batch size, buffer, channel and number of lines. The
  accounting equation is inductive with the numbering of lines and channel; the
  lemmas about `SubSeq` and `Tail` are its data part.
* `IpcProofs`, for any number of connections and any capacities: `OneDecides`,
  `IpcTypeCorrect`, `AnswersDecideTheirOwn`, and `NoOrphanedWaits`, which is
  `CallersHeard` and `RepliesAreKept` together.
  - One controller: a controller that was let in, until its task is over, is the
    one in the slot. With it goes `CallersWait`: a mark_valid in the command
    channel is that of a connection that waits for it, and no two are of the same
    one; without that, serving a command could take a pump that is over for one
    that goes on.
  - Types: the bounds need that nothing is written before the welcome, that a
    command stays in its connection's inbox until there is room for it, and that
    `nextId[c]`, the questions in `queue[c]` and the one on its way to `c` are no
    more than were asked.
  - Its own question: no invariant about `outstanding` alone is inductive, since
    answers travel through the application. `Labelled` is about all the frames
    that a connection's task, sockets and application hold: two with the same id
    are about the same question, none has an id above `nextId`, and a pump that
    is over keeps no reply. A question that is taken gets an id above them all.
  - Callers: the converse of `CallersWait` as well, so that the two are equivalent.
  - Replies: with `Labelled`, all that an answer removes from `outstanding` is
    about one question; and a connection that has not been let in yet was not
    asked, so that none comes to be asked by claiming the slot.
* `ExtensionsProofs`: `ExtensionsTypeCorrect`, `NegotiatesOnce`,
  `SpokenIsWanted`, `ShellIsConfigured`, for any extensions and configurations.
  The invariant adds that what is attached is both offered and wanted by this
  session, that nothing was joined before `joined`, and that nothing was wanted
  before a join. (`ShellIsConfigured` is about `ShellNeedsConfig`, which is part of
  that invariant and has no run of its own.)
* `ScriptsProofs`: `ScriptsTypeCorrect`, `ScriptsAnswerThemselves`,
  `ScriptsCleanUp`, for any requests, channel, restarts and bound on
  directories. The invariant says which directory a task at each stage has, that
  no two tasks have the same one, because a name carries the agent's run and a
  counter that only grows in it, that every directory on the disk was made for a
  task, that one which was not made private is empty, that a text that was written is there when the
  script is started, that a process runs only while its task waits for it or its
  agent is gone, and that what waits in the channel is over.
* `RaucProofs`: `RaucTypeCorrect`, `RaucIdentityTrue` for every device, and
  `RaucRefinement`: `RaucDevice` implements `ABDevice`, for any firmware, attempts
  and number of installs. The invariant of every device: what runs is a whole
  slot, what is written is the other one and counts as garbage, and what RAUC
  recorded about a whole slot is true or was never recorded. On a kept device,
  moreover: the slot that was marked good last holds good firmware and can be
  booted, and whatever else runs goes first with no install under way. Each
  action is then matched with a step of `ABDevice`, boots by which slot is chosen.
* `FwupProofs`, for any firmware, boot limit and number of installs:
  - `RunningSlotKept`, `IdentityTrue`. On an orderly device: identity records
    agree with whole images, `fw_active` names the running slot while the agent
    runs unless an install succeeded, and what fwup writes is the other one.
    `FwupTypeCorrect` is about every device.
  - `TrustIsProven` (`TrustInv`). On an honest device: what is active is confirmed
    or on probation; what either environment would fall back on is confirmed, or
    is being written; an override names what runs; and confirmed firmware runs
    while other firmware is written. Without the last, an update begun on
    probation would make unconfirmed firmware the one to fall back on.
  - `StaysBootable` (`BootInv`). On a settled device: the active slot is whole, on
    probation so is the previous one, an override names a whole slot, and a
    counter that is used up is that of a probation. An update that begins on
    probation begins after a rollback, and spares the slot that was fallen back on.
  - `FwupRefinement` (`FallbackInv`): `FwupDevice` implements `ABDevice`. On a
    device without habits, moreover, an override disarms the counter and names
    what the device falls back on, so that each boot is one of the standing
    firmware or of the candidate; each action is matched with a step of `ABDevice`
    or a stutter, boots by whether the count is used up.

Model-checked only: liveness (`ToolComesBack`, `SuccessIsSettled`, `Drains`,
`DisconnectResolves`, `QuestionsEnd`, `CallsReturn`, `Negotiates`, `ShellLetGo`,
`LoopGoesOn`, `EveryScriptIsAnswered`, `UnconfirmedReverts`,
`BadFirmwareReverts`), which the provers cannot treat under fairness. Every
invariant and every refinement that a passing run checks is proved. The
strengthened invariants were checked by TLC on the same instances before they were
proved. The two parts of `NoWaitIsOrphaned` are the safe halves of `CallsReturn` and
`QuestionsEnd`: what is waited for is always on its way, and fairness is needed
only for it to arrive.

## Not modelled

JSON, TLS, signatures, HTTP, the text of environments and its CRC, backoff
lengths and heartbeats (no property is about time), the readings of health, geo
and network identity, start-up and the command line client. An accepted send is
taken for delivered: the protocol has no acknowledgement. fwup writes its
environment in one block, and a torn block is not modelled.

Two steps of the fwup device are taken as one, or as certain. `Boots` is atomic:
past its limit u-boot saves the counter and only then runs `altbootcmd`, and a cut
of power between the two is left out. A killed agent's fwup always fails
(`AgentStops`): one whose input was closed already (`fwup.rs:361`) and that outlives
an agent killed by SIGKILL, for which `kill_on_drop` does not run, could still end
its on-finish resources and switch the slot.

The sandbox tool's files, the shell's decoder (`take_complete`) and its window's
size, and a script's output, whose truncation is data. RAUC's service and its
U-Boot backend are external, as assumed above; so are fwup and u-boot, but for
the repository's own scripts and tasks for them.

## Plan

Done: `Policy`, `Agent`, `InstallProtocol`, `LogBuffer`, `Ipc`, `Extensions`,
`Scripts`, `ABDevice`, `FwupDevice`, `RaucDevice`, with their proofs.

1. `Device`: `Agent` composed with `ABDevice`, for statements across the two:
   an update that succeeded is booted in the end, and a device on probation is
   confirmed or rolled back, through restarts between the steps of either.
2. `take_complete` (UTF-8) against a reference definition.
3. Configuration: validation as operators, and that what is accepted excludes
   the sizes that break `Drains`.
