# A verification model of fairpeer

fairpeer is an AI assistant written in Go: frontends (terminal, desktop window,
HTTP server, IM bots, the Agent Client Protocol) drive one
`control.Controller`, which runs turns of an `agent.Agent`, a loop of model
requests and tool calls. This directory holds TLA+ modules for the parts in
which goroutines, timers, cancellation and restarts meet, the TLC runs that
check them on small instances, and proofs, checked by TLAPS, for every value of
the constants. `PROJECT.json` says which lines each definition stands for,
which hazard each property is about and which bug of the code each property
would notice (`mutants`).

    tlc -config TurnLifecycle.cfg TurnLifecycle       # a run
    tlapm TurnLifecycleProofs.tla                     # a proof

A run is named like its `.cfg`; where there is a module `MC<name>`, it is the one to
give to TLC (`tlc -config Jobs.cfg MCJobs`). TLC finds no error in any of the runs
of section 3. Section 6 lists every disagreement between the code and its
comments that was met while modelling, with the property that states the comment
and the constants under which TLC shows the behaviour.

## 1. Inventory

| part | state | operations | what is hard |
|---|---|---|---|
| turn lifecycle (`control/controller.go`, `agent/agent.go`) | `running`, `cancel`, `turnWG`, the steer and follow-up queues | Send, submit, FollowUp, Steer, RunTurn, Cancel, WaitTurn, the turn goroutine | flags read under `c.mu` and used after it, queues drained at the end of a turn |
| approvals (`control/controller.go`, `permission/`) | `approvals`, `granted`, the modes, `policy`, the gate, `promptMu` | requestApproval, Approve, SetToolApprovalMode, SetPlanMode, SetMode, the gate check | a mode change against a prompt against an answer against a cancellation |
| goal loop (`control/controller.go`) | goal, status, four counters | SetGoal, SetGoalStrict, Cancel, advanceGoalAfterTurn, continueGoal | the lock is given up while the judge runs; the loop feeds itself |
| background jobs (`jobs/jobs.go`) | job table, statuses, completion notes, a wait group | Start, Kill, Wait, Output, DrainCompletedNote, Close | publication order, kill against end, close against start |
| scheduler (`scheduler/`) | task list, its file, one timer, missed reminders | the timer, CRUD, RunNow, Load, Start, Stop | positions used after the unlock, edits during runs, crashes |
| tool batches (`agent/agent.go`, `agent/op_gate.go`) | batch outcomes, repeat-success counts, failure counts | partitionToolCalls, runParallel, executeOne, the gate | parallel calls over shared per-turn counters |
| pause (`agent/agent.go`) | two channels, a flag | Pause, Resume, awaitPause | channels are only ever closed, a pause must not leak into another turn |
| checkpoints (`checkpoint/`, `control/controller.go`) | the checkpoints in memory and their files, the turn counter, boundaries | Begin, Snapshot, NotePostEdit, Rewind, KeepCurrent, RestoreCode, load | three steps per edit that a crash may cut, files rewritten in place, numbers used again, pruning, edits by others |
| trust domain (`trustdomain/`) | a chain per daemon, a ledger file, its stamp, candidates | Tick (reload, sync, checkpoint, save), one-shot commands, run | plans made of one reply and blocks of the next, forks, two processes and one file, crashes between remove and rename |
| bot gateway (`bot/`) | the session map, active keys, a channel per platform | dispatchLoop, handleMessage, getOrCreateSession, runTurn, the reaper, prewarm, Stop | lookups outside the lock, a loop that is busy with the turn its next message is for |
| transcript (`agent/session.go`, `compact.go`, `save.go`, `control/controller.go`) | the log, the session path, a file and a signature per session | Add, compact, snapshot and Save, LoadSession, NewSession, ClearSession, Branch, SwitchBranch, Resume, Rewind of the conversation, the autosaver | five goroutines over one log, path and log read apart, two writes per save, folds of folds, crashes |
| change proposals and cutovers (`netdev/proposal.go`, `netdev/cutover.go`) | a file per proposal and per run, marks of those in flight, what the devices carry | drafting, Approve, Reject, Delete, Execute, Rollback; Start, Continue, Rollback, Abort, the runner | load, decide and save with devices asked in between, commands that fail half-way, crashes, two files that must agree |
| sub-agents, signalling, mobile bridge, compose | | | candidates, see section 5 |
| everything else | | | adapters, rendering, HTTP, SQL, files: see the components of `PROJECT.json` |

How they interact: every frontend calls the controller; the controller starts a
turn goroutine, which calls `Agent.Run`; `Run` calls the gate, which calls back
into the controller (`requestApproval`) and blocks for the user's answer; tools
start jobs in the manager, whose notes the next turn drains; the goal loop wraps
`Run` in further turns; the scheduler calls a runner that drives a controller of
its own; a bot gateway keeps one controller per chat and calls `RunTurn`; before
a tool writes a file the checkpoint store of the controller snapshots it. A change
of a network device is drafted by a tool and decided by a human through the
desktop; a cutover executes and rolls back proposals, and shares nothing with
them but their files. The trust domain stands apart: its daemons talk to each other and share their ledger
file with the commands of the same host. State is shared through mutexes that
are released before the slow part of each operation, and this is where almost
every hazard of the list lies.

## 2. The modules

Each action is one region of the code between two points at which another
goroutine may run: a locked region, a channel operation, a call that takes time.
Names are those of the code. A definition whose comment begins with *Variant* is
a plausible bug, used to show that a property notices it; nothing of the model
refers to it.

**TurnLifecycle** (`TurnLifecycleProofs`) and **TurnServer**. A turn is a
goroutine with a program counter; `running` and `cancel` are the controller's.
Callers submit (`Send`, `SubmitCommand`), queue
(`FollowUp`/`EnqueueFollowUp`, `Steer`/`EnqueueSteer`: the flag is read in one
step and the queue written in another), run a turn of their own (`RunTurn`),
cancel (`Cancel` reads the function, `FireCancel` calls it) and wait
(`WaitTurn`). The turn gates, streams, calls tools, panics, clears `running`,
emits `TurnDone`, drains a follow-up and leaves the wait group as in
`runGuarded`. A turn may also stand where its context is not heard: in the goal
judge whose rejection leaves `c.mu` locked (`JudgeRejects`, after which nobody gets
that lock), or at `promptMu` behind the prompt of a background job
(`QueueForPrompt`, until `PromptComes`). Each prompt is a value of its own, so that the properties can
follow it. `TurnServer` is the promise behind all this, a server with one slot:
a free slot starts a waiting prompt, an occupied one may turn prompts down or
take them in. `Slot` (the prompt of the turn that `cancel` belongs to) and `Fate`
(what became of each prompt) map the controller to it.

**ApprovalBroker** (`ApprovalBrokerProofs`). Requests are
tool calls, plan and replan approvals and questions; setters are the frontends
that change modes. A request passes the plan-mode flag, the gate, the first
check, `promptMu`, the registration under `c.mu`, and then the select of reply
and cancellation. `SetToolApprovalMode`, `SetMode` and `SetPlanMode` are split
where the code unlocks: mode and drain, the building of the gate, its
installation, the replies to what was drained. What a change to auto answers is
decided when the entry is made (`autoDrain`), as in the code.

**GoalLoop** (`LoopProofs`). One goal loop against `SetGoal`, `SetGoalStrict` and `Cancel`. A
turn ends with a marker or none and with tool calls or none;
`advanceGoalAfterTurn` is its five outcomes, with `c.mu` a variable because the
judge runs without it. `said`, `quiet`, `workedFor` and `subject` are history.

**Jobs**, **JobOutput**, **JobsAndOutput** and **JobBoard** (`MCJobs`, `BackgroundProofs`). `Jobs` is the
goroutine of a job step by step (return, record, publish, close `done`, leave the
group) against Kill, Wait, DrainCompletedNote and Close. `JobOutput` is
`cappedBuffer` and the cursor of `Output` over all splittings of a small stream:
bytes are numbers, the marker is as long as its digits make it. `JobsAndOutput`
composes them: one job's status is what Kill and the publication make it, it
writes only while it runs, and `bash_output` polls from the moment the job is in
the table. `JobBoard` is what the manager promises the agent: a board on which
each job's end is shown once and noted once, the note before the end of a job
that ended by itself. `BackgroundProofs` maps the manager to it: `status` is
what is shown, `NoteOf` the note.

**Scheduler** (`MCScheduler`, `BackgroundProofs`). Tasks are records in a sequence, because the code
uses positions; `disk` is the file; `timer` the armed instant; each timer that
fires is a goroutine (`Firings`) that collects what is due, runs it outside the
lock and records it. Callers create, update, delete and run by hand meanwhile;
the process may stop or crash at any point and load the file again. An Update that
is refused leaves the entry changed in memory, as in the code; `refused` says of
which tasks that is so, and whether the file has it by now. An
expression is an interval or an instant, which is what `nextRun` and `IsOneShot`
distinguish. `served` and `started` follow each one-shot for the properties.
`Budgets` is the set of bounds TLC varies: how many edits, runs by hand, crashes
and which refusals a behaviour may have.

**ToolBatch** (`MCToolBatch`, `LoopProofs`). A batch of calls over operations with a
footprint, cut into runs by `RunStart`, executed by goroutines within the
semaphore. The counter map of the repeat guard is made, read and incremented in
separate steps, since nothing locks it, and `MapFault` is the runtime's answer
to concurrent access.

**PauseResume** (`LoopProofs`). `Run`'s loop against Pause, Resume and
Cancel; a channel is whether it was closed since `Run` made it.

**Ledger**, **TrustDomain** and **OneLedger** (`MCTrustDomain`, `TrustDomainProofs`). `Ledger` is
the chain as data: a sequence of blocks, of which only the author, the effect of
the record on members and the height of the checkpoint matter; the hash of a
block is the prefix that ends at it, so that `Extends` is the check of parent
hashes, and an unspecified order of heads (`HashGeq`) stands for the comparison
of hashes. `ForkChoice` and `PlanSync` are those of the code. `TrustDomain` is a
daemon per host (`Boot`, `Reload`, the requests of `syncFrom`, which are the status, the
blocks the plan asks for, and in the fallback the status again and the chain up to the
height it names, `Checkpoint`, the steps of `Store.Save`, `Stamp`) beside the commands of that
host, which load, append and save the same file; requests fail, hosts crash and
daemons are started again. A peer is asked at each request for the chain it has
at that moment. Peers serve and sign between the steps of their own tick.
The commands that propose have no peers, so an operation that needs a quorum of more than one
cannot be done by one of them. `trustdomain sync` has peers and one tick: on a host whose
daemon does not run it is what Restart, a tick and Crash do here; beside a running
daemon it is left out. `OneLedger` is the promise: a daemon leaves its chain only
for a better one that a running peer holds, for its own checkpoint on top, or
for the file of its host, and files have their checkpoints in order.
`HeldChains` (the chain of a daemon that runs) and the files map the network to it.

**BotGateway** (`MCBotGateway`, `BotGatewayProofs`). One channel and one dispatch
loop per platform; a session key belongs to one platform. A loop holds the
message, then the controller it found, until `Release`; turns ask, end, time out
or obey a cancellation, unless they stand at `promptMu` behind the prompt of a
background job (`QueueForPrompt`). `RunTurn` runs no goal loop, so the judge that
keeps `c.mu` cannot occur in one. The reaper, the goroutine that builds the parked session
and `Stop` interleave with them at every region of `gw.mu`. The queue that
`SessionManager` keeps for a busy key and its merging are not in the model: the
gateway has one loop per platform and runs a turn to its end, so a key is never
busy when a message for it is handled (`KeyHasTurn`, proved).

**Checkpoints** (`SessionProofs`). The store, the controller's numbering of turns, one writer tool
and one rewind at a time. Contents are numbers, new with each write, so equal
hashes are equal contents. `origin` remembers what the files were when a turn
began, `author` who wrote a file last. Rewind is split where the code leaves the
locks: look at `running`, cut the log, number and open the reverse checkpoint,
snapshot, finalize, read the plan, write each file. `persist` truncates and rewrites
turn-N.json in place and drops its errors, so each rewrite leaves the new checkpoint
or a torn file (`Written`), which `load` skips; a crash then loses all of
that turn, and `LostSince` says which files that leaves without their snapshot. A torn
file is tried only while a crash may still come, since nothing reads the directory
before.

**Proposals** and **Cutover** (`MCCutover`, `CutoverProofs`). A proposal is a record in a file, which
every function loads, decides on and saves; `proposalMu` makes that one region for
the human's decisions and for the claim of an execution, but not for the online
check before it, the steps and the rollback, which keep a copy (`call[c].copy`)
over the time the devices take. A step is one device, and `device` is what the
change did to it: nothing, all, a part, or twice. `licensed` holds the proposals
whose approval has not been used or withdrawn. `mishaps` records what a proposal met
that the record cannot tell: a stale copy saved over a decision, a number used
again after a restart, a device left half changed, a device that left the
inventory, a crash. `Cutover` extends it by the file of a run and by the runner and
the rollback, goroutines that load, work and save in separate steps, and that call
`ExecuteProposal` and `RollbackProposal` step by step. `Plans` is what TLC varies:
callers, proposals, steps and bounds. A disk that fails is a crash at that point; a
context that was cancelled shows as a failing step; entries that only read, the
snapshots, policies and change windows are left out (the last two refuse an
approval, which is then not given), and so are the statuses `watching` and
`closed`, which nothing in the pipeline sets.

**Transcript** (`MCTranscript`, `SessionProofs`). The log is a sequence of messages and
digests, an item being the set of messages it stands for; contents are not
modelled, only what a log and a file still hold. The digest that takes the place of
a summary that failed counts messages and holds none. A saver (the turn, its
autosaver, /compact, a frontend's call) goes through the steps of `snapshot` and
`Save`: the path, the copy of the log, the replacement of the file, reading it
back, the signature. A folder (the turn or /compact) plans on the log it reads
and puts its result over the log it finds; the summarizer may fail in between.
Frontend calls look at `running` once and go on in steps. A rewind of the conversation
cuts the log where a turn began and saves what is left over the file; `rewound`
holds what it took. A fold moves the items and not the boundaries, so after
one the cut may be anywhere. A cut to nothing leaves an empty log, which is not
saved: the file keeps what was rewound. User turns are taken to
be small enough to be kept (`pinnableUserTurn`), the token budget that places
the tail is a choice of places, and what a digest holds is what the summarizer
was given. `SummarizeFrom` and `SummarizeUpTo`, whose digests replace user turns as well,
and `Fork`, a branch of a cut log, are left out. A crash leaves the files; `conv`, `own`, `ended`, `cleared` and `rewound` are
history, and so is `mishaps`, which records the races and faults after which a
property is known not to hold, so that each property can name those it excepts.
`Limits` is the set of bounds TLC varies.

## 3. What the runs check

| run | properties | bounds |
|---|---|---|
| `TurnLifecycle` | `WaitTurnDrains`, `ServesOneTurn`, `CancelEndsTurn` | three prompts (one of them a command), two turns, one WaitTurn: a turn, its follow-up, and an intruder that may take the place of either |
| `ApprovalBroker` | `PromptsInTurn`, `YoloLeavesNoPrompt`, `UserDecides` | a plan, a question, an ask-ruled tool call; one setter with all three setters' calls |
| `GoalLoop` | `BlockedForCause`, `GoalLoopEnds`, `ClearedStaysCleared`, `CancelStopsGoal` | two goals, two block reasons, the goal set twice, a judge, strict goals, four turns instead of 50 |
| `Jobs` | `NotedOnce`, `WaitSeesEnd`, `CloseWaitsForStarted`, `PolledToTheEnd`, `KilledIsNoted` | two jobs, one waiter, one Close; one job's output polled, four bytes in writes of one or two, a buffer of one and one, streams and waits not in one behaviour (`PollBound`) |
| `Scheduler` | `TimerCoversTasks`, `RunsCreditedToTask`, `FileMatchesMemory`, `DueTaskFires` | two tasks, two timer goroutines, the instants 0 to 3; three edits, or two and a crash, or two with refused ones among them and a run by hand |
| `ToolBatch` | `ConflictsOrdered`, `TurnFailuresBounded`, `FailingOpStops` | two batches of three calls over six operations, a semaphore of two, thresholds of two and three |
| `PauseResume` | `PauseOfThisTurn`, `PauseEnds` | two turns, four steps, three pauses and resumes |
| `TrustDomain` | `SyncImproves`, `Converges` | two hosts and a member without one, a chain of two blocks joined with and two more, a checkpoint every two blocks, two commands, one fault |
| `BotGateway` | `TurnOnOpen`, `OneOwner`, `LoopReturns` | two platforms, three chats (two of one platform), three controllers, channels of two, three messages |
| `Checkpoints` | `RewindExact`, `PreviewHonest`, `DiskIsStore` | one file, two turns, two writes, two rewinds, a crash (with any rewrite before it torn) or an edit by somebody else, three checkpoints kept |
| `Cutover` | `RecordTells`, `EachApprovalOnce` | one proposal of two steps (commands, a file), three approvals, two callers, a crash, a device removed; or a cutover of two proposals of one step with two approvals |
| `Transcript` | `NothingForgotten`, `LogInOrder`, `TurnSavedAtItsEnd`, `SavedFileReloads`, `FilesKeptApart`, `FilesOnlyGrow` | two turns, three paths; turns of three messages with two folds by either folder, and an autosave or an outage of the summarizer; or turns of two messages, a fold and a call of any kind; or turns of one message, two calls of any kind, an autosave and a crash |

Each module also has a type invariant, `TypeOK` or, where one proof module
extends several, a name of its own (`SchedTypeOK`, `StoreTypeOK`); where the module has proofs it
is a theorem for every value of the constants. The runs leave it out, since the
properties above would notice a variable that goes astray. Bounds are constants of
the modules, guards of the actions they bound, and named for what they count; where
the code has a large constant (50 turns, 8 goroutines, 3 and 6 failures, a
buffer of 1 MiB, 50 checkpoints, a channel of 64) the `.cfg` takes one small
enough to be reached and crossed. Two of everything is where interference
begins, and a third prompt, call, chat or member is given where the hazard needs
an actor between two others. In `TrustDomain` two commands are what a fork
takes, a third height above the joined chain is where one side passes the other,
and `MCHashGeq` makes a fork change sides when it grows; the member without a
host is there to be revoked and to be a founder who cannot sign. In
`Checkpoints` files do not influence each other except through the crash between
two writes of a rewind, and one file is what two turns and two rewinds need to
pile up snapshots of. In `Cutover` the second step is what a failure in the middle takes,
the second caller what an execution against a rollback takes, and the third
approval lets a proposal be executed, rolled back and executed again. The cutover
adds the order of two proposals and the file of the run, so its proposals have one
step and one approval each. Safety and liveness share a run wherever there is both;
symmetry is used in `ToolBatch` (two edits that differ in name only) and in
`Cutover` (the callers), which check no liveness.

Some properties except a course of which section 6 says that it goes wrong, and
each names it: `CancelEndsTurn` the rejected verdict that keeps `c.mu` and a turn queued at
`promptMu`, `LoopReturns` the latter, `GoalLoopEnds` the rejected strict goal and the
rejected verdict, `Converges` a later checkpoint behind fewer blocks, `RewindExact`
and `DiskIsStore` a turn number that comes out of order (used twice, or below that of
a checkpoint in the store) and a turn that runs into a rewind (`dirty`),
`DiskIsStore` the files torn by their own rewriting, `RewindExact` a rewind that prunes its own target and, of
the files whose snapshot a torn checkpoint held, those up to that turn, `PreviewHonest` a file somebody wrote before the agent's hash
(`blurred`), `FileMatchesMemory`, `TimerCoversTasks` and `DueTaskFires` the tasks
with a refused edit (`refused`),
`RecordTells` a proposal that met one of its `mishaps` and `EachApprovalOnce` one
over which a stale copy was saved, and those of `Transcript` the `mishaps` they name: a rotation next
to a turn or a save, two saves of one file, a turn not saved for its length, a
fold put over another log, an outage, a crash between file and signature. What
ClearSession removes and what a rewind took from that conversation is no exception
but part of what `FilesOnlyGrow` says.

`CHECK_DEADLOCK FALSE` stands where the system may rest: all turns done, no
task, no batch, no message left, the bounds used up.

### Fairness

Specifications named `FairSpec` (`AllSpec` in `JobsAndOutput`) are used for liveness only. Weak fairness is
given to the steps of goroutines that the Go scheduler runs and that wait for
nobody (a turn's own steps, a job's epilogue, a timer goroutine, the loop of
`Run`), because a runnable goroutine is eventually run. A model request or a
tool call is taken to return, since the code bounds it by a timeout or by the
context it is given; a job ends after its context is cancelled. Waiting at a mutex
is not such a call: a turn behind `promptMu` goes on only when it is handed over
(`PromptComes`, no fairness, as that takes a user), and one behind the `c.mu` of a rejected
verdict never does; `TurnObeys` of the gateway has strong fairness, since a turn that
asks again and again is heard at one of these times. The daemons of
the trust domain tick for ever, commands that were begun end, and a daemon that
ended is started again by whoever runs it (`Restart`), while faults are bounded
in number, as convergence needs a time without them; the same holds for the
commands. In the gateway the loops run and the ten minutes of a turn pass; no
answer is taken to come, so `LoopReturns` rests on the deadline, and claims nothing of
a turn that stays queued at `promptMu`. `Age`, the
passing of the idle timeout, is not let happen between two statements of
`runTurn`: the timeout is minutes. Nothing is
assumed of users: no run needs an approval, a resume or another submission to
come, and the properties say what follows when they do.

## 4. What is proved

Eight modules hold proofs, for every value of the constants and without bounds
other than those the assumptions name. They hold type invariants
(`TypeCorrect`, `SchedTypes`, `GoalTypes`, `PauseTypes`, `BatchTypes`) of all these
modules but the composition with `JobOutput`, and these:

* `TurnLifecycleProofs`. `TurnExclusion`: one turn at a time. The mutual
  exclusion is by the flag `running`, which is not an owner: the induction needs
  that whoever is between taking and clearing is the holder, and that a panic
  clears the flag only while its turn holds it. That is so of a panic of the body, the
  one the module has; the same recover also covers the code after the
  flag was cleared (section 5). `WaitTurnCovers`: what
  `WaitTurn` returned over has ended; a turn leaves the group last.
  `PromptsOnce` (`PromptStartsOnce` and `QueuesConsistent`, proved only): a
  prompt is in one queue, in one turn or in nobody's hands; starting, queueing
  and popping move it and never copy it. `ImplementsServer`: the controller
  implements `TurnServer`. Every action is shown to be one of Start, Finish,
  Refuse, Absorb and Handle or to leave slot and fates alone; what the mapping
  needs beyond the invariants above is `SlotInv`, that a turn which holds the
  slot has a prompt.
* `ApprovalBrokerProofs`. `PromptsTakeTurns`, `UserMustDecide`, `YoloIsQuiet`: an
  open prompt owns `promptMu`; an entry of `approvals` is deleted in the region
  that takes it, so answer, drain and cancellation exclude each other; drains
  skip plans; the second look before the registration and the drain of a mode
  change are regions of one lock, so whichever comes second sees the other.
* `BackgroundProofs`, for jobs. `StatusIsFinal` (`StatusFinal`, proved only),
  `EachEndNotedOnce` (with the lemma `NoteBeforeStatus`), `WaitIsConclusive`,
  `CloseIsConclusive`: each from an invariant that relates the program counter of
  a job to its status, its note and its membership in the wait group.
  `ImplementsBoard`: the manager implements `JobBoard`. Start, Kill,
  RecordCompletion, Publish and DrainCompletedNote are Put, Strike, Write, Show
  and Take; a Publish that finds the job killed, and all of Wait and Close, leave
  the board alone. `NoteInv` is what makes the note of a job one value, which the
  status it publishes later cannot contradict unless Kill was faster.
  `PolledCorrect` is about the composition with the output, for any stream, caps and
  splittings into writes: `BufferInv` says that the head holds the first bytes in
  order, that the tail holds consecutive ones from past the head, and that what
  is kept and what was counted as truncated make up what was written;
  `ReaderInv` says that all bytes held in front of the cursor have been seen and
  that a reader who was told the end has seen all that is held. The
  cursor moves over a text in whose middle stands a marker with a number in it:
  the proof needs that the number never has fewer digits than before
  (`DigitsAre`), so that the cursor never comes to lie past a byte it has not
  shown.
* `BackgroundProofs`, for the scheduler. `FileCorrect`: inductive with the types; a save
  writes what is in memory, so only what Update leaves behind when it refuses
  can differ. `TimerCorrect`: `ArmTimer` takes the least of the instants
  (`NearestIs`, by the well-foundedness of the naturals), and any firing that
  is past the armed instant will re-arm. It holds of any number of timer goroutines
  and of both reasons for a refusal. `CreditCorrect`, from `CreditInv`:
  the runs of a task that are under way (the firings that hold a copy of it, a
  run by hand) and the count in its entry, in memory or in the file, are together
  no more than the runs begun; it counts a finite set of firings, which changes by
  one at a time.
* `LoopProofs`, for the goal loop. `TurnsAreBudgeted`, `BlocksHaveCause`,
  `ClearedIsFinal`, `CancelEndsGoal`, from `GoalInv`: while a goal runs no
  counter has reached its limit, and each audit counter agrees with what the
  last replies said, except while a completion is being looked at. For pause
  and resume, `OnlyOwnPause`, from `ClosedInThisTurn`: a closed channel was
  closed in the turn that runs.
* `LoopProofs`, for tool batches of any size. `OrderCorrect`: calls of one run do not
  conflict, and a run starts when the one before is over. `RunStart` is a
  recursive function, and what it is equal to is no fact of the library
  for this domain: that such a function exists (`StartsExist`) and that any two
  agree (`StartsAgree`) is proved here, from which `RunStartIs`.
  `BudgetCorrect`: calls past the gate hold a slot of the semaphore, and until the
  budget is spent a failure is left (`Budget`), so that it is passed by less than
  the width.
  `StopCorrect`: two calls of one operation that is not read-only conflict, so they
  are never past the gate together (`OnePerOperation`), and the one that was let
  pass had a failure to spare (`Tries`).
* `CutoverProofs`, for proposals, over any plan. `OneAtATime`: a proposal marked in
  flight is at a step of the one call that marked it. From it `ApprovalCorrect`
  (`EachApprovalOnce`): only an approval gives the licence, only the claim of an
  execution takes it, and a record that says approved has one unless a stale
  copy was saved over it. `RecordCorrect` (`RecordTells`): the copy of the caller at work says which
  steps it has applied or undone so far, so that the record it saves at
  the end says the same of the devices.
* `BotGatewayProofs`. `KeysAreReleased`, `TurnsAreOnOpen`,
  `ControllersHaveOneOwner`, from `GatewayInv`: a loop handles messages of its
  own platform, so that two loops never hold one key (`KeysDiffer`); slots hold
  open controllers, each its own; a turn's controller is the one of its key's
  slot, and what a loop is about to run is not stale.
* `TrustDomainProofs`. `CheckpointsKeepIncreasing`: a proposer covers its own
  head (`NewBlockIs`), and appending such a block keeps the covered heights
  increasing (`AppendIncreases`); prefixes keep it too. From it
  `SyncTakesTheBetter`: TryExtend does not ask ForkChoice, and need not, since an
  extension has a last checkpoint that is no earlier and more blocks
  (`ExtensionWins`, from `LastCheckpointIs`, which says which block CHOOSE
  finds). `ImplementsLedger`: the network implements `OneLedger`. Both ways to
  take blocks of a peer are Improve, and a checkpoint wins against what it covers
  because it extends it; Reload is Reread or nothing, a crash is Stop, and a step of a
  save or a command that touches the file is Store.
* `SessionProofs`, for `Transcript`, with any paths, turns, folds, calls and crashes.
  `TranscriptTypesHold`; then each of the properties of the run:
  - `SavedSessionsReload` (`SavedFileReloads`), from `SavesInStep`: `SaveInv` says at
    which places of a turn, a fold and a call a saver can be at work, `SignInv` that
    what a saver read back is what the file holds and that a file without a saver
    between its two writes has its own signature or none. Most steps enter and leave
    no write (`CalmKeeps`).
  - `LogsInOrder` (`LogInOrder`), from `OrderedLogs`, which is about every log there
    is: the one in memory, one a fold has read or will put, one a saver copied, the
    files and what their signatures are of. A fold of a fold keeps the order because nothing
    a fold would take ever stands in front of a digest (`Precedes`), and a
    message is added behind all there are because no log, however old, holds one of
    a turn to come (`SaidBy`). `CompactedIs` says what a fold puts in terms of the
    positions of the log it read: those it keeps, the digest, those behind it.
  - `ConversationsApart` (`FilesKeptApart`), from `PlacesInv`: a path that is not yet made
    is nobody's; while the frontend's call is on its way nothing else is
    (`Quiet`, what a torn rotation breaks), so that log, path, folds and saves are of
    one conversation (`OnPath`, `Apart`), and the one that was removed is not
    it (`Removed`).
  - `FilesGrowOnly` (`FilesOnlyGrow`), from `Growing`: the log covers the file, and so does
    the copy of every saver that is about to replace it; no fold loses any of what it read
    (`CompactedHeld`), the summarizer having answered, and what a cut takes goes into
    `rewound` of that conversation.
  - `TurnsAreSaved` (`TurnSavedAtItsEnd`) and `NothingIsForgotten` (`NothingForgotten`), from
    `Secured`, which needs both at once: what a turn said is in the log when
    its last save copies it, and what is loaded later is what was on disk. With it
    `Attributed`: no message of the present turn is in another conversation.
* `SessionProofs`, for `Checkpoints`, with any files, cap and number of turns,
  writes, rewinds, crashes and edits by others. `StoreTypesHold`; then each of the
  properties of the run:
  - `StoreSurvives` (`DiskIsStore`), from `OrderInv`: the list of all checkpoints
    ascends and the directory holds it and nothing else, but for torn files. One lemma says what each
    operation of the store does to a list and a directory that agree (`AppendHolds`,
    `ReviseHolds`, `PruneHolds`, and `LoadedIs` for what a new process reads), so
    that a step is one or two of these.
  - `PreviewsHonestly` (`PreviewHonest`), from `FreshInv` and `HonestInv`: a content is
    newer than every record made before it, so a hash that matches the file was
    taken of this very write, and where somebody else made it a snapshot holds it. The
    records are those in memory and those in the directory, which a crash puts in the
    place of the others.
  - `RewindsExactly` (`RewindExact`), from `ExactInv`: a file differs from what it was
    at turn n only if somebody else wrote it or a checkpoint from n on has a
    snapshot of it, the earliest of which is what it was, or a torn file lost that snapshot
    (`LostSince`). It rests on
    `AloneInv`, that no turn is at work during a rewind, and on `KeepInv`, that
    the reverse checkpoint holds every file that the plan is about to write; what
    pruning takes from the front of the list changes neither.

Each proof goes by an inductive invariant that strengthens the property with the
relation between program counters and shared state just named, one step per
action; TLC checked it first. Nothing is assumed but the named assumptions of the
modules: that the model values differ, that bounds are numbers, that a key has a
platform, and that hosts join with a chain whose checkpoints increase
(`OriginAssumption`), and that the steps of a proposal are numbered (`PlanAssumption`).
`OneTurn`, `TurnBudget`, `CheckpointsIncrease`, `KeyHasTurn` and
`StatusFinal` are proved and no longer in a run.

Every invariant and action property of a run is now proved, and the refinements of
`JobBoard` and `OneLedger` are proved and in no run; only model-checked is liveness: fairness and ENABLED are out of the prover's reach, as is induction
over data. The run of the scheduler has no refused interval: it would be
due again at once for ever (`ScheduledAhead`, section 6), and the states would not
end; the theorems cover it.
No module declares a RECURSIVE operator; `RunStart` is a recursive function.

## 5. Plan

1. Done: the components above.
2. Next modules: `maybeCompact`'s latch; the sub-agent store's locks and statuses; the pairing of the signalling
   server (expiry and attempts).
3. Compositions: `TurnLifecycle` with `PauseResume` (Pause looks at `running`),
   `TurnLifecycle` with `GoalLoop` (a goal loop is one turn), `ToolBatch` with
   `ApprovalBroker` (a batch of parallel requests), `BotGateway` with
   `TurnLifecycle` (RunTurn refused while a turn runs).
4. Abstract specifications: `TurnServer`, `JobBoard` and `OneLedger` are done; next a
   conversation as a growing set of messages, which `Transcript` implements
   between mishaps, and a prompt as asked, answered or withdrawn.
5. Theorems: what the properties under mishaps become when one fault is allowed at a time
   (one outage of the summarizer loses one digest and no more).
6. Parts of the modelled components that are left out: Close and the autosave
   goroutines of the controller, a panic of the event sink or of the follow-up's submission after
   `running` was cleared (the recover of `runGuarded` stands until the goroutine ends, so it
   would clear the flag of whichever turn has it by then), SummarizeFrom, SummarizeUpTo and
   Fork, a checkpoint file that cannot be opened for writing (its older content stays),
   `trustdomain sync` next to a running daemon, remembered approval rules, a disk that fails
   under the scheduler, quorum records, policies, pause, succession and
   delegation of the trust domain, two writer tools in one turn, the read-only entries
   of a cutover and the snapshots around it.

Not modelled and why: each component of `PROJECT.json` with the status
`not_modelled` has its reason; mostly its behaviour is input and output, text,
or one goroutine over one file.

## 6. Where the code and its comments disagree

Each property states what a comment or a doc of the code promises; the quoted
text and its line are in `findings` of `PROJECT.json`. To see the behaviour, put
the property in place of those of the given `.cfg`, with the constants changed as
listed and without `SYMMETRY` if it is temporal.

| property | module | `.cfg` and constants | in short |
|---|---|---|---|
| `JudgeRejectionContinues` | GoalLoop | `GoalLoop` | a rejected verdict leaves `c.mu` locked |
| `JudgeSawGoal` | GoalLoop | `GoalLoop` | a goal set during the judgement is completed unseen |
| `WorkIsNotIdle` | GoalLoop | `GoalLoop` | working turns count as idle |
| `StrictNeedsWork`, `StrictBudget` | GoalLoop | `GoalLoop` | old work counts for a strict goal; its rejections skip the limit |
| `FollowUpAccepted` | TurnLifecycle | `TurnLifecycle` | a popped follow-up is refused and lost |
| `FollowUpNotStranded` | TurnLifecycle | `TurnLifecycle` | a follow-up is queued after the last drain |
| `SteerGuidesCurrentTask` | TurnLifecycle | `TurnLifecycle` | a steer at the end of a turn guides another one or none |
| `WaitTurnSeesNoTurn` | TurnLifecycle | `TurnLifecycle` | WaitTurn overlooks a turn that is starting |
| `PlanModeHardDenies`, `PlanModeOffClears` | ApprovalBroker | `ApprovalBroker` | SetPlanMode does not reach the gate in use |
| `GateFollowsMode` | ApprovalBroker | `ApprovalBroker`, `Setters = {s1, s2}`, `Plans = Questions = {}`, `Ops = {"tool"}` | two mode changes leave mode and gate apart |
| `CancelUnblocksApproval` | ApprovalBroker | `FairSpec`, `Writes = {w}`, `Plans = Questions = {}`, `Background = {a}`, `Ops = {"tool"}` | a queued approval does not hear its cancellation |
| `TerminalIsNoted`, `NoteMatchesStatus` | Jobs | `Jobs` | Kill publishes past the recording |
| `CloseWaitsForAll` | Jobs | `Jobs` | Close misses a job started in parallel |
| `NotedIsReadable` | JobsAndOutput | `Jobs` | a job is told to have finished while its output still says running |
| `TailIsLast` | JobOutput | `Jobs`, as `P == Out!TailIsLast` | the tail is not the last bytes |
| `OutputIsIncremental` | JobOutput | `Jobs`, as `P == Out!OutputIsIncremental`, `Jobs = {j1}`, `tailCap = 2`, `MaxBytes = 14`, `MaxWrite = 5` | the cursor slips with the marker |
| `OneShotFiresOnce`, `IndexInList` | Scheduler | `Scheduler` | edits during a run: fired twice, a position past the end |
| `FiresOnlyDue` | Scheduler | `Scheduler` | edits during a run: a task that is not due is run |
| `OneShotNotLost` | Scheduler | `Scheduler` | a one-shot is disabled or skipped without having fired |
| `NoDuplicateCatchUp` | Scheduler | `Scheduler` | a crash before the save repeats a reminder |
| `FileAlwaysMatches` | Scheduler | `Scheduler` | a refused Update stays in memory |
| `TimerCoversAll` | Scheduler | `Scheduler`, a budget with `ops = 3`, `refusals = {"interval", "past"}` | refused edits leave an enabled task without a timer |
| `ScheduledAhead` | Scheduler | `Scheduler`, a budget with `refusals = {"interval"}`, `MaxTime = 4` | and its interval, below the minimum, is scheduled from then on |
| `ParallelSafe`, `RepeatsBlocked` | ToolBatch | `ToolBatch` | the repeat counter is shared without a lock |
| `PauseHolds`, `PausedOncePerPause` | PauseResume | `PauseResume` | the channels are not made anew after a resume |
| `FlakyPeerHarmless` | TrustDomain | `TrustDomain` | a request that fails in the fallback ends the daemon |
| `ReloadKeepsBetter` | TrustDomain | `TrustDomain` | a file as tall replaces a chain that is preferred |
| `OverwritesOnlyRead` | TrustDomain | `TrustDomain` | a daemon saves over a command's block |
| `AbandonedRevocationsSeen` | TrustDomain | `TrustDomain` | revocations on the branch that is left are forgotten |
| `AllConverge` | TrustDomain | `TrustDomain` | a later checkpoint on a shorter chain is never asked for |
| `LedgerRecoverable` | TrustDomain | `TrustDomain` | two saves at once leave no file at all |
| `StopReachesTurn` | BotGateway | `BotGateway` | /stop waits behind the turn it is to stop |
| `AnswerReachesPrompt`, `PlanIsCommand` | BotGateway | `BotGateway`, `Kinds` with `"answer"` and `"plan"` | an answer waits behind the turn that asks; /plan goes to the model |
| `StopClosesAll` | BotGateway | `BotGateway` | a session that is being built outlives Stop |
| `ReapedWereQuiet` | BotGateway | `BotGateway` | a session is reaped with its next message received |
| `NumberedOnce`, `RewindAlwaysExact`, `RewoundStaysListed` | Checkpoints | `Checkpoints` | a rewind takes a number the next turn takes again, and may prune its own target; after that a turn may take a number below it (`Files` of two, `MaxUserTurns` of four) |
| `NoTurnDuringRewind` | Checkpoints | `Checkpoints` | `running` is looked at once |
| `SafeLosesNothing` | Checkpoints | `Checkpoints` | the hash after an edit is taken of whatever is on the disk |
| `OneDigest` | Transcript | `Transcript` | digests pile up behind a second kept user turn |
| `EveryTurnSaved` | Transcript | `Transcript` | a turn whose fold shrank the log is not saved |
| `DigestSurvivesOutage` | Transcript | `Transcript` | a failed summary drops the digest it was to update |
| `AutosaveHarmless` | Transcript | `Transcript` | a late autosave replaces the save that ended the turn |
| `OverlapReloads` | Transcript | `Transcript` | two saves leave a signature that does not match |
| `CrashReloads` | Transcript | `Transcript` | so does a crash between the two writes |
| `RunLoopOnlyWriter` | Transcript | `Transcript` | /compact during a turn drops what the turn said meanwhile |
| `RotationExcludesTurns` | Transcript | `Transcript`, `Ops = {"new"}` | a conversation is saved over another one's file |
| `ClearedForGood` | Transcript | `Transcript` | a save under way brings a cleared conversation back |
| `SetSessionWhenIdle` | Transcript | `Transcript` | the HTTP resume does not look at `running` |
| `VetoHolds` | Proposals | `Cutover` | the online check saves a stale copy over a rejection or a deletion |
| `RollbackIsClean` | Proposals | `Cutover` | a step that failed after some of its commands is not rolled back |
| `ExecutingIsWorkedOn` | Proposals | `Cutover` | after a crash the proposal stays executing for ever |
| `RecordIsKept` | Proposals | `Cutover` | after a restart a draft takes the number, and the file, of a proposal under way |
| `RollbackUnwindsAll` | Cutover | `Cutover` | an executed proposal whose gate failed is not unwound |
| `AbortIsForGood` | Cutover | `Cutover` | the runner's save takes an abort back |
| `NoRunDuringRollback` | Cutover | `Cutover` | a run may be continued while it is rolled back |
