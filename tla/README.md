# friring in TLA+

friring is a terminal program that keeps many coding agents running, each in a
multiplexer pane of its own. Its hardest part is the *orchestration bridge*
(ADR-30 to ADR-33 in `docs/ARCHITECTURE.md`, `docs/SANDBOX.md` from line 2035):
an agent that owns a sandbox profile may create, stop, resume and talk to child
agents, each in its own git worktree, and friring must never run two agents in
one worktree, exceed an owner's fan-out, lose a request it accepted, or call
work finished that it has not verified. All of it has to survive crashes, late
workers, failing kills and other friring processes on the same database. This
project models the bridge, and the parts of friring that have the same trouble:
automations, the list of sessions that several instances share, and the egress
proxy that has to outlive friring's own restarts.

## Inventory

| part | state it keeps | operations | what is hard | what makes it correct |
|---|---|---|---|---|
| child lifecycle, broker verbs (`app/bridge_spawn.rs`) | jobs in flight, requests held behind them | `create`, `stop`, `resume`, the child's `result`, cascade delete | a stop or a result arriving in the middle of a launch; a resume of a child whose agent still runs | one job per child, every accepted key answered, one agent per worktree |
| saga driver and recovery (`app/bridge_saga.rs`) | the step of each job; `child_sagas` rows | S1..S9, grace, stop, verify, decide; unwind; recovery at start | crash between two steps, late workers, failed kills and writes | nothing runs unrecorded, verdicts are true, interrupted launches are finalized |
| bridge journal (`storage/bridge.rs`) | requests, children, states, sagas, results, reports, leases | take, finish, commit, slot count, prune | atomicity of S6 and of a resume's claim, two processes on one database | answered once, the cap holds, ownership is never deleted |
| bridge broker (`app/bridge.rs`) | nudges owed, leases held, served queues | poll and dispatch, `send`, `inbox`, `report`, nudge, stall report | stale nudge records, queue hand-over between instances | exactly-once effect, mail is never silently unread |
| bridge file queue (`paths.rs`, `cli/bridge.rs`) | `req/`, `.taking/`, `res/` | submit, take by rename, answer, recover, prune | crash between take and answer, replays, an earlier life's files | every request answered once |
| bridge vocabulary (`session/bridge.rs`) | none | predicates on states and steps | a state that is both live and terminal | live and terminal partition the states |
| app coordinator (`app/mod.rs`) | session list, caches, UI | tick, restore, adopt, delete | stale entries after a restart or an outside change | an entry names the pane it stands for |
| agent backend (`agent/`) | panes, control-mode connection | spawn, adopt, identity, kill, input | recycled pane ids, a multiplexer that does not answer | nothing is done to a pane that is not the recorded one |
| git (`git/`) | worktrees and branches | claim, verify, remove | two claims of one branch or path | no worktree with work in it is removed |
| sandbox and egress (`sandbox/`, `proxy/`) | places, per-session directories, policies | compose, mint, commit, decide, GC | supervisor restarts, acknowledgement | the gate opens only once the filter is live |
| session operations (`session_ops/`) | session rows | load, unload, restart, delete | partial failure of multi-step operations | rows and panes agree |
| automations (`app/automation.rs`, `cli/automations.rs`, `storage/automations.rs`) | schedules, run rows | due, claim, fire, reap, edit | several firers, commands that outlive their row | claimed once, never run beside itself, every row closed |
| messages, tasks (`storage/`) | mail, tasks | send, claim, wake | mail that nobody is told of | unread mail is announced |
| instance sync (`sync/`) | last seen version | poll, delta | two instances writing, undo and restore beside them, a window that is not found, not taken over or not launched | every instance lists what is there, one agent per session |
| user interface, command line, settings, activity, usage, extensions, scripts | presentation | | | not a subject here |

The parts meet in one process. A request file is taken by the broker and
journaled; a lifecycle verb becomes a *job*, which the tick advances step by
step, handing blocking work to workers and polling them; jobs write sagas and
states to the database, open and kill panes through the backend, cut and inspect
worktrees through git. Agents in their panes act on their own: they edit, report
through hooks, send a `result`, exit. A new process finds the database, the
panes and the worktrees as they are, and nothing else.

## Modules

| module | what it is | composed with |
|---|---|---|
| `ChildStates` | the closed vocabularies of `session/bridge.rs` | extended by `ChildLifecycle` |
| `ChildLifecycle` | jobs, sagas, panes, worktrees, crash and recovery of children | `MCChildLifecycle` gives TLC the symmetry of keys |
| `ChildLifecycle_proofs` | theorems about its types, requests and answers | |
| `ChildAgents_proofs` | theorems about its agents and slots | extends `ChildLifecycle_proofs` |
| `WorktreeClaim` | the branch and the directory of a launch, between several processes, ordinary sessions and the operator | details what `ChildLifecycle` calls `wt` |
| `ExactlyOnce` | what the bridge promises of a request | abstract |
| `BridgeQueue` | request files, journal, broker, jobs as far as they answer | implements `ExactlyOnce` (`QueueIsExactlyOnce`) |
| `BridgeMail` | mailboxes, the reminders each process owes, the stall report | |
| `Automations` | one automation, its firers, workers and reaper | |
| `SessionSync` | one session row, its windows, every instance's list | |
| `Egress` | one session's proxy from launch to restart | |

### ChildLifecycle and the code

A child is named by the key of the `create` that made it, so `Children` is
`CreateKeys`. A launch is named by the key that asked for it, so each resume has
a saga row and a pane of its own.

* *The process*: `jobs` is `ChildLifecycle.jobs`, at most one per child, with
  its `waiters` and its `follow_up`; `workers` are the blocking tasks; `entry`
  is the child's place in the session list (attached to its recorded pane,
  attached to another pane of the same window name, a ghost, or none);
  `overdue` are the nudge records that ran out of allowance.
* *The database*: `journal` is `bridge_requests`, `saga` is `child_sagas`,
  `cstate` is the state column, `row` the pane the session row names, `hook` the
  launch whose report is on record, `result` is `bridge_results`.
* *The host*: `pane`, `wt`, and `outbox`, a `result` request nobody took yet.
* *History*: `said` and `asked`, for the properties only.

A handler of the tick is one atomic action (`begin_create` is `BeginCreate`,
`job_commit` is `Commit`, and so on; `PROJECT.json` names the lines). Between
any two of them everything outside the process may move: a worker finishes, an
agent reports, edits, sends its result or exits, the multiplexer dies, the
process crashes. Recovery is not atomic: each saga it reconciles is a step of
its own, with agents running meanwhile. It does come before the first request,
as in the code: the broker polls on every third tick, the first tick recovers.

Abstractions, and why they are safe:

* **Time.** A timeout may fire whenever the step it bounds is waiting, and a
  lease may run out whenever nobody drives its saga. One exception is stated in
  `NudgesUnanswered`: the allowance is minutes, a first launch has ended by
  then. A worker that dies and a worker that is late differ only in whether its
  effect lands, which it may do after the job is gone.
* **`working` and `blocked`** are the hook's names for `ready`; no lifecycle
  branch tells them apart.
* **A worktree** is absent, clean or dirty. An unreadable one reads as dirty, as
  in `verify_worktree`. Branches and the race for a path are in `WorktreeClaim`.
* **Restoring** assumes lazy restore (the default): a child whose pane is gone
  becomes a ghost, not a new process.
* **The database** refuses only verdicts (`WriteMayFail`), the one place where
  the code branches on a failed write after something was done outside.
* **Identity** is exact: a recorded pane is the launch that opened it, so a
  recycled pane id is a pane that does not revalidate. A resume names its
  session after the child's id, so a pane of the first launch and one of a
  resume have different window names (`SameWindow`), two resumes the same.
* **The nudge record** is reduced to whether the allowance is used up; only the
  child's `result` clears it here. Any other call of the child clears it in the
  code, which allows no step that is missing: a stall report is never forced.

Not in the model: adoption of rows another instance wrote while this one runs, a
second instance, pruning, an operator who unloads or deletes a child by hand,
cascade delete, per-session directories, the mail that goes with each change of
state. Mail has a module of its own, and so have the queue and the worktrees.

### WorktreeClaim and the code

`ref` and `dir` are git's: who cut a branch, whether it has commits of its own;
who made a worktree, on which branch, whether it is dirty. Several branch names
may share a directory, because `worktree_segments` writes `-` for `/`; `path` is
any such assignment. `saga` is the row of `child_sagas`, its step reduced to
what recovery asks (nothing external yet, something to reclaim, a child,
finished); `claimed` and `based` are `branch_claimed` and `base_head`.

A launch is begun (`Begin`, the checks of `plan_child_launch`), recorded
(`StartWorktree`), and its worker runs git's two commands (`CutBranch`,
`AddWorktree`) on its own; the tick takes the answer (`TakeWorktree`), gives up
on it (`TimeOut`, the thread goes on), commits the child, or fails
(`LaunchFails`). `reclaim_child_worktree` runs on the tick, and every git command
of it is an action (`AskBranch`, `Verify`, `Remove`, `CountAhead`,
`DeleteBranch`, `EndReclaim`), because the other processes, the agents and the
operator do not wait for that tick. `Start` reads the unfinished sagas nobody has
a lease on, `Reconcile` takes them one by one.

S3 to S5 and S7 to S9 are left out: what they do to a worktree is nothing, and
`ChildLifecycle` has them. A hook that fails `git worktree add` after it made the
worktree is in; a repository git cannot read is a directory that reads dirty.

### BridgeQueue and the code

One calling session, since queues share nothing. `req`, `taking` and `res` are
the files, `journal` the `bridge_requests` rows, `lease` the broker lease. The
broker serves one request at a time (`hand`), each durable write a step of its
own: taken, accepted (`accept_bridge_request`), carried out or deferred to a job,
finished, answered in the response file, unstaged. A crash, or another process,
may come between any two. `RecoverTaken` is the sweep of `.taking` by a starting
friring, `ReadAccepted` and `AnswerAbandoned` the answers recovery gives for
what a predecessor accepted. The client submits a key again with the same or
another body at any time, and acknowledges answers or lets them be pruned.

`ExactlyOnce` says what is promised: a key is carried out at most once, for one
body, and its answer is final. The mapping reads `performed` as it is and `reply`
from the journal. The promise excepts the time when two friring processes have
run side by side (`shared`): a starting friring refuses what a living one still
carries, which is what `MCBridgeQueue_v_peer` shows.

### BridgeMail and the code

Per instance: `nudges`, the `NudgeRecord`s; `waiting` and `cooling`, the records
in the order in which they were last tried, split by whether the interval
passed; `loaded`, the sessions it has in a pane it knows. `TickNudges` takes the
one that waits longest: it is settled (nothing unread), kept quiet (not
reachable, asking a question, allowance used up), nudged, or reported stalled.
`Spend` is what any bridge call does to its caller's record, `Reconcile` the slow
pass that rebuilds records from mailboxes. Panes that ask questions, sessions
that are parked, loaded or resumed, restarts, mail put by `message send
--no-wake` and mail read by others are the environment.

### Automations and the code

One automation. `row` is its row, `runs` its `automation_runs`, a firer's `fire`
the pass it is in: reap, read what is due, claim (`claim_due_automation`, a
conditional update), and deliver or begin a command. `workers` are the commands
with a deadline, `strays` those whose worker died or gave up and that run on in
a process group of their own. An edit is two steps, read and write, as
`cli/automations.rs` and the form do it; a pass may fail to start its command
(`BeginFails`). Time is a counter: a slot is a time, `Slots` the schedule, and
`NextAfter` is strict.

### SessionSync and the code

`row` is the session's row (its pane and `deleted_at`), `panes` the windows of
its name. Per instance: what its list holds (`mem`: absent, a placeholder, or the
pane), its undo, its snapshot, whether `data_version` moved, what a poll or a
start found and did not act on yet (`job`), its restore list. `Saved` is
`save_state`, which writes the whole list after any change, `deleted_at = NULL`
included.

A poll compares, looks for the window, and adopts it or launches one; each of
these may fail, and each failure is the code's own. A server that does not answer
has no windows (`Found`), so the poll goes on to launch. An adoption that fails is
logged, a launch that fails is shown (`AdoptFails`, `SpawnFails`), and since the
snapshot has the row by then, the session is `Missed` until its row goes or
another start. A start reads the snapshot and the rows separately, so one may be
older than the other (`"reads"`), attaches to what it finds or falls back to a
ghost, or without lazy restore to a launch, and ends in a `save_state` of all it
restored (`Claim`), which brings back a row that was deleted since it was read.
That save comes only when there was a row: `load_persisted_state_from_db` gives
`restore_sessions` nothing to restore otherwise.

The command line opens the window first and writes the row after, in two steps
(`CliOpen`, `CliRecord`); between them it may die, or be refused the row and take
the window back (`CliStops`). A forced delete and a restart have two steps as well.
The row it writes has no pane: a local launch leaves `backend_id` empty.

`Faults` says which of these a run has, `TuiOps` and `CliOps` what users do.

### Egress and the code

`slot` and `pending` are the supervisor's committed and prepared instance of the
session, `agent` the pane and what its agent was told, `launch` and `child` the
ordinary and the gated launch under way, `mem` and `row` the state and the
endpoint and token in the list and in the database. `Compose`, `KillOld`,
`OpenPane`, `Finish` are `spawn_inner` and `restart`, in their order; `BeginGated`
to `ReleaseGate` the saga's. `Start`, `Adopt` and `Rebind` are a friring that
finds the agent running and has to listen where the agent was told to look.

## Runs

`c`, `r`, `s` are the create, resume and stop keys of a run. States are distinct
states; times are for two workers.

| run | bounds | what it asks | states, time |
|---|---|---|---|
| `core` | 1 c, 2 r, 1 s; nudges may go unanswered | `TypeOK`, `AcceptedIsCarried` | 1.22 M, 40 s |
| `crash` | 1 c, 1 r, 1 s; one crash, the multiplexer may die, writes may fail, nudges may go unanswered | `AcceptedIsCarried`, `VerdictIsTrue`, `AgentHasRows`, `OneAgentPerWorktree`, `AgentKeepsItsWorktree`, `AnswerIsFinal`, `EndedStaysEnded` | 2.18 M, 60 s |
| `slots` | 2 c, 1 r, 1 s; one slot | `SlotCap`, `StopMeansStopped` | 1.97 M, 70 s |
| `live` | 1 c, 1 r, 1 s; one crash, kills and verdict writes may fail; fair | `AcceptedIsAnswered` | 461,895, 100 s |
| `worktree` | 2 launches, 2 branches, 2 directories or one, 2 processes, one crash | `TypeOK`, `ChildHasItsWorktree`, `NothingLeaks`, `WorkIsKept`, `OnlyItsOwn` | 1.73 M, 70 s |
| `queue` | 1 immediate and 1 deferred key, 2 bodies, 2 processes, 2 requests, one crash | `TypeOK`, `ResponseIsTheRecord`, the refinement `QueueIsExactlyOnce` | 2.31 M, 80 s |
| `queue_live` | one process that dies twice; fair | `RequestsAreAnswered`, `TakenIsAnswered` | 66,899, 15 s |
| `mail` | an owner and a child, one process, mailboxes of 2, one record kept, 2 messages, 2 moves; fair | `TypeOK`, `OwedIsScheduled`, `StallIsEarned`, `MailIsAnnounced` | 388,172, 2 min |
| `automations` | a friring and a ticker, 2 slots, one edit and one crash, clock to 6; fair | `TypeOK`, `AtMostOncePerSlot`, `NoOverlap`, `RunsAreClosed` | 775,095, 2 min |
| `sync` | 2 instances, every command, every fault, 5 operations, 3 launches | `TypeOK`, `PaneIsKept` | 2.57 M, 85 s |
| `sync_live` | 2 instances that save, quit, crash and start, every command of the command line, every fault but `"reads"`, 8 operations; fair | `Converges`, `Settles` | 259,291, 30 s |
| `egress` | 2 endpoints, 6 launches, ordinary and child, crashes outside a launch | `TypeOK`, `RunningIsServed`, `BoundaryIsKept`, `TokenFollowsAgent`, `GateIsFiltered`, `NothingIsLeft` | 20,585, 1 s |

Deadlock is not checked, because each of these systems may really stop: its keys,
launches or operations are used up and its agents gone. Every property of a run
is also run against a mutated definition and found violated there: the mutants
stand beside what they mutate, each marked.

**Why the bounds are enough.**

* *Children.* Keys are used once, so a run is finite. All the lifecycle's branches
  are about one child; two resumes and a stop of it give every kind of request
  that can join one job, wait behind a launch or follow another, and the nudges
  of `core` let a stall come in the middle of a relaunch. The only things
  children share are the slot count and the number of jobs, for which `slots`
  has two creates and a resume for one slot.
* *Worktrees.* Launches meet only in a branch or a directory, and `Init` takes
  every way two launches can name them: one branch, two branches on one
  directory, two apart. A third party is the ordinary session. One crash puts a
  recovery, and a copy of a row, beside everything else.
* *Queue.* A key meets itself (again, with another body, after its answer) and
  the one the same process is serving; two processes and one crash give the
  hand-over.
* *Mail.* Two recipients are enough for one to stand before the other in line
  and for the table of records to overflow (one record is kept).
* *Automations.* Two slots give a claim, a missed slot and an overlap; the clock
  runs past the last deadline and its grace.
* *Sessions.* A third instance adds only one more that follows; five operations
  are a deletion, an undo or a restore, and whatever two others do meanwhile.
  A third launch is needed for a window beside one that was opened beside another.
* *Egress.* Six launches let a restart fail, succeed and be found again twice.

**What the passing runs do not claim.** `crash` has kills that succeed and
identity queries that are answered, and one resume; `slots` has no crash and no nudges; `queue`
excepts processes that run side by side and `queue_live` answers that are too
large; `automations` has edits that nothing comes between and timeouts that
stay; `sync_live` has no user who creates or deletes in an instance (below), and no run
has `OneAgent`, which is a theorem about one instance; `worktree` has kills that succeed,
processes that die outside a reclaim, one recovery at a time, and sessions and
operators that keep off a launch that is not over. What each of these
adds is shown by a configuration of its own, below.

**Fairness.** Where a run is about liveness, only friring's own steps are fair.
`ChildLifecycle`: the tick advances every job each time it comes round, and each
step has a timeout after which it fails, so `Advance(c)` is always enabled for a
job; `Start` and `Recover`, since `live` is about a friring that is started
again. `BridgeQueue`: somebody starts friring; a pass reaches every waiting and
every staged request, because it lists the directory; jobs end, which is what
`live` shows. `BridgeMail`: the tick of the nudges, the slow pass, and the
interval that elapses. `Automations`: the clock, the passes, an edit that is
written once read, and a command that ends or is killed at its deadline.
`SessionSync`: the poll of a tick and what it does about what it found, where a
failure is an outcome like the others. Nothing else is fair: no
worker, agent, user, multiplexer or client has to move.

## Configurations that fail, and why

These are kept beside the runs and are started by hand. But for
`MCSessionSync_one` and `MCSessionSync_join`, named below, each fails: the code does
something that a comment, a document or its own naming says it does not; the
trace TLC prints is the explanation.

| configuration | property | what happens |
|---|---|---|
| `MCChild_v_saga` | `SagaIsFinalized` | recovery skips a saga whose lease is alive and runs once, so a restart within eleven minutes strands the launch, and its slot |
| `MCChild_v_dirty` | `DirtyCanBeStopped` | the quiesce that finds a child dirty kills its pane and keeps its entry; the next stop cannot identify the pane and ends `stop_failed` |
| `MCChild_v_restart` (`-continue`) | `StartingIsDriven` | a resume that crashes before S6 leaves its child `starting`: not resumable, no job, one slot |
| the same | `StopMeansStopped` | recovery makes a child `unusable` and leaves its agent running; a stop then says it is stopped |
| `MCChild_v_slot` | `SlotCap` | the `result` of such a child makes it live without asking for capacity |
| `MCChild_v_terminal` | `TerminalUntilResumed` | the stall report of a child that ended meanwhile makes it live; `EndedStaysEnded` excepts it |
| `MCChild_v_agents` | `OneAgentPerWorktree` | an identity query that fails once during a resume is taken for "nothing left to stop" |
| `MCWorktreeClaim_v_attach` | `OnlyItsOwn` | "no other process could have checked out a ref that did not exist before this one atomically created it" (git/mod.rs:850): an ordinary session checks it out between `git branch` and the unwind, which removes its worktree |
| `MCWorktreeClaim_v_unwind` | `ChildHasItsWorktree` | a launch fails after S6 and its process dies between `git worktree remove` and `failed`; recovery finds a committed saga and adopts a child without a directory |
| `MCWorktreeClaim_v_kill` | `WorkIsKept` | the kill of an unwind fails unseen; the agent edits between `verify_worktree` and `git worktree remove --force` |
| `MCWorktreeClaim_v_tidy` | `OnlyItsOwn` | the operator removes what a dead launch left and uses the name again; a later recovery reclaims by name |
| `MCWorktreeClaim_v_together` | `OnlyItsOwn` | two processes recover one saga at a time, since neither takes its lease; the slower reclaims the name after it was used again |
| `MCBridgeQueue_v_large` | `TakenIsAnswered` | an answer above the cap is refused by `write_bridge_response`, and the staged request is gone |
| `MCBridgeQueue_v_denied` | `AbandonedWasNotCarriedOut` | "so it was not carried out" (bridge_saga.rs:1628): it was, the crash came before its answer |
| `MCBridgeQueue_v_peer` | `AnswerIsFinal` | a starting friring writes `refused` over the `ok` of a request that a living one carried out after the sweep had read it |
| `MCBridgeMail_v_stall` | `StallIsEarned` | with two instances the call that one of them serves does not clear the other's count (SANDBOX.md:2074) |
| `MCBridgeMail_v_nowake` | `NudgedForBridgeMail` | the reminder owed for mail that has been read meanwhile is typed for mail sent with `--no-wake` after it (FEATURES.md:3629) |
| `MCBridgeMail_v_quiet` | `ResumedIsReminded` | "a resume should find the reminder" (bridge.rs:1286): the used-up count outlives the resume |
| `MCAutomations_v_overlap` | `ReapedIsDead` | an edit that shortens the timeout, or a removal between claim and fire, lets the reaper close a row whose worker lives (app/automation.rs:33) |
| `MCAutomations_v_twice` | `AtMostOncePerSlot` | an edit read before a claim and written after it puts the claimed slot back (FEATURES.md:1814) |
| `MCAutomations_v_outlive` | `NothingOutlivesItsRun` | a worker that dies with its process leaves the command, whose row is closed (session_ops/mod.rs:349) |
| `MCSessionSync_v_late` (`-continue`) | `RestoredSurvivesExpiry` | the undo of one instance runs out after another adopted the session and wrote it back, and kills the shared pane (app/mod.rs:3230) |
| the same | `DeletionsStick` | a routine save writes the row back before the poll that would have dropped it (ARCHITECTURE.md:757) |
| the same | `TeardownSparesRestored` | the background teardown of a hard delete takes a window by name that a restore opened |
| `MCSessionSync_v_twin` | `OneAgent` | two instances find a row that has no window (restored, or half deleted) and each launches its agent |
| `MCSessionSync_v_discover` | `OneAgent` | "we must NOT fall through to spawn" (app/mod.rs:8217): a server that does not list its windows reads as one that has none (8198), and the poll launches beside the window of the command line |
| `MCSessionSync_v_converge` | `Converges` | a session that is deleted outside before the first poll of the instance that created it was never in that snapshot, so it stays listed |
| `MCEgress_v_record` | `ServedIsActive` | `spawn_inner` asks the supervisor (backend.rs:1202) before `Session::spawn` commits, so a first launch is recorded `preparing`; SANDBOX.md:2480 says `active` |
| `MCEgress_v_lost` | `RunningIsServed` | a crash between a pane and its record loses endpoint and token |
| `MCEgress_v_record` (`-continue`) | `UnfilteredHasNone` | a relaunch without a proxy that fails leaves its pane and the record of an earlier launch; whoever adopts the pane listens for that record |

`OneAgent` is the property with the most exceptions, and no run has it.
`MCSessionSync_one` passes (13,086 states): one instance creates, deletes,
hard-deletes, restarts, unloads, saves, quits, crashes and starts, the command
line creates, deletes, forces and restores, launches fail. That is the theorem
`SessionHasOneAgent` on a small instance. What it leaves out breaks the property;
each needs one element added to the configuration:

* `"undo"` in `TuiOps`: a delete, a restore and a delete from the command line
  leave a placeholder in the undo and a live window; undone and restarted, the
  placeholder is launched beside it.
* `"restore"` in `TuiOps`: a friring that dies during an undo leaves the window;
  restored by hand, the session gets a second.
* `"restart"` in `CliOps`: two restarts, each of which kills, then opens.
* `"discover"` in `Faults`: as `MCSessionSync_v_discover`.
* `"adopt"`: without lazy restore a start launches beside the window it could not
  take over; with it, the ghost it leaves is launched by a restart.
  Polls, which must not fall through, keep to the one window:
  `MCSessionSync_join` passes, too, with three instances that
  come and go, adoptions that fail, and the command line (67,368 states).
* `"die"`: a `create` that dies before its row leaves a window nobody knows of,
  and the next one opens another.
* a second instance: its poll falls between the kill and the launch of a restart.

`Converges` fails with `"reads"`, too: a row deleted between the snapshot of a
start and the rows it restores from is one the first poll does not see go.
`EndedStaysEnded` fails with two crashes or two resumes: a second start finds a
saga that the first left leased, and a `resume` that timed out before its pane
opened leaves a gated one of the same name, which a start attaches the ended
child to, old `result` in the queue included.

Two more were met on the way and have no configuration. SANDBOX.md:2194 says a
child found not running after a restart is relaunched once, and
`adopt_recovered_child` marks it `stalled` for its owner to resume. And with two
crashes `AnswerIsFinal` fails: a create whose saga is still leased is refused as
abandoned by one start and answered `ok` by the next, since
`finish_bridge_request` updates whatever is there; `crash` checks it for one.

## Proofs

Each `*_proofs` module is about the module it is named after, for any sets of
keys, sessions or processes, any bounds and any choice of what may fail, unless a
theorem says otherwise: each of its assumptions is named, holds of the run that
checks the property, and is dropped by a configuration in the list above, which
shows what happens without it. The runs and the theorems use the same definitions.

| theorem | says | assumes, and the configuration without it |
|---|---|---|
| `ChildLifecycle`: `TypeCorrect` | `[]TypeOK` | |
| `RequestsAreCarried` | `[]AcceptedIsCarried` | |
| `AnswersAreFinal` | `AnswerIsFinal` | `MaxCrashes <= 1`; the counterexample just told |
| `ChildAgents_proofs`: `OneAgent`, `AgentsHaveRows`, `AgentsKeepWorktrees`, `VerdictsAreTrue` | `[]OneAgentPerWorktree`, `[]AgentHasRows`, `[]AgentKeepsItsWorktree`, `[]VerdictIsTrue` | `KillsWork`: a pane that is to be killed is, and a pane that is asked about is named; `v_agents` |
| `SlotsAreCapped` | `[]SlotCap` | `OneLife`: no crash, and agents answer their nudges; `v_slot`, `v_terminal` |
| `EndedIsOver` | `EndedStaysEnded` | no crash, and agents that answer their nudges or not; two crashes, as told above |
| `StopsStop` | `StopMeansStopped` | `KillsWork` and no crash; `v_restart` |
| `BridgeQueue`: `QueueTypeCorrect` | `[]TypeOK` | |
| `ResponsesAreTheRecord` | `[]ResponseIsTheRecord` | |
| `QueueRefines` | `QueueIsExactlyOnce`: it implements `ExactlyOnce` | |
| `NothingTakenIsDropped` | `TakenIsAnswered` | `AnswersFit`: no answer above the cap; `v_large` |
| `BridgeMail`: `MailTypeCorrect` | `[]TypeOK` | |
| `OwedStandsInLine` | `[]OwedIsScheduled` | |
| `StallsAreEarned` | `StallIsEarned` | `OneProcess`; `v_stall` |
| `Automations`: `AutomationTypeCorrect` | `[]TypeOK` | |
| `CommandsDoNotOverlap` | `[]NoOverlap` | `TimeoutsChange = FALSE`; `v_overlap` |
| `ClaimedAtMostOnce` | `[]AtMostOncePerSlot` | `EditsRace = FALSE`; `v_twice` |
| `SessionSync`: `SyncTypeCorrect` | `[]TypeOK` | |
| `RecordedPaneIsKept` | `PaneIsKept` | |
| `SessionHasOneAgent` | `[]OneAgent` | `OneFriring`: what `MCSessionSync_one` has, with any number of operations and launches, lazy restore or not; `v_twin`, `v_discover` and the list above |
| `Egress`: `EgressTypeCorrect` | `[]TypeOK` | |
| `NothingIsLeftOver` | `[]NothingIsLeft` | |
| `BoundaryStays`, `TokenIsAgents`, `GateWaits` | `BoundaryIsKept`, `TokenFollowsAgent`, `GateIsFiltered` | |
| `RunningServed` | `[]RunningIsServed` | `CrashInLaunch = FALSE`; `v_lost` |
| `WorktreeClaim`: `ClaimTypeCorrect` | `[]TypeOK` | |
| `ChildKeepsWorktree`, `FailureLeavesWork` | `[]ChildHasItsWorktree`, `[]NothingLeaks` | `OneAtATime`; the five `MCWorktreeClaim_v_*` |
| `ReclaimKeepsWork`, `ReclaimTakesItsOwn` | `WorkIsKept`, `OnlyItsOwn` | `OneAtATime` |

Few of these invariants are inductive as they stand. What makes them so:

* *`ChildLifecycle`.* `TypeOK` is, because the type of a job says which fields
  each kind may carry: a quiesce job holds no launch key and no stop behind it,
  an idle one holds nothing. `AcceptedIsCarried` is not: `BeginCreate` installs a
  job without looking whether the child had one. With `NoTrace` it is: a child
  whose `create` the journal does not know has no entry, job, state, row, nudge
  record or saga. A step that moves a job keeps what it carries
  (`SameCarriers`), a step that accepts puts the key into a job
  (`AcceptCarries`), a launch that ends hands over what it held or answers it
  (`EndLaunchCarries`), and recovery ends by answering what nobody carries.
* *The agents of `ChildLifecycle`.* The four properties are about a pane that
  runs, and none of them is inductive: the gate of S8 makes a pane run that
  nothing was asked of before. `AgentInv` says for each child what its job, its
  launches, its rows and its worktree know of one another. While a launch is
  before S6 no agent of the child runs at all, and from S6 on the row names this
  launch (`LaunchAgrees`); workers that are late open a pane only while their
  job waits for it (`WorkerAgrees`); an agent that runs is in the pane the row
  names, and the list has it (`RunnersAgree`), so whoever has to stop it can:
  the unwind, the resume and the quiesce; a quiesce that verifies finds nobody
  running (`QuiesceAgrees`), and nobody starts again while the verdict stands
  (`VerdictAgrees`). A worktree reclaimed from a child that has a row is the
  hardest part (`LostIsOver`): this child is over for good, was launched once,
  and no pane of it will ever be opened. A step is about one child and its
  launches (`SameChild`, `SameLaunch`, `LaunchOf`), and a crash about all.
* *The answers of `ChildLifecycle`.* Every step that answers a key answers one
  that a job holds, so `HeldInv` is about those: they are `accepted`, no other
  job holds them, and the process that starts holds none. It holds whatever
  crashes. Recovery answers keys that nobody holds, those of the launches it finds
  unfinished: the first one finds them `accepted`, the second may not.
* *The slots of `ChildLifecycle`.* `LiveInv`: whatever is done for a child, a
  launch, a quiesce or a nudge, is done for one that holds a slot. So a step can
  only keep the set of holders, take one out, or, where a request was admitted
  against the count, put one in (`KeepsSlots`, `GivesSlot`), and `CapInv` bounds its
  cardinality. It is also why, in one life, nothing but a resume or a stall
  report moves a child that has none: reports may come at any time
  (`EndedIsOver` does not assume `NudgesGiveUp = FALSE`), and `LiveInv` survives them.
  `StopsStop` puts the three together: the stop that is answered was in the job
  of the child it asked about (`HeldInv`), and when that job ends no agent of
  the child runs (`AgentInv`).
* *`BridgeQueue`.* `QueueInv`: what a hand accepted and has not carried out had no
  effect and is in no other hand and no job (`AcceptedOnce`); whoever is going to
  answer a key finds its row open, or has company (`CarriedIsOpen`); and while
  there was no company, an accepted immediate request is in a hand or known to
  the process that starts (`AcceptedIsHeld`), which is what lets a client trust
  the response file. The refinement maps the row of the journal to the reply: a
  step is one of `ExactlyOnce` where it answers a row or carries a request out,
  a stutter elsewhere.
* *`BridgeMail`.* `MailInv`: a reminder is owed *exactly* to those that stand in
  one of the process's two lines, once. The converse of `OwedIsScheduled` is what
  makes it inductive: a recipient put in a line was not there before, and a
  recipient a tick takes from the head has a record. `CountInv` adds that the
  count of the one process is at most what was typed since the recipient's last
  call.
* *`Automations`.* `OverlapInv`: whoever is about to act knows the timeout the row
  has, and a worker's row is `running` and too young for the reaper, whose grace
  is longer than the worker outlives its deadline. `ClaimInv`: what is claimed is
  past, what the row is due at was never claimed, and a pass that read what the
  row still says has seen every claim, so its conditional update fails otherwise.
* *`SessionSync`.* `SyncInv`: what an instance still has to do is for a session
  it does not list, and nothing is held of a session that never was. For the one
  agent, `AgentInv`: nobody opens a window where the name has one. A poll or a
  restart that is about to launch found none or killed it, what a start found is
  all there is, and a placeholder stands for no window (`Fits`), through every
  kill by pane or by name; a `create` between its two steps is the only one who
  has a window without a row (`OpensFirst`).
* *`Egress`.* `EgressInv` ties the four places a launch writes, the supervisor's
  two slots, the pane, the list and the row, at every step of a launch;
  `RunningIsServed` needs in addition what a start finds.
* *`WorktreeClaim`.* `ClaimInv`: what git has of a launch agrees with the step
  its process is at (`StepsAgree`), a branch cut under a launch's name is its
  own until its saga is over (`ClaimIsOwn`), a reclaim is of a launch nobody
  drives and what it verified is still so (`ReclaimIsSafe`), and what recovery
  found is unfinished (`FoundIsTrue`). Each of the five switches of `OneAtATime`
  breaks one of these.

The proofs rest on the named assumptions of the modules (`ASSUME`), which say
that constants are sets, naturals or Booleans and that names are distinct. For
them two definitions were written so that they can be reasoned about: the type of
a record of what was performed or mailed is a sequence, not one up to a bound,
and `Reconcile` says which orders of a line may be left (`Left`) where it filtered
it recursively.

Every invariant and every action property that a run checks is a theorem.
Model-checked only: the liveness properties (`AcceptedIsAnswered`,
`RequestsAreAnswered`, `MailIsAnnounced`, `RunsAreClosed`, `Converges`,
`Settles`), since liveness under fairness and `ENABLED` are out of the prover's
reach.

## Not modelled

* *Of the modelled parts*: cascade delete, overlays and per-session directories of
  children; a second instance's recovery against the jobs of the first beyond
  what `WorktreeClaim` and `BridgeQueue` have of it; the pruning of the journal;
  the directory of a child's queue when the child is resumed and requests of its
  earlier life wait there; a request staged for more than a day, which
  `recover_taken_requests` removes without an answer, though the comment of
  `TAKING_MAX_AGE` says it is answered `expired`; how a hook's report is told from one of an earlier
  launch (`ready_proof` compares timestamps, here a report belongs to its
  launch); wake debts of ordinary messages (`retry_deferred_wakes`); remote hosts
  and their mirrors; two friring processes with one egress record; a read of the
  database that fails, in a poll after it took the new `data_version`
  (sync/mod.rs:140): the change waits for the next commit.
* *Tasks*: each change of a task is one SQL statement, with nothing in between.
* *Proxy decisions, policies, parsers* (`proxy/policy.rs`, `usage/`, `activity/`):
  pure functions of their input, without state; their tests enumerate them.
* *User interface, command line parsing, rendering, settings, extensions,
  scripts, packaging*: presentation and text, which is most of the repository's
  lines: `app/` is 100,000 lines, of which the handlers that move a session, a
  job or a message are a few thousand; tests are as long as the code.
* *tmux, git, SQLite, the kernel's sandboxes*: external. Their answers are what
  the code can get: yes, no, an error, or nothing.

## Plan

1. `ChildStates`, `ChildLifecycle`, their proofs: done.
2. `BridgeQueue` with `ExactlyOnce`, `BridgeMail`, `WorktreeClaim`: done.
3. `Automations`, `SessionSync`, `Egress`: done.
4. The type invariants, the safety invariants and the action properties of all
   of these, and the refinement of `ExactlyOnce`, as theorems: done.
5. A lifecycle with two processes: leases, and capacity read and claimed.

A configuration that fails and whose disagreement is settled in the code turns
into a property of a run.

## Running

    tlc -workers 2 -config MCChild_crash.cfg MCChildLifecycle
    tlc -workers 2 -config MCWorktreeClaim.cfg WorktreeClaim
    tlapm ChildAgents_proofs.tla

`MCChild_*` belong to `MCChildLifecycle`, `MC<Module>*` to their module. Each
`*_proofs` module takes some minutes from nothing.
