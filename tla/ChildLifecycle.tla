--------------------------- MODULE ChildLifecycle ---------------------------
(***************************************************************************)
(* The life cycle of bridge children as one friring process drives it: the *)
(* create saga S1..S9, `stop' and its quiesce, `resume', the child's own   *)
(* `result', and what a restarted process makes of what it finds           *)
(* (app/bridge_spawn.rs, app/bridge_saga.rs, storage/bridge.rs).           *)
(*                                                                         *)
(* One owner.  Tick-driven handlers of the process are atomic; the workers *)
(* it hands work to, the agents in their panes, the multiplexer and        *)
(* crashes interleave with them freely.  A child is named by the key of    *)
(* the `create' that made it.  Time is abstracted: a timeout may fire      *)
(* whenever the step it bounds is waiting.                                 *)
(***************************************************************************)
EXTENDS Naturals, FiniteSets, ChildStates

CONSTANTS
    CreateKeys,   \* request keys of `create', one possible child each
    ResumeKeys,   \* request keys of `resume'
    StopKeys,     \* request keys of `stop'
    NoKey,        \* not a key
    MaxChildren,  \* the owner profile's max_children
    MaxJobs,      \* MAX_CONCURRENT_JOBS
    MaxCrashes,   \* bound: how often the process dies
    KillMayFail,  \* the multiplexer may refuse to kill a pane
    QueryMayFail, \* the multiplexer may not say which pane it is asked about
    MuxMayDie,    \* the multiplexer server may die with every pane in it
    WriteMayFail, \* the database may refuse a verdict
    NudgesGiveUp  \* agents may leave nudges unanswered

Children   == CreateKeys
LaunchKeys == CreateKeys \cup ResumeKeys
Keys       == LaunchKeys \cup StopKeys

ASSUME KeysAssumption ==
    /\ CreateKeys \cap ResumeKeys = {}
    /\ LaunchKeys \cap StopKeys = {}
    /\ NoKey \notin Keys
ASSUME BoundsAssumption ==
    /\ MaxChildren \in Nat /\ MaxJobs \in Nat /\ MaxCrashes \in Nat
    /\ {KillMayFail, QueryMayFail, MuxMayDie, WriteMayFail, NudgesGiveUp} \subseteq BOOLEAN

VARIABLES
    \* --- this process, lost with it ---
    phase,    \* "down", "recovering" (before the broker serves) or "serving"
    entry,    \* child |-> what its entry in the session list is
    jobs,     \* child |-> the lifecycle job driving it
    workers,  \* <<kind, launch key>>: blocking work in flight
    overdue,  \* children whose nudges reached the unanswered allowance
    crashes,  \* how often the process has died (bound)
    \* --- the database ---
    journal,  \* key |-> bridge_requests.state
    saga,     \* launch key |-> child_sagas row
    cstate,   \* child |-> bridge_child_state, "none" before S6
    row,      \* child |-> the launch whose pane the session row names
    hook,     \* child |-> the launch whose hook report is on record
    result,   \* child |-> bridge_results row
    \* --- the host ---
    pane,     \* launch key |-> the pane that launch opened
    wt,       \* child |-> its worktree
    outbox,   \* child |-> a `result' request file nobody has taken yet
    \* --- history ---
    said,     \* child |-> the outcomes its agents ever reported
    asked     \* stop key |-> the child it names

processVars == <<phase, entry, jobs, workers, overdue, crashes>>
storeVars   == <<journal, saga, cstate, row, hook, result>>
hostVars    == <<pane, wt, outbox, said, asked>>
vars        == <<processVars, storeVars, hostVars>>

-----------------------------------------------------------------------------
(* Records *)

NoSaga == [step |-> "none", child |-> NoKey, claimed |-> FALSE, mux |-> FALSE,
           outcome |-> "none", leased |-> FALSE]

Sagas == [step : SagaSteps \cup {"none"},  \* "none": no row under this key
          child : Children \cup {NoKey},
          claimed : BOOLEAN,               \* branch_claimed
          mux : BOOLEAN,                   \* the pane's identity is recorded
          outcome : Outcomes \cup {"none"},\* finish_outcome, held mid-launch
          leased : BOOLEAN]                \* lease_until is in the future

NewSaga(child) == [NoSaga EXCEPT !.step = "named", !.child = child, !.leased = TRUE]

LaunchSteps == {"named", "worktree_running", "worktree", "dirs", "pane_running",
                "pane", "committed", "egress_live", "released"}
QuiesceSteps == {"grace", "acked", "verify_running"}

\* What the tick drives for a child: nothing, a launch, or a quiesce.
Idle == [goal |-> "none", step |-> "none", key |-> NoKey, keys |-> {}, stops |-> {},
         intent |-> "none", first |-> FALSE, outcome |-> "none", clean |-> "none",
         res |-> "none"]

LaunchJobs ==
    [goal : {"create", "resume"}, step : LaunchSteps,
     key : LaunchKeys,                  \* the launch being driven
     keys : SUBSET LaunchKeys,          \* key and waiters
     stops : SUBSET StopKeys,           \* follow_up.stop_keys
     intent : Outcomes \cup {"none"},   \* follow_up.intent
     first : BOOLEAN,                   \* follow_up.intent_first
     outcome : {"none"}, clean : {"none"},
     res : {"none", "ok", "err", "err_owned"}]

QuiesceJobs ==
    [goal : {"stop", "finish"}, step : QuiesceSteps,
     key : {NoKey}, keys : SUBSET StopKeys,
     stops : {{}}, intent : {"none"}, first : {FALSE},
     outcome : Outcomes,                \* the intent being carried out
     clean : TerminalStates,            \* its clean_state
     res : {"none", "clean", "dirty"}]

Jobs == {Idle} \cup LaunchJobs \cup QuiesceJobs

LaunchJob(goal, k) ==
    [Idle EXCEPT !.goal = goal, !.step = "named", !.key = k, !.keys = {k}]

\* A stop waits out the grace period first; its verdict is `stopped' whatever
\* the child says on its way out.
StopJob(keys) ==
    [Idle EXCEPT !.goal = "stop", !.step = "grace", !.keys = keys,
                 !.outcome = "failed", !.clean = "stopped"]

FinishJob(outcome, keys) ==
    [Idle EXCEPT !.goal = "finish", !.step = "acked", !.keys = keys,
                 !.outcome = outcome, !.clean = TerminalState(outcome)]

Results == [outcome : Outcomes, dirty : BOOLEAN]
NoResult == [outcome |-> "none", dirty |-> FALSE]

-----------------------------------------------------------------------------
(* What the handlers read *)

Owned(c)      == cstate[c] # "none"
Busy(c)       == jobs[c].goal # "none"
Launching(c)  == jobs[c].goal \in {"create", "resume"}
Quiescing(c)  == jobs[c].goal \in {"stop", "finish"}
RoomForAJob   == Cardinality({c \in Children : Busy(c)}) < MaxJobs

AgentAlive(k) == pane[k] \in {"gated", "running"}

\* Session::revalidate_identity: the entry is attached to the pane the row
\* names and the multiplexer still knows that pane.  A pane whose process has
\* exited stays (remain-on-exit); a ghost entry names no pane at all.
Revalidates(c) == entry[c] = "live" /\ pane[row[c]] # "none"

\* An entry whose request queue the broker polls (not a placeholder).
Served(c) == entry[c] \in {"live", "foreign"}

\* Mutant: launches that have not committed a child yet are not counted.
LiveSlots == Cardinality({c \in Children : cstate[c] \in LiveStates})

\* Slots consumed: children in a live state, and launches that promised one.
ReservedSlots ==
    Cardinality({c \in Children : cstate[c] \in LiveStates})
    + Cardinality({k \in LaunchKeys : /\ saga[k].step \in PendingSteps
                                      /\ cstate[saga[k].child] = "none"})

Unfinished(k) == saga[k].step \in PendingSteps \cup CommittedSteps
Launches(c)   == {k \in LaunchKeys : saga[k].child = c}

\* Two launches of a child share a window name iff both or neither of them is
\* a resume: a resume names its session after the child's id.
SameWindow(j, k) == (j \in CreateKeys) = (k \in CreateKeys)

-----------------------------------------------------------------------------
(* What the handlers do *)

Answered(keys, a) == [k \in Keys |-> IF k \in keys THEN a ELSE journal[k]]

\* kill_checked, and kill_recorded_pane, which asks what the pane is first.
\* A caller that does not look at the answer cannot tell that it stayed.
Kill(k)      == pane' = [pane EXCEPT ![k] = "none"]
TryKill(k)   == Kill(k) \/ ((KillMayFail \/ QueryMayFail) /\ pane' = pane)

\* record_saga: every write renews the lease.
Record(k, s) == saga' = [saga EXCEPT ![k].step = s, ![k].leased = TRUE]

Move(c, s)   == jobs' = [jobs EXCEPT ![c].step = s, ![c].res = "none"]

\* Mutant: a held finish intent displaces the stops held beside it.
HeldJobDropsStops(c, s) ==
    LET j == jobs[c]
    IN  IF s \notin LiveStates THEN Idle
        ELSE IF j.intent # "none" THEN FinishJob(j.intent, {})
        ELSE IF j.stops = {} THEN Idle
        ELSE StopJob(j.stops)

\* The job a finished launch leaves behind: what was held while it ran.
\* `s' is the state the launch left the child in.
HeldJob(c, s) ==
    LET j == jobs[c]
    IN  IF s \notin LiveStates THEN Idle
        ELSE IF j.intent # "none" /\ (j.first \/ j.stops = {})
             THEN FinishJob(j.intent, j.stops)
        ELSE IF j.stops = {} THEN Idle
        ELSE [StopJob(j.stops) EXCEPT !.step = IF j.intent = "none" THEN "grace" ELSE "acked"]

\* A launch ends: its own keys are answered `a', then what it held is carried
\* out, or answered from the state on record when there is nothing to stop.
EndLaunch(c, s, a) ==
    LET next  == HeldJob(c, s)
        stops == IF s \in LiveStates THEN {} ELSE jobs[c].stops
    IN  /\ jobs' = [jobs EXCEPT ![c] = next]
        /\ cstate' = [cstate EXCEPT ![c] = IF next.step = "acked" THEN "finishing" ELSE s]
        /\ journal' = [k \in Keys |->
                          IF k \in jobs[c].keys THEN a
                          ELSE IF k \in stops THEN (IF s = "none" THEN "refused" ELSE "ok")
                          ELSE journal[k]]

\* A worktree a failed launch may have made: removed only when it is this
\* saga's and carries no uncommitted work.
Reclaim(c, mine) ==
    wt' = [wt EXCEPT ![c] = IF mine /\ @ = "clean" THEN "absent" ELSE @]

EndQuiesce(c, a) ==
    /\ jobs' = [jobs EXCEPT ![c] = Idle]
    /\ journal' = Answered(jobs[c].keys, a)

-----------------------------------------------------------------------------
(* Owner requests, as the broker serves them *)

\* Mutant: only a key still in flight is recognised as a replay.
NotInFlight(k) == phase = "serving" /\ journal[k] # "accepted"

\* A key the journal has not seen; a replay of any other changes nothing.
Fresh(k) == phase = "serving" /\ journal[k] = "none"

Accept(k) == journal' = [journal EXCEPT ![k] = "accepted"]

\* Any verb refused before it has an effect: not authorized, a malformed body,
\* a check of validate_create, no slot or job left, a child that is not the
\* caller's or not resumable, an old pane that would not die.
RefuseRequest(k) ==
    /\ Fresh(k)
    /\ journal' = [journal EXCEPT ![k] = "refused"]
    /\ UNCHANGED <<processVars, saga, cstate, row, hook, result, hostVars>>

\* begin_create: the saga row is written, then the job pushed.
BeginCreate(c) ==
    /\ Fresh(c)
    /\ RoomForAJob
    /\ ReservedSlots < MaxChildren
    /\ Accept(c)
    /\ saga' = [saga EXCEPT ![c] = NewSaga(c)]
    /\ jobs' = [jobs EXCEPT ![c] = LaunchJob("create", c)]
    /\ UNCHANGED <<phase, entry, workers, overdue, crashes,
                   cstate, row, hook, result, hostVars>>

\* Mutant: a child still starting is reported stopped as well.
StopAnsweredWhileStarting(k, c) ==
    /\ Fresh(k) /\ Owned(c) /\ RoomForAJob
    /\ cstate[c] \in TerminalStates \cup {"starting"}
    /\ journal' = [journal EXCEPT ![k] = "ok"]
    /\ asked' = [asked EXCEPT ![k] = c]
    /\ UNCHANGED <<processVars, saga, cstate, row, hook, result, pane, wt, outbox, said>>

\* begin_stop on a child that reached a terminal state.
StopAnswered(k, c) ==
    /\ Fresh(k) /\ Owned(c) /\ RoomForAJob
    /\ cstate[c] \in TerminalStates
    /\ journal' = [journal EXCEPT ![k] = "ok"]
    /\ asked' = [asked EXCEPT ![k] = c]
    /\ UNCHANGED <<processVars, saga, cstate, row, hook, result, pane, wt, outbox, said>>

\* begin_stop while a job drives the child: a quiesce answers this key too, a
\* launch holds it until it ends.
StopJoins(k, c) ==
    /\ Fresh(k) /\ Owned(c) /\ RoomForAJob
    /\ cstate[c] \notin TerminalStates
    /\ \/ Quiescing(c) /\ jobs' = [jobs EXCEPT ![c].keys = @ \cup {k}]
       \/ Launching(c) /\ jobs' = [jobs EXCEPT ![c].stops = @ \cup {k}]
    /\ Accept(k)
    /\ asked' = [asked EXCEPT ![k] = c]
    /\ UNCHANGED <<phase, entry, workers, overdue, crashes,
                   saga, cstate, row, hook, result, pane, wt, outbox, said>>

\* begin_stop on an idle child: push_stop_job.
BeginStop(k, c) ==
    /\ Fresh(k) /\ Owned(c) /\ RoomForAJob
    /\ cstate[c] \notin TerminalStates
    /\ ~Busy(c)
    /\ Accept(k)
    /\ asked' = [asked EXCEPT ![k] = c]
    /\ jobs' = [jobs EXCEPT ![c] = StopJob({k})]
    /\ UNCHANGED <<phase, entry, workers, overdue, crashes,
                   saga, cstate, row, hook, result, pane, wt, outbox, said>>

\* begin_resume while a relaunch of the child is running.
ResumeJoins(k, c) ==
    /\ Fresh(k) /\ RoomForAJob
    /\ cstate[c] \in ResumableStates
    /\ jobs[c].goal = "resume"
    /\ Accept(k)
    /\ jobs' = [jobs EXCEPT ![c].keys = @ \cup {k}]
    /\ UNCHANGED <<phase, entry, workers, overdue, crashes,
                   saga, cstate, row, hook, result, hostVars>>

\* Mutant: the entry is retired, and its pane with it only in name.
RetireWithoutKill(c) ==
    /\ pane' = pane
    /\ entry' = [entry EXCEPT ![c] = "none"]

\* stop_resumed_child_pane: the recorded pane is killed when the multiplexer
\* says it is still that pane; whatever entry there was is retired.
RetireForResume(c) ==
    /\ \/ Revalidates(c) /\ Kill(row[c])
       \/ (~Revalidates(c) \/ QueryMayFail) /\ pane' = pane
    /\ entry' = [entry EXCEPT ![c] = "none"]

\* begin_resume: capacity for a child that released its slot, the old pane
\* stopped, then the saga and `starting' in one transaction.
BeginResume(k, c) ==
    /\ Fresh(k) /\ RoomForAJob
    /\ cstate[c] \in ResumableStates
    /\ ~Busy(c)
    /\ cstate[c] \in LiveStates \/ ReservedSlots < MaxChildren
    /\ RetireForResume(c)
    /\ Accept(k)
    /\ saga' = [saga EXCEPT ![k] = NewSaga(c)]
    /\ cstate' = [cstate EXCEPT ![c] = "starting"]
    /\ jobs' = [jobs EXCEPT ![c] = LaunchJob("resume", k)]
    /\ UNCHANGED <<phase, workers, overdue, crashes, row, hook, result,
                   wt, outbox, said, asked>>

-----------------------------------------------------------------------------
(* The launch saga, one handler per step *)

At(c, step) == phase = "serving" /\ jobs[c].step = step

\* S2.  The path is recorded, then a worker cuts the worktree.
StartWorktree(c) ==
    /\ At(c, "named")
    /\ jobs[c].goal = "create"
    /\ Record(jobs[c].key, "worktree")
    /\ workers' = workers \cup {<<"worktree", jobs[c].key>>}
    /\ Move(c, "worktree_running")
    /\ UNCHANGED <<phase, entry, overdue, crashes,
                   journal, cstate, row, hook, result, hostVars>>

\* S2 of a relaunch: the worktree is the child's own already.
ReuseWorktree(c) ==
    /\ At(c, "named")
    /\ jobs[c].goal = "resume"
    /\ Move(c, "worktree")
    /\ UNCHANGED <<phase, entry, workers, overdue, crashes, storeVars, hostVars>>

TakeWorktree(c) ==
    /\ At(c, "worktree_running") /\ jobs[c].res = "ok"
    /\ saga' = [saga EXCEPT ![jobs[c].key].claimed = TRUE, ![jobs[c].key].leased = TRUE]
    /\ Move(c, "worktree")
    /\ UNCHANGED <<phase, entry, workers, overdue, crashes,
                   journal, cstate, row, hook, result, hostVars>>

\* S3.
MintDirs(c) ==
    /\ At(c, "worktree")
    /\ Record(jobs[c].key, "dirs")
    /\ Move(c, "dirs")
    /\ UNCHANGED <<phase, entry, workers, overdue, crashes,
                   journal, cstate, row, hook, result, hostVars>>

\* S4 and S5.  The step is recorded, then a worker opens the gated pane.
StartPane(c) ==
    /\ At(c, "dirs")
    /\ Record(jobs[c].key, "pane")
    /\ workers' = workers \cup {<<"pane", jobs[c].key>>}
    /\ Move(c, "pane_running")
    /\ UNCHANGED <<phase, entry, overdue, crashes,
                   journal, cstate, row, hook, result, hostVars>>

TakePane(c) ==
    /\ At(c, "pane_running") /\ jobs[c].res = "ok"
    /\ saga' = [saga EXCEPT ![jobs[c].key].mux = TRUE, ![jobs[c].key].leased = TRUE]
    /\ Move(c, "pane")
    /\ UNCHANGED <<phase, entry, workers, overdue, crashes,
                   journal, cstate, row, hook, result, hostVars>>

\* S6.  Session row, ownership, `starting' and the saga's step, one
\* transaction; then the session enters the list in place of any other.
Commit(c) ==
    /\ At(c, "pane")
    /\ Record(jobs[c].key, "committed")
    /\ row' = [row EXCEPT ![c] = jobs[c].key]
    /\ cstate' = [cstate EXCEPT ![c] = "starting"]
    /\ entry' = [entry EXCEPT ![c] = "live"]
    /\ Move(c, "committed")
    /\ UNCHANGED <<phase, workers, overdue, crashes, journal, hook, result, hostVars>>

\* S7.  The egress supervisor acknowledged, or none was needed.
AwaitEgress(c) ==
    /\ At(c, "committed")
    /\ Record(jobs[c].key, "egress_live")
    /\ Move(c, "egress_live")
    /\ UNCHANGED <<phase, entry, workers, overdue, crashes,
                   journal, cstate, row, hook, result, hostVars>>

\* Mutant: the step is recorded with the next one, after the gate is open.
ReleaseGateFirst(c) ==
    LET k == jobs[c].key
    IN  /\ At(c, "egress_live")
        /\ Revalidates(c)
        /\ pane' = [pane EXCEPT ![k] = IF @ = "gated" THEN "running" ELSE @]
        /\ hook' = [hook EXCEPT ![c] = NoKey]
        /\ Move(c, "released")
        /\ UNCHANGED <<phase, entry, workers, overdue, crashes,
                       journal, saga, cstate, row, result, wt, outbox, said, asked>>

\* S8.  Only the recorded pane's gate is opened; the hook report of an earlier
\* life is forgotten with it.
ReleaseGate(c) ==
    LET k == jobs[c].key
    IN  /\ At(c, "egress_live")
        /\ Revalidates(c)
        /\ Record(k, "released")
        /\ pane' = [pane EXCEPT ![k] = IF @ = "gated" THEN "running" ELSE @]
        /\ hook' = [hook EXCEPT ![c] = NoKey]
        /\ Move(c, "released")
        /\ UNCHANGED <<phase, entry, workers, overdue, crashes,
                       journal, cstate, row, result, wt, outbox, said, asked>>

\* Mutant: the launch ends without its last step on record.
AwaitReadyUnrecorded(c) ==
    /\ At(c, "released")
    /\ hook[c] = jobs[c].key
    /\ saga' = saga
    /\ EndLaunch(c, "ready", "ok")
    /\ UNCHANGED <<phase, entry, workers, overdue, crashes, row, hook, result, hostVars>>

\* S9.  The child's own hook reported since the gate opened.
AwaitReady(c) ==
    /\ At(c, "released")
    /\ hook[c] = jobs[c].key
    /\ Record(jobs[c].key, "done")
    /\ EndLaunch(c, "ready", "ok")
    /\ UNCHANGED <<phase, entry, workers, overdue, crashes, row, hook, result, hostVars>>

\* Mutant: only a pane the job still holds itself is unwound.
UnwindOwnPane(c) == IF jobs[c].step = "pane" THEN jobs[c].key ELSE NoKey

\* The pane unwind_child_launch aims at: the job's own before S6, afterwards
\* the session's, if it is still the recorded one.
UnwindPane(c) ==
    IF jobs[c].step = "pane" THEN jobs[c].key
    ELSE IF Revalidates(c) THEN row[c]
    ELSE NoKey

\* fail_child_job of a launch: a step failed, its worker failed, died or ran
\* out of time, or the agent never reported.  A failed kill is not looked at.
FailLaunch(c) ==
    LET k == jobs[c].key
        mine == saga[k].claimed \/ jobs[c].res = "err_owned"
    IN  /\ phase = "serving" /\ Launching(c)
        /\ jobs[c].res # "ok"
        /\ ~(jobs[c].step = "released" /\ hook[c] = k)
        /\ IF UnwindPane(c) = NoKey THEN pane' = pane ELSE TryKill(UnwindPane(c))
        /\ entry' = [entry EXCEPT ![c] = "none"]
        /\ Reclaim(c, mine /\ jobs[c].goal = "create")
        /\ saga' = [saga EXCEPT ![k].step = "failed", ![k].claimed = mine,
                                ![k].leased = TRUE]
        /\ EndLaunch(c, IF Owned(c) THEN "failed" ELSE "none", "refused")
        /\ UNCHANGED <<phase, workers, overdue, crashes, row, hook, result,
                       outbox, said, asked>>

-----------------------------------------------------------------------------
(* The child's finish intent and the quiesce *)

TakeResult(c) ==
    /\ phase = "serving" /\ Served(c)
    /\ outbox[c] # "empty"
    /\ outbox' = [outbox EXCEPT ![c] = "empty"]
    /\ overdue' = overdue \ {c}

\* accept_finish_intent with no job: the child is `finishing' from here on.
StartFinish(c) ==
    /\ TakeResult(c)
    /\ ~Busy(c)
    /\ cstate' = [cstate EXCEPT ![c] = "finishing"]
    /\ jobs' = [jobs EXCEPT ![c] = FinishJob(outbox[c], {})]
    /\ UNCHANGED <<phase, entry, workers, crashes,
                   journal, saga, row, hook, result, pane, wt, said, asked>>

\* ... while a stop waits out its grace: the stop goes on at once.
EndGrace(c) ==
    /\ TakeResult(c)
    /\ jobs[c].step = "grace"
    /\ Move(c, "acked")
    /\ cstate' = [cstate EXCEPT ![c] = "finishing"]
    /\ UNCHANGED <<phase, entry, workers, crashes,
                   journal, saga, row, hook, result, pane, wt, said, asked>>

\* ... while a launch runs: the first intent is held, and written to the saga.
HoldIntent(c) ==
    /\ TakeResult(c)
    /\ Launching(c) /\ jobs[c].intent = "none"
    /\ jobs' = [jobs EXCEPT ![c].intent = outbox[c], ![c].first = (jobs[c].stops = {})]
    /\ saga' = [saga EXCEPT ![jobs[c].key].outcome = outbox[c], ![jobs[c].key].leased = TRUE]
    /\ UNCHANGED <<phase, entry, workers, crashes,
                   journal, cstate, row, hook, result, pane, wt, said, asked>>

\* The `send' is refused, or a quiesce past its grace or a launch that holds
\* an intent already has no use for it.
DropResult(c) ==
    /\ TakeResult(c)
    /\ UNCHANGED <<phase, entry, jobs, workers, crashes, storeVars, pane, wt, said, asked>>

\* job_await_finish_intent: the grace ran out.
GraceExpires(c) ==
    /\ At(c, "grace")
    /\ Move(c, "acked")
    /\ cstate' = [cstate EXCEPT ![c] = "finishing"]
    /\ UNCHANGED <<phase, entry, workers, overdue, crashes,
                   journal, saga, row, hook, result, hostVars>>

\* Mutant: the outcome of the kill is not looked at.
StopPaneUnchecked(c) ==
    /\ At(c, "acked")
    /\ \/ entry[c] = "none" /\ pane' = pane
       \/ Revalidates(c) /\ TryKill(row[c])
    /\ Move(c, "verify_running")
    /\ UNCHANGED <<phase, entry, workers, overdue, crashes, storeVars,
                   wt, outbox, said, asked>>

\* job_stop_pane, stop_child_pane said Ok: no entry, or the exact recorded
\* pane killed.  What the host reads next is read with the pane stopped.
StopPane(c) ==
    /\ At(c, "acked")
    /\ \/ entry[c] = "none" /\ pane' = pane
       \/ Revalidates(c) /\ Kill(row[c])
    /\ Move(c, "verify_running")
    /\ UNCHANGED <<phase, entry, workers, overdue, crashes, storeVars,
                   wt, outbox, said, asked>>

\* ... or it said why not.
StopFails(c) ==
    /\ At(c, "acked")
    /\ entry[c] # "none"
    /\ ~Revalidates(c) \/ KillMayFail \/ QueryMayFail
    /\ cstate' = [cstate EXCEPT ![c] = "stop_failed"]
    /\ EndQuiesce(c, "refused")
    /\ UNCHANGED <<phase, entry, workers, overdue, crashes,
                   saga, row, hook, result, hostVars>>

\* The worker's read of the worktree; one that cannot be read is dirty.
VerifyWorktree(c) ==
    /\ At(c, "verify_running") /\ jobs[c].res = "none"
    /\ jobs' = [jobs EXCEPT ![c].res = IF wt[c] = "clean" THEN "clean" ELSE "dirty"]
    /\ UNCHANGED <<phase, entry, workers, overdue, crashes, storeVars, hostVars>>

Verdict(c) == [outcome |-> jobs[c].outcome, dirty |-> jobs[c].res = "dirty"]

\* Mutant: the runtime of a child that reached a terminal state stays listed.
DecideAndKeepEntry(c) ==
    /\ At(c, "verify_running") /\ jobs[c].res # "none"
    /\ result' = [result EXCEPT ![c] = Verdict(c)]
    /\ cstate' = [cstate EXCEPT ![c] = IF Verdict(c).dirty THEN "dirty" ELSE jobs[c].clean]
    /\ EndQuiesce(c, "ok")
    /\ UNCHANGED <<phase, entry, workers, overdue, crashes, saga, row, hook, hostVars>>

\* decide_child_outcome: verdict and state are recorded, the runtime of a
\* child that reached a terminal state retired, the keys answered.
DecideOutcome(c) ==
    LET s == IF Verdict(c).dirty THEN "dirty" ELSE jobs[c].clean
    IN  /\ At(c, "verify_running") /\ jobs[c].res # "none"
        /\ result' = [result EXCEPT ![c] = Verdict(c)]
        /\ cstate' = [cstate EXCEPT ![c] = s]
        /\ entry' = [entry EXCEPT ![c] = IF s \in TerminalStates THEN "none" ELSE @]
        /\ EndQuiesce(c, "ok")
        /\ UNCHANGED <<phase, workers, overdue, crashes, saga, row, hook, hostVars>>

\* ... or one of the two writes did not land; the child stays as it is.
DecideUnrecorded(c) ==
    /\ At(c, "verify_running") /\ jobs[c].res # "none"
    /\ WriteMayFail
    /\ \/ result' = result
       \/ result' = [result EXCEPT ![c] = Verdict(c)]
    /\ EndQuiesce(c, "refused")
    /\ UNCHANGED <<phase, entry, workers, overdue, crashes,
                   saga, cstate, row, hook, hostVars>>

\* fail_child_job of a quiesce: the reading worker died or ran out of time.
QuiesceLost(c) ==
    /\ At(c, "verify_running") /\ jobs[c].res = "none"
    /\ EndQuiesce(c, "refused")
    /\ UNCHANGED <<phase, entry, workers, overdue, crashes,
                   saga, cstate, row, hook, result, hostVars>>

-----------------------------------------------------------------------------
(* Workers.  Their effects land whether or not anyone still waits. *)

Deliver(k, step, res) ==
    jobs' = [c \in Children |->
                IF jobs[c].key = k /\ jobs[c].step = step
                THEN [jobs[c] EXCEPT !.res = res] ELSE jobs[c]]

WorktreeWorker(k) ==
    /\ <<"worktree", k>> \in workers
    /\ workers' = workers \ {<<"worktree", k>>}
    /\ \/ /\ wt' = [wt EXCEPT ![k] = "clean"]
          /\ \/ Deliver(k, "worktree_running", "ok")
             \/ Deliver(k, "worktree_running", "err_owned")
       \/ /\ wt' = wt
          /\ Deliver(k, "worktree_running", "err")
    /\ UNCHANGED <<phase, entry, overdue, crashes, storeVars, pane, outbox, said, asked>>

PaneWorker(k) ==
    /\ <<"pane", k>> \in workers
    /\ workers' = workers \ {<<"pane", k>>}
    /\ \/ /\ pane' = [pane EXCEPT ![k] = "gated"]
          /\ Deliver(k, "pane_running", "ok")
       \/ /\ pane' = pane
          /\ Deliver(k, "pane_running", "err")
    /\ UNCHANGED <<phase, entry, overdue, crashes, storeVars, wt, outbox, said, asked>>

-----------------------------------------------------------------------------
(* Agents, the multiplexer and the nudges *)

\* The agent's hook report reaches the database: signal files are drained for
\* the sessions in the list.
Report(k) ==
    LET c == saga[k].child
    IN  /\ phase # "down" /\ pane[k] = "running"
        /\ Served(c) /\ hook[c] # k
        /\ hook' = [hook EXCEPT ![c] = k]
        /\ UNCHANGED <<processVars, journal, saga, cstate, row, result, hostVars>>

\* The agent edits its worktree, or commits what it edited.
Work(k) ==
    LET c == saga[k].child
    IN  /\ pane[k] = "running"
        /\ \/ wt[c] = "clean" /\ wt' = [wt EXCEPT ![c] = "dirty"]
           \/ wt[c] = "dirty" /\ wt' = [wt EXCEPT ![c] = "clean"]
        /\ UNCHANGED <<processVars, storeVars, pane, outbox, said, asked>>

SendResult(k, outcome) ==
    LET c == saga[k].child
    IN  /\ pane[k] = "running" /\ outbox[c] = "empty"
        /\ outbox' = [outbox EXCEPT ![c] = outcome]
        /\ said' = [said EXCEPT ![c] = @ \cup {outcome}]
        /\ UNCHANGED <<processVars, storeVars, pane, wt, asked>>

\* The agent exits, or the launch helper gives up on a gate nobody opens: the
\* pane stays behind, dead.
PaneExits(k) ==
    /\ AgentAlive(k)
    /\ pane' = [pane EXCEPT ![k] = "exited"]
    /\ UNCHANGED <<processVars, storeVars, wt, outbox, said, asked>>

MuxDies ==
    /\ MuxMayDie
    /\ \E k \in LaunchKeys : pane[k] # "none"
    /\ pane' = [k \in LaunchKeys |-> "none"]
    /\ UNCHANGED <<processVars, storeVars, wt, outbox, said, asked>>

\* The last nudge the allowance permits goes out unanswered.  The allowance is
\* minutes long: a first launch has ended one way or the other by then.
NudgesUnanswered(c) ==
    /\ NudgesGiveUp
    /\ jobs[c].goal # "create"
    /\ phase = "serving" /\ Revalidates(c) /\ c \notin overdue
    /\ overdue' = overdue \cup {c}
    /\ UNCHANGED <<phase, entry, jobs, workers, crashes, storeVars, hostVars>>

\* report_stalled_child, one nudge interval later.
ReportStalled(c) ==
    /\ phase = "serving" /\ c \in overdue
    /\ overdue' = overdue \ {c}
    /\ cstate' = [cstate EXCEPT ![c] = "stalled"]
    /\ UNCHANGED <<phase, entry, jobs, workers, crashes,
                   journal, saga, row, hook, result, hostVars>>

-----------------------------------------------------------------------------
(* Crash, restart, recovery *)

Crash ==
    /\ phase # "down" /\ crashes < MaxCrashes
    /\ crashes' = crashes + 1
    /\ phase' = "down"
    /\ entry' = [c \in Children |-> "none"]
    /\ jobs' = [c \in Children |-> Idle]
    /\ workers' = {}
    /\ overdue' = {}
    /\ UNCHANGED <<storeVars, hostVars>>

\* A lease nobody renews runs out, unless the restart is quicker.
LeaseExpires(k) ==
    /\ phase # "recovering"
    /\ Unfinished(k) /\ saga[k].leased
    /\ \A c \in Children : jobs[c].key # k
    /\ saga' = [saga EXCEPT ![k].leased = FALSE]
    /\ UNCHANGED <<processVars, journal, cstate, row, hook, result, hostVars>>

\* restore_single_session: a live pane under the session's window name is
\* adopted, the recorded one first; otherwise the entry is a ghost.
Restored(c) ==
    IF row[c] = NoKey THEN "none"
    ELSE IF AgentAlive(row[c]) THEN "live"
    ELSE IF \E k \in Launches(c) : SameWindow(k, row[c]) /\ AgentAlive(k) THEN "foreign"
    ELSE "ghost"

Start ==
    /\ phase = "down"
    /\ phase' = "recovering"
    /\ entry' = [c \in Children |-> Restored(c)]
    /\ UNCHANGED <<jobs, workers, overdue, crashes, storeVars, hostVars>>

\* The sagas recovery reconciles: every lease of an earlier process counts.
ToReconcile == {k \in LaunchKeys : Unfinished(k) /\ ~saga[k].leased}

CloseSaga(k, s, a) ==
    /\ saga' = [saga EXCEPT ![k].step = s, ![k].leased = FALSE]
    /\ journal' = [journal EXCEPT ![k] = a]

\* reconcile_child_saga below the committed line: the recorded pane goes, the
\* worktree goes if the saga made it and it holds nothing.
ReconcilePending(k) ==
    /\ phase = "recovering" /\ k \in ToReconcile
    /\ saga[k].step \in PendingSteps
    /\ IF saga[k].mux THEN TryKill(k) ELSE pane' = pane
    /\ Reclaim(saga[k].child, saga[k].claimed)
    /\ CloseSaga(k, "failed", "refused")
    /\ UNCHANGED <<processVars, cstate, row, hook, result, outbox, said, asked>>

\* Mutant: the pane of a child found `finishing' is taken for stopped.
FinishRecoveredPastStop(c, outcome) ==
    IF Busy(c) THEN UNCHANGED <<cstate, jobs>>
    ELSE /\ cstate' = [cstate EXCEPT ![c] = "finishing"]
         /\ jobs' = [jobs EXCEPT ![c] = [FinishJob(outcome, {}) EXCEPT !.step = "verify_running"]]

\* accept_finish_intent while recovering: a quiesce under way keeps its own.
FinishRecovered(c, outcome) ==
    IF Busy(c) THEN UNCHANGED <<cstate, jobs>>
    ELSE /\ cstate' = [cstate EXCEPT ![c] = "finishing"]
         /\ jobs' = [jobs EXCEPT ![c] = FinishJob(outcome, {})]

\* adopt_recovered_child: a held intent is carried out.
AdoptFinished(k) ==
    /\ phase = "recovering" /\ k \in ToReconcile
    /\ saga[k].step \in CommittedSteps
    /\ saga[k].outcome # "none"
    /\ FinishRecovered(saga[k].child, saga[k].outcome)
    /\ CloseSaga(k, "done", "ok")
    /\ UNCHANGED <<phase, entry, workers, overdue, crashes, row, hook, result, hostVars>>

\* ... otherwise the child is ready when its agent has reported, unusable when
\* this was not its first launch, and stalled when it was.
AdoptState(k) ==
    LET c == saga[k].child
    IN  IF Served(c) /\ hook[c] = k THEN "ready"
        ELSE IF Launches(c) # {k} THEN "unusable"
        ELSE "stalled"

AdoptRecovered(k) ==
    /\ phase = "recovering" /\ k \in ToReconcile
    /\ saga[k].step \in CommittedSteps
    /\ saga[k].outcome = "none"
    /\ cstate' = [cstate EXCEPT ![saga[k].child] = AdoptState(k)]
    /\ IF AdoptState(k) = "ready" THEN CloseSaga(k, "done", "ok")
                                  ELSE CloseSaga(k, "failed", "refused")
    /\ UNCHANGED <<processVars, row, hook, result, hostVars>>

\* A child left mid-quiesce: the quiesce is run again, with the narrow intent.
ResumeQuiesce(c) ==
    /\ phase = "recovering" /\ ToReconcile = {}
    /\ cstate[c] = "finishing" /\ ~Busy(c)
    /\ FinishRecovered(c, "failed")
    /\ UNCHANGED <<phase, entry, workers, overdue, crashes,
                   journal, saga, row, hook, result, hostVars>>

\* Mutant: every key on record is closed out, answered or not.
AbandonedOrAnswered == {k \in Keys : /\ journal[k] # "none"
                                     /\ \A c \in Children : k \notin jobs[c].keys}

\* The accepted keys no job and no saga of this process will answer.
Abandoned == {k \in Keys : /\ journal[k] = "accepted"
                           /\ \A c \in Children : k \notin jobs[c].keys}

\* Mutant: a `stop', which has no saga row, is not closed out.
AnswerAbandonedLaunches ==
    /\ phase = "recovering" /\ ToReconcile = {}
    /\ \A c \in Children : cstate[c] = "finishing" => Busy(c)
    /\ journal' = Answered(Abandoned \cap LaunchKeys, "refused")
    /\ phase' = "serving"
    /\ UNCHANGED <<entry, jobs, workers, overdue, crashes,
                   saga, cstate, row, hook, result, hostVars>>

\* answer_abandoned_lifecycle_requests, then the broker serves.
AnswerAbandoned ==
    /\ phase = "recovering" /\ ToReconcile = {}
    /\ \A c \in Children : cstate[c] = "finishing" => Busy(c)
    /\ journal' = Answered(Abandoned, "refused")
    /\ phase' = "serving"
    /\ UNCHANGED <<entry, jobs, workers, overdue, crashes,
                   saga, cstate, row, hook, result, hostVars>>

-----------------------------------------------------------------------------
(* Specification *)

Init ==
    /\ phase = "serving" /\ crashes = 0 /\ overdue = {} /\ workers = {}
    /\ entry = [c \in Children |-> "none"]
    /\ jobs = [c \in Children |-> Idle]
    /\ journal = [k \in Keys |-> "none"]
    /\ saga = [k \in LaunchKeys |-> NoSaga]
    /\ cstate = [c \in Children |-> "none"]
    /\ row = [c \in Children |-> NoKey]
    /\ hook = [c \in Children |-> NoKey]
    /\ result = [c \in Children |-> NoResult]
    /\ pane = [k \in LaunchKeys |-> "none"]
    /\ wt = [c \in Children |-> "absent"]
    /\ outbox = [c \in Children |-> "empty"]
    /\ said = [c \in Children |-> {}]
    /\ asked = [k \in StopKeys |-> NoKey]

Owner ==
    \/ \E k \in Keys : RefuseRequest(k)
    \/ \E c \in Children :
          \/ BeginCreate(c)
          \/ \E k \in StopKeys : StopAnswered(k, c) \/ StopJoins(k, c) \/ BeginStop(k, c)
          \/ \E k \in ResumeKeys : ResumeJoins(k, c) \/ BeginResume(k, c)

\* What the tick does to the job of one child.
Launch(c) ==
    \/ StartWorktree(c) \/ ReuseWorktree(c) \/ TakeWorktree(c) \/ MintDirs(c)
    \/ StartPane(c) \/ TakePane(c) \/ Commit(c) \/ AwaitEgress(c) \/ ReleaseGate(c)
    \/ AwaitReady(c) \/ FailLaunch(c)

Quiesce(c) ==
    \/ GraceExpires(c) \/ StopPane(c) \/ StopFails(c) \/ VerifyWorktree(c)
    \/ DecideOutcome(c) \/ DecideUnrecorded(c) \/ QuiesceLost(c)

Advance(c) == Launch(c) \/ Quiesce(c)

ServeResult(c) == StartFinish(c) \/ EndGrace(c) \/ HoldIntent(c) \/ DropResult(c)

Agent(k) ==
    \/ Report(k) \/ Work(k) \/ PaneExits(k)
    \/ \E o \in Outcomes : SendResult(k, o)

Nudge(c) == NudgesUnanswered(c) \/ ReportStalled(c)

Recover ==
    \/ \E k \in LaunchKeys : ReconcilePending(k) \/ AdoptFinished(k) \/ AdoptRecovered(k)
    \/ \E c \in Children : ResumeQuiesce(c)
    \/ AnswerAbandoned

Next ==
    \/ Owner
    \/ \E c \in Children : Advance(c) \/ ServeResult(c) \/ Nudge(c)
    \/ \E k \in LaunchKeys : WorktreeWorker(k) \/ PaneWorker(k) \/ Agent(k) \/ LeaseExpires(k)
    \/ MuxDies \/ Crash \/ Start \/ Recover

Spec == Init /\ [][Next]_vars

\* The tick comes round (every job is advanced, timeouts included), and a
\* friring that died is started again and gets through its recovery.
Fairness ==
    /\ \A c \in Children : WF_vars(Advance(c))
    /\ WF_vars(Start) /\ WF_vars(Recover)

FairSpec == Spec /\ Fairness

-----------------------------------------------------------------------------
(* Properties *)

\* Every variable stays in the type its column, field or file has.
TypeOK ==
    /\ phase \in {"down", "recovering", "serving"}
    /\ entry \in [Children -> {"none", "live", "foreign", "ghost"}]
    /\ jobs \in [Children -> Jobs]
    /\ workers \subseteq {"worktree", "pane"} \X LaunchKeys
    /\ overdue \subseteq Children
    /\ crashes \in 0..MaxCrashes
    /\ journal \in [Keys -> {"none", "accepted", "ok", "refused"}]
    /\ saga \in [LaunchKeys -> Sagas]
    /\ cstate \in [Children -> ChildStates \cup {"none"}]
    /\ row \in [Children -> LaunchKeys \cup {NoKey}]
    /\ hook \in [Children -> LaunchKeys \cup {NoKey}]
    /\ result \in [Children -> Results \cup {NoResult}]
    /\ pane \in [LaunchKeys -> {"none", "gated", "running", "exited"}]
    /\ wt \in [Children -> {"absent", "clean", "dirty"}]
    /\ outbox \in [Children -> Outcomes \cup {"empty"}]
    /\ said \in [Children -> SUBSET Outcomes]
    /\ asked \in [StopKeys -> Children \cup {NoKey}]

\* A key journaled `accepted' is answered by nothing but the job that carries
\* it (a replay of it waits), so while the broker serves, some job does carry
\* it: as its own, as a waiter, or held behind a launch.
AcceptedIsCarried ==
    phase = "serving" =>
        \A k \in Keys : journal[k] = "accepted" =>
            \E c \in Children : k \in jobs[c].keys \cup jobs[c].stops

\* Two agents never run in one child's worktree, however stops, resumes,
\* failing kills, late workers and restarts interleave.
OneAgentPerWorktree ==
    \A j, k \in LaunchKeys :
        /\ pane[j] = "running" /\ pane[k] = "running"
        /\ saga[j].child = saga[k].child
        => j = k

\* An agent runs only behind rows that name it: the next start can find its
\* pane, its owner can name it, and its saga is past the one transaction.
AgentHasRows ==
    \A k \in LaunchKeys : pane[k] = "running" =>
        LET c == saga[k].child
        IN  /\ c \in Children /\ Owned(c)
            /\ row[c] = k
            /\ saga[k].step \in {"released"} \cup FinalSteps

\* No agent runs in a worktree friring has removed.
AgentKeepsItsWorktree ==
    \A k \in LaunchKeys : pane[k] = "running" => wt[saga[k].child] # "absent"

\* A child reported done or stopped has no agent left to change what was
\* verified: the worktree is as clean as the recorded verdict says, and `done'
\* is only ever said of a child that said `completed' itself.
VerdictIsTrue ==
    \A c \in Children : cstate[c] \in {"done", "stopped"} =>
        /\ \A k \in Launches(c) : pane[k] # "running"
        /\ wt[c] = "clean"
        /\ result[c].dirty = FALSE
        /\ cstate[c] = "done" => /\ result[c].outcome = "completed"
                                 /\ "completed" \in said[c]

\* The owner never has more children than its profile allows, counting the
\* launches that have not committed one yet.
SlotCap == ReservedSlots <= MaxChildren

\* What the journal answered once, it answers for good.
AnswerIsFinal ==
    [][\A k \in Keys : journal[k] \in {"ok", "refused"} => journal'[k] = journal[k]]_vars

\* A `stop' answered ok is about a child nothing runs in any more.
StopMeansStopped ==
    [][\A k \in StopKeys : journal[k] # "ok" /\ journal'[k] = "ok" =>
          \A j \in LaunchKeys : saga[j].child = asked'[k] => pane'[j] # "running"]_vars

\* A child that a quiesce or an unwind ended is not brought back by what is
\* still under way for it: a late worker, a request of its own, a hook report,
\* a held intent, a verdict that did not land, or a restart that reconciles its
\* launches and restores its entry.  Only a resume may, and the stall report,
\* which writes the state without a look at it.
EndedStaysEnded ==
    [][\A c \in Children : cstate[c] \in EndStates =>
          cstate'[c] \in EndStates \cup {"starting"} \/ ReportStalled(c)]_vars

\* Only an explicit resume takes a child out of a terminal state.
TerminalUntilResumed ==
    [][\A c \in Children : cstate[c] \in TerminalStates =>
          cstate'[c] \in TerminalStates \cup {"starting"}]_vars

\* A child in `starting' is being started: a job drives it, or a saga names it
\* that recovery has still to look at.
StartingIsDriven ==
    phase = "serving" =>
        \A c \in Children : cstate[c] = "starting" =>
            Busy(c) \/ \E k \in Launches(c) : Unfinished(k)

\* A dirty child, whose pane the quiesce killed, can be stopped.
DirtyCanBeStopped ==
    [][\A c \in Children : /\ jobs[c].goal = "stop" /\ jobs[c].step = "acked"
                           /\ result[c].dirty
                           /\ \A k \in Launches(c) : pane[k] = "none"
                           => cstate'[c] # "stop_failed"]_vars

\* Whatever friring accepted, it answers.
AcceptedIsAnswered ==
    \A k \in Keys : journal[k] = "accepted" ~> journal[k] \in {"ok", "refused"}

\* A launch that was interrupted is finalized.
SagaIsFinalized ==
    \A k \in LaunchKeys : Unfinished(k) ~> saga[k].step \in FinalSteps

=============================================================================
