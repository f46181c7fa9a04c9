----------------------- MODULE ChildLifecycle_proofs -----------------------
(***************************************************************************)
(* What holds of ChildLifecycle for every set of keys and every bound: the *)
(* types, that no accepted request is ever left without a carrier, and, at *)
(* one crash or none, that an answer is final.  Each invariant has one     *)
(* lemma per action, or per group of actions that write the same           *)
(* variables, and a theorem that puts them together.                       *)
(***************************************************************************)
EXTENDS ChildLifecycle, TLAPS

-----------------------------------------------------------------------------
(* The sets of keys, and the records the handlers build *)

LEMMA KeySets ==
    /\ CreateKeys \subseteq LaunchKeys /\ ResumeKeys \subseteq LaunchKeys
    /\ LaunchKeys \subseteq Keys /\ StopKeys \subseteq Keys
    /\ Children = CreateKeys
  BY DEF Children, LaunchKeys, Keys

LEMMA LaunchIsJob ==
    ASSUME NEW goal \in {"create", "resume"}, NEW k \in LaunchKeys
    PROVE  LaunchJob(goal, k) \in LaunchJobs
  BY DEF LaunchJob, Idle, LaunchJobs, LaunchSteps

LEMMA StopIsJob ==
    ASSUME NEW keys \in SUBSET StopKeys
    PROVE  StopJob(keys) \in QuiesceJobs
  BY DEF StopJob, Idle, QuiesceJobs, QuiesceSteps, Outcomes, TerminalStates

LEMMA FinishIsJob ==
    ASSUME NEW outcome \in Outcomes, NEW keys \in SUBSET StopKeys
    PROVE  FinishJob(outcome, keys) \in QuiesceJobs
  BY DEF FinishJob, Idle, QuiesceJobs, QuiesceSteps, Outcomes, TerminalStates, TerminalState

LEMMA LaunchUpdates ==
    ASSUME NEW j \in LaunchJobs
    PROVE  /\ \A s \in LaunchSteps : [j EXCEPT !.step = s, !.res = "none"] \in LaunchJobs
           /\ \A k \in LaunchKeys : [j EXCEPT !.keys = @ \cup {k}] \in LaunchJobs
           /\ \A k \in StopKeys : [j EXCEPT !.stops = @ \cup {k}] \in LaunchJobs
           /\ \A r \in {"ok", "err", "err_owned"} : [j EXCEPT !.res = r] \in LaunchJobs
           /\ \A o \in Outcomes, b \in BOOLEAN :
                 [j EXCEPT !.intent = o, !.first = b] \in LaunchJobs
  BY DEF LaunchJobs

LEMMA QuiesceUpdates ==
    ASSUME NEW j \in QuiesceJobs
    PROVE  /\ \A s \in QuiesceSteps : [j EXCEPT !.step = s] \in QuiesceJobs
           /\ \A s \in QuiesceSteps : [j EXCEPT !.step = s, !.res = "none"] \in QuiesceJobs
           /\ \A k \in StopKeys : [j EXCEPT !.keys = @ \cup {k}] \in QuiesceJobs
           /\ \A r \in {"clean", "dirty"} : [j EXCEPT !.res = r] \in QuiesceJobs
  BY DEF QuiesceJobs

\* A job's step says which kind of job it is.
LEMMA JobKinds ==
    ASSUME TypeOK, NEW c \in Children
    PROVE  /\ jobs[c] \in Jobs
           /\ Launching(c) \/ jobs[c].step \in LaunchSteps => jobs[c] \in LaunchJobs
           /\ Quiescing(c) \/ jobs[c].step \in QuiesceSteps => jobs[c] \in QuiesceJobs
           /\ ~Busy(c) => jobs[c] = Idle
           /\ jobs[c].stops \subseteq StopKeys
           /\ jobs[c].intent \in Outcomes \cup {"none"}
  <1>1. jobs[c] \in Jobs
    BY DEF TypeOK
  <1>2. CASE jobs[c] = Idle
    BY <1>1, <1>2 DEF Idle, Launching, Quiescing, Busy, LaunchSteps, QuiesceSteps
  <1>3. CASE jobs[c] \in LaunchJobs
    BY <1>1, <1>3 DEF LaunchJobs, Launching, Quiescing, Busy, LaunchSteps, QuiesceSteps
  <1>4. CASE jobs[c] \in QuiesceJobs
    BY <1>1, <1>4 DEF QuiesceJobs, Launching, Quiescing, Busy, LaunchSteps, QuiesceSteps
  <1> QED BY <1>1, <1>2, <1>3, <1>4 DEF Jobs

LEMMA LaunchFields ==
    ASSUME NEW j \in LaunchJobs
    PROVE  /\ j.key \in LaunchKeys /\ j.keys \subseteq LaunchKeys /\ j.stops \subseteq StopKeys
           /\ j.intent \in Outcomes \cup {"none"}
  BY DEF LaunchJobs

LEMMA QuiesceFields ==
    ASSUME NEW j \in QuiesceJobs
    PROVE  /\ j.outcome \in Outcomes /\ j.clean \in TerminalStates
           /\ j.keys \subseteq StopKeys /\ j.stops = {}
  BY DEF QuiesceJobs

LEMMA NewSagaType ==
    ASSUME NEW c \in Children
    PROVE  NewSaga(c) \in Sagas
  BY DEF NewSaga, NoSaga, Sagas, SagaSteps, PendingSteps, Children

LEMMA SagaUpdates ==
    ASSUME NEW g \in Sagas
    PROVE  /\ \A s \in SagaSteps, b \in BOOLEAN : [g EXCEPT !.step = s, !.leased = b] \in Sagas
           /\ \A s \in SagaSteps, b \in BOOLEAN :
                 [g EXCEPT !.step = s, !.claimed = b, !.leased = TRUE] \in Sagas
           /\ \A o \in Outcomes : [g EXCEPT !.outcome = o, !.leased = TRUE] \in Sagas
           /\ [g EXCEPT !.claimed = TRUE, !.leased = TRUE] \in Sagas
           /\ [g EXCEPT !.mux = TRUE, !.leased = TRUE] \in Sagas
           /\ [g EXCEPT !.leased = FALSE] \in Sagas
           /\ g.claimed \in BOOLEAN /\ g.outcome \in Outcomes \cup {"none"}
  BY DEF Sagas

\* Moving a job, or recording a saga step, keeps the types.
LEMMA LaunchMoves ==
    ASSUME TypeOK, NEW c \in Children, NEW s \in LaunchSteps,
           Launching(c) \/ jobs[c].step \in LaunchSteps, Move(c, s)
    PROVE  jobs' \in [Children -> Jobs]
  BY JobKinds, LaunchUpdates DEF TypeOK, Move, Jobs

LEMMA QuiesceMoves ==
    ASSUME TypeOK, NEW c \in Children, NEW s \in QuiesceSteps,
           jobs[c].step \in QuiesceSteps, Move(c, s)
    PROVE  jobs' \in [Children -> Jobs]
  BY JobKinds, QuiesceUpdates DEF TypeOK, Move, Jobs

LEMMA RecordTypes ==
    ASSUME TypeOK, NEW k, NEW s \in SagaSteps, Record(k, s)
    PROVE  saga' \in [LaunchKeys -> Sagas]
  BY SagaUpdates DEF TypeOK, Record

LEMMA KillTypes ==
    ASSUME TypeOK, NEW k, TryKill(k)
    PROVE  pane' \in [LaunchKeys -> {"none", "gated", "running", "exited"}]
  BY DEF TypeOK, TryKill, Kill

LEMMA ReclaimTypes ==
    ASSUME TypeOK, NEW c, NEW mine, Reclaim(c, mine)
    PROVE  wt' \in [Children -> {"absent", "clean", "dirty"}]
  BY DEF TypeOK, Reclaim

LEMMA HeldIsJob ==
    ASSUME TypeOK, NEW c \in Children, NEW s
    PROVE  HeldJob(c, s) \in Jobs
  <1> DEFINE j == jobs[c]
             intent == j.intent # "none" /\ (j.first \/ j.stops = {})
  <1>1. j.stops \subseteq StopKeys /\ j.intent \in Outcomes \cup {"none"}
    BY JobKinds
  <1>2. CASE s \notin LiveStates \/ (~intent /\ j.stops = {})
    BY <1>2 DEF HeldJob, Jobs
  <1>3. CASE s \in LiveStates /\ intent
    <2>1. FinishJob(j.intent, j.stops) \in QuiesceJobs
      BY <1>1, <1>3, FinishIsJob
    <2> QED BY <1>3, <2>1 DEF HeldJob, Jobs
  <1>4. CASE s \in LiveStates /\ ~intent /\ j.stops # {}
    <2>1. StopJob(j.stops) \in QuiesceJobs
      BY <1>1, StopIsJob
    <2>2. /\ [StopJob(j.stops) EXCEPT !.step = "grace"] \in QuiesceJobs
          /\ [StopJob(j.stops) EXCEPT !.step = "acked"] \in QuiesceJobs
      BY <2>1, QuiesceUpdates DEF QuiesceSteps
    <2> QED BY <1>4, <2>2 DEF HeldJob, Jobs
  <1> QED BY <1>2, <1>3, <1>4

LEMMA EndLaunchTypes ==
    ASSUME TypeOK, NEW c \in Children, NEW s \in {"none", "ready", "failed"},
           NEW a \in {"ok", "refused"}, EndLaunch(c, s, a)
    PROVE  /\ jobs' \in [Children -> Jobs]
           /\ cstate' \in [Children -> ChildStates \cup {"none"}]
           /\ journal' \in [Keys -> {"none", "accepted", "ok", "refused"}]
  <1>1. jobs' \in [Children -> Jobs]
    BY HeldIsJob DEF TypeOK, EndLaunch
  <1>2. cstate' \in [Children -> ChildStates \cup {"none"}]
    BY DEF TypeOK, EndLaunch, ChildStates, LiveStates, TerminalStates
  <1>3. journal' \in [Keys -> {"none", "accepted", "ok", "refused"}]
    BY DEF TypeOK, EndLaunch
  <1> QED BY <1>1, <1>2, <1>3

LEMMA EndQuiesceTypes ==
    ASSUME TypeOK, NEW c \in Children, NEW a \in {"ok", "refused"}, EndQuiesce(c, a)
    PROVE  /\ jobs' \in [Children -> Jobs]
           /\ journal' \in [Keys -> {"none", "accepted", "ok", "refused"}]
  BY DEF TypeOK, EndQuiesce, Answered, Jobs

-----------------------------------------------------------------------------
(* TypeOK, action by action *)

LEMMA RefuseRequestTypes ==
    ASSUME TypeOK, NEW k \in Keys, RefuseRequest(k)
    PROVE  TypeOK'
  BY KeySets
  DEF TypeOK, RefuseRequest, Fresh, vars, processVars, storeVars, hostVars

LEMMA BeginCreateTypes ==
    ASSUME TypeOK, NEW c \in Children, BeginCreate(c)
    PROVE  TypeOK'
  <1>1. jobs' \in [Children -> Jobs]
    BY KeySets, LaunchIsJob DEF TypeOK, BeginCreate, Jobs
  <1>2. saga' \in [LaunchKeys -> Sagas]
    BY NewSagaType DEF TypeOK, BeginCreate
  <1> QED
    BY <1>1, <1>2, KeySets
    DEF TypeOK, BeginCreate, Fresh, Accept, vars, processVars, storeVars,
         hostVars

LEMMA StopAnsweredTypes ==
    ASSUME TypeOK, NEW k \in StopKeys, NEW c \in Children, StopAnswered(k, c)
    PROVE  TypeOK'
  BY KeySets
  DEF TypeOK, StopAnswered, Fresh, vars, processVars, storeVars, hostVars

LEMMA StopJoinsTypes ==
    ASSUME TypeOK, NEW k \in StopKeys, NEW c \in Children, StopJoins(k, c)
    PROVE  TypeOK'
  <1>1. jobs' \in [Children -> Jobs]
    <2>1. CASE Quiescing(c) /\ jobs' = [jobs EXCEPT ![c].keys = @ \cup {k}]
      BY <2>1, JobKinds, QuiesceUpdates DEF TypeOK, Jobs
    <2>2. CASE Launching(c) /\ jobs' = [jobs EXCEPT ![c].stops = @ \cup {k}]
      BY <2>2, JobKinds, LaunchUpdates DEF TypeOK, Jobs
    <2> QED BY <2>1, <2>2 DEF StopJoins
  <1> QED
    BY <1>1, KeySets
    DEF TypeOK, StopJoins, Fresh, Accept, vars, processVars, storeVars, hostVars

LEMMA BeginStopTypes ==
    ASSUME TypeOK, NEW k \in StopKeys, NEW c \in Children, BeginStop(k, c)
    PROVE  TypeOK'
  <1>1. jobs' \in [Children -> Jobs]
    BY StopIsJob DEF TypeOK, BeginStop, Jobs
  <1> QED
    BY <1>1, KeySets
    DEF TypeOK, BeginStop, Fresh, Accept, vars, processVars, storeVars,
         hostVars

LEMMA ResumeJoinsTypes ==
    ASSUME TypeOK, NEW k \in ResumeKeys, NEW c \in Children, ResumeJoins(k, c)
    PROVE  TypeOK'
  <1>1. jobs' \in [Children -> Jobs]
    BY KeySets, JobKinds, LaunchUpdates DEF TypeOK, ResumeJoins, Launching, Jobs
  <1> QED
    BY <1>1, KeySets
    DEF TypeOK, ResumeJoins, Fresh, Accept, vars, processVars, storeVars,
         hostVars

LEMMA BeginResumeTypes ==
    ASSUME TypeOK, NEW k \in ResumeKeys, NEW c \in Children, BeginResume(k, c)
    PROVE  TypeOK'
  <1>1. jobs' \in [Children -> Jobs]
    BY KeySets, LaunchIsJob DEF TypeOK, BeginResume, Jobs
  <1>2. saga' \in [LaunchKeys -> Sagas]
    BY NewSagaType DEF TypeOK, BeginResume
  <1> QED
    BY <1>1, <1>2, KeySets
    DEF TypeOK, BeginResume, Fresh, Accept, RetireForResume, Kill,
         ChildStates, LiveStates, TerminalStates, vars, processVars,
         storeVars, hostVars

LEMMA StartWorktreeTypes ==
    ASSUME TypeOK, NEW c \in Children, StartWorktree(c)
    PROVE  TypeOK'
  <1>1. jobs' \in [Children -> Jobs]
    BY LaunchMoves DEF StartWorktree, At, LaunchSteps
  <1>2. saga' \in [LaunchKeys -> Sagas]
    BY RecordTypes DEF StartWorktree, SagaSteps, PendingSteps
  <1>3. workers' \subseteq {"worktree", "pane"} \X LaunchKeys
    <2>1. jobs[c].key \in LaunchKeys
      BY JobKinds, LaunchFields DEF StartWorktree, At, LaunchSteps
    <2> QED BY <2>1 DEF TypeOK, StartWorktree
  <1> QED
    BY <1>1, <1>2, <1>3
    DEF TypeOK, StartWorktree, vars, processVars, storeVars, hostVars

LEMMA ReuseWorktreeTypes ==
    ASSUME TypeOK, NEW c \in Children, ReuseWorktree(c)
    PROVE  TypeOK'
  <1>1. jobs' \in [Children -> Jobs]
    BY LaunchMoves DEF ReuseWorktree, At, LaunchSteps
  <1> QED
    BY <1>1, KeySets
    DEF TypeOK, ReuseWorktree, vars, processVars, storeVars, hostVars

LEMMA TakeWorktreeTypes ==
    ASSUME TypeOK, NEW c \in Children, TakeWorktree(c)
    PROVE  TypeOK'
  <1>1. jobs' \in [Children -> Jobs]
    BY LaunchMoves DEF TakeWorktree, At, LaunchSteps
  <1>2. saga' \in [LaunchKeys -> Sagas]
    BY SagaUpdates DEF TypeOK, TakeWorktree
  <1> QED
    BY <1>1, <1>2, KeySets
    DEF TypeOK, TakeWorktree, vars, processVars, storeVars, hostVars

LEMMA MintDirsTypes ==
    ASSUME TypeOK, NEW c \in Children, MintDirs(c)
    PROVE  TypeOK'
  <1>1. jobs' \in [Children -> Jobs]
    BY LaunchMoves DEF MintDirs, At, LaunchSteps
  <1>2. saga' \in [LaunchKeys -> Sagas]
    BY RecordTypes DEF MintDirs, SagaSteps, PendingSteps, CommittedSteps, FinalSteps
  <1> QED
    BY <1>1, <1>2, KeySets
    DEF TypeOK, MintDirs, vars, processVars, storeVars, hostVars

LEMMA StartPaneTypes ==
    ASSUME TypeOK, NEW c \in Children, StartPane(c)
    PROVE  TypeOK'
  <1>1. jobs' \in [Children -> Jobs]
    BY LaunchMoves DEF StartPane, At, LaunchSteps
  <1>2. saga' \in [LaunchKeys -> Sagas]
    BY RecordTypes DEF StartPane, SagaSteps, PendingSteps
  <1>3. workers' \subseteq {"worktree", "pane"} \X LaunchKeys
    <2>1. jobs[c].key \in LaunchKeys
      BY JobKinds, LaunchFields DEF StartPane, At, LaunchSteps
    <2> QED BY <2>1 DEF TypeOK, StartPane
  <1> QED
    BY <1>1, <1>2, <1>3
    DEF TypeOK, StartPane, vars, processVars, storeVars, hostVars

LEMMA TakePaneTypes ==
    ASSUME TypeOK, NEW c \in Children, TakePane(c)
    PROVE  TypeOK'
  <1>1. jobs' \in [Children -> Jobs]
    BY LaunchMoves DEF TakePane, At, LaunchSteps
  <1>2. saga' \in [LaunchKeys -> Sagas]
    BY SagaUpdates DEF TypeOK, TakePane
  <1> QED
    BY <1>1, <1>2, KeySets
    DEF TypeOK, TakePane, vars, processVars, storeVars, hostVars

LEMMA CommitTypes ==
    ASSUME TypeOK, NEW c \in Children, Commit(c)
    PROVE  TypeOK'
  <1>1. jobs' \in [Children -> Jobs]
    BY LaunchMoves DEF Commit, At, LaunchSteps
  <1>2. saga' \in [LaunchKeys -> Sagas]
    BY RecordTypes DEF Commit, SagaSteps, PendingSteps, CommittedSteps, FinalSteps
  <1> QED
    BY <1>1, <1>2, JobKinds, LaunchFields
    DEF TypeOK, Commit, ChildStates, LiveStates, TerminalStates, At,
         LaunchSteps, vars, processVars, storeVars, hostVars

LEMMA AwaitEgressTypes ==
    ASSUME TypeOK, NEW c \in Children, AwaitEgress(c)
    PROVE  TypeOK'
  <1>1. jobs' \in [Children -> Jobs]
    BY LaunchMoves DEF AwaitEgress, At, LaunchSteps
  <1>2. saga' \in [LaunchKeys -> Sagas]
    BY RecordTypes DEF AwaitEgress, SagaSteps, PendingSteps, CommittedSteps, FinalSteps
  <1> QED
    BY <1>1, <1>2, KeySets
    DEF TypeOK, AwaitEgress, vars, processVars, storeVars, hostVars

LEMMA ReleaseGateTypes ==
    ASSUME TypeOK, NEW c \in Children, ReleaseGate(c)
    PROVE  TypeOK'
  <1>1. jobs' \in [Children -> Jobs]
    BY LaunchMoves DEF ReleaseGate, At, LaunchSteps
  <1>2. saga' \in [LaunchKeys -> Sagas]
    BY RecordTypes DEF ReleaseGate, SagaSteps, PendingSteps, CommittedSteps, FinalSteps
  <1> QED
    BY <1>1, <1>2, KeySets
    DEF TypeOK, ReleaseGate, vars, processVars, storeVars, hostVars

LEMMA AwaitReadyTypes ==
    ASSUME TypeOK, NEW c \in Children, AwaitReady(c)
    PROVE  TypeOK'
  <1>1. /\ jobs' \in [Children -> Jobs]
       /\ cstate' \in [Children -> ChildStates \cup {"none"}]
       /\ journal' \in [Keys -> {"none", "accepted", "ok", "refused"}]
    BY EndLaunchTypes DEF AwaitReady
  <1>2. saga' \in [LaunchKeys -> Sagas]
    BY RecordTypes DEF AwaitReady, SagaSteps, PendingSteps, CommittedSteps, FinalSteps
  <1> QED
    BY <1>1, <1>2, KeySets
    DEF TypeOK, AwaitReady, vars, processVars, storeVars, hostVars

LEMMA FailLaunchTypes ==
    ASSUME TypeOK, NEW c \in Children, FailLaunch(c)
    PROVE  TypeOK'
  <1> DEFINE k == jobs[c].key
             mine == saga[k].claimed \/ jobs[c].res = "err_owned"
  <1>1. /\ jobs' \in [Children -> Jobs]
        /\ cstate' \in [Children -> ChildStates \cup {"none"}]
        /\ journal' \in [Keys -> {"none", "accepted", "ok", "refused"}]
    BY EndLaunchTypes DEF FailLaunch
  <1>2. saga' \in [LaunchKeys -> Sagas]
    <2>1. k \in LaunchKeys
      BY JobKinds, LaunchFields DEF FailLaunch
    <2>2. saga[k] \in Sagas /\ mine \in BOOLEAN
      BY <2>1, SagaUpdates DEF TypeOK
    <2>3. [saga[k] EXCEPT !.step = "failed", !.claimed = mine, !.leased = TRUE] \in Sagas
      BY <2>2, SagaUpdates DEF SagaSteps, FinalSteps
    <2>4. saga' = [saga EXCEPT ![k] = [saga[k] EXCEPT !.step = "failed", !.claimed = mine,
                                                       !.leased = TRUE]]
      BY <2>1 DEF FailLaunch, TypeOK
    <2> QED BY <2>3, <2>4 DEF TypeOK
  <1>3. pane' \in [LaunchKeys -> {"none", "gated", "running", "exited"}]
    BY KillTypes DEF TypeOK, FailLaunch
  <1>4. wt' \in [Children -> {"absent", "clean", "dirty"}]
    BY ReclaimTypes DEF FailLaunch
  <1> QED
    BY <1>1, <1>2, <1>3, <1>4
    DEF TypeOK, FailLaunch, vars, processVars, storeVars, hostVars

LEMMA StartFinishTypes ==
    ASSUME TypeOK, NEW c \in Children, StartFinish(c)
    PROVE  TypeOK'
  <1>1. jobs' \in [Children -> Jobs]
    BY FinishIsJob DEF TypeOK, StartFinish, TakeResult, Jobs
  <1> QED
    BY <1>1, KeySets
    DEF TypeOK, StartFinish, TakeResult, ChildStates, LiveStates,
         TerminalStates, vars, processVars, storeVars, hostVars

LEMMA EndGraceTypes ==
    ASSUME TypeOK, NEW c \in Children, EndGrace(c)
    PROVE  TypeOK'
  <1>1. jobs' \in [Children -> Jobs]
    BY QuiesceMoves DEF EndGrace, At, QuiesceSteps
  <1> QED
    BY <1>1, KeySets
    DEF TypeOK, EndGrace, TakeResult, ChildStates, LiveStates, TerminalStates,
         vars, processVars, storeVars, hostVars

LEMMA HoldIntentTypes ==
    ASSUME TypeOK, NEW c \in Children, HoldIntent(c)
    PROVE  TypeOK'
  <1>1. jobs' \in [Children -> Jobs]
    BY JobKinds, LaunchUpdates DEF TypeOK, HoldIntent, TakeResult, Jobs
  <1>2. saga' \in [LaunchKeys -> Sagas]
    BY SagaUpdates DEF TypeOK, HoldIntent, TakeResult
  <1> QED
    BY <1>1, <1>2, KeySets
    DEF TypeOK, HoldIntent, TakeResult, vars, processVars, storeVars, hostVars

LEMMA DropResultTypes ==
    ASSUME TypeOK, NEW c \in Children, DropResult(c)
    PROVE  TypeOK'
  BY KeySets
  DEF TypeOK, DropResult, TakeResult, vars, processVars, storeVars, hostVars

LEMMA GraceExpiresTypes ==
    ASSUME TypeOK, NEW c \in Children, GraceExpires(c)
    PROVE  TypeOK'
  <1>1. jobs' \in [Children -> Jobs]
    BY QuiesceMoves DEF GraceExpires, At, QuiesceSteps
  <1> QED
    BY <1>1, KeySets
    DEF TypeOK, GraceExpires, ChildStates, LiveStates, TerminalStates, vars,
         processVars, storeVars, hostVars

LEMMA StopPaneTypes ==
    ASSUME TypeOK, NEW c \in Children, StopPane(c)
    PROVE  TypeOK'
  <1>1. jobs' \in [Children -> Jobs]
    BY QuiesceMoves DEF StopPane, At, QuiesceSteps
  <1> QED
    BY <1>1, KeySets
    DEF TypeOK, StopPane, Kill, vars, processVars, storeVars, hostVars

LEMMA StopFailsTypes ==
    ASSUME TypeOK, NEW c \in Children, StopFails(c)
    PROVE  TypeOK'
  <1>1. /\ jobs' \in [Children -> Jobs]
       /\ journal' \in [Keys -> {"none", "accepted", "ok", "refused"}]
    BY EndQuiesceTypes DEF StopFails
  <1> QED
    BY <1>1, KeySets
    DEF TypeOK, StopFails, ChildStates, LiveStates, TerminalStates, vars,
         processVars, storeVars, hostVars

LEMMA VerifyWorktreeTypes ==
    ASSUME TypeOK, NEW c \in Children, VerifyWorktree(c)
    PROVE  TypeOK'
  <1>1. jobs' \in [Children -> Jobs]
    BY JobKinds, QuiesceUpdates DEF TypeOK, VerifyWorktree, At, QuiesceSteps, Jobs
  <1> QED
    BY <1>1, KeySets
    DEF TypeOK, VerifyWorktree, vars, processVars, storeVars, hostVars

LEMMA DecideOutcomeTypes ==
    ASSUME TypeOK, NEW c \in Children, DecideOutcome(c)
    PROVE  TypeOK'
  <1>1. /\ jobs' \in [Children -> Jobs]
       /\ journal' \in [Keys -> {"none", "accepted", "ok", "refused"}]
    BY EndQuiesceTypes DEF DecideOutcome
  <1>2. cstate' \in [Children -> ChildStates \cup {"none"}]
    BY JobKinds, QuiesceFields DEF TypeOK, DecideOutcome, At, QuiesceSteps, ChildStates, LiveStates, TerminalStates
  <1>3. result' \in [Children -> Results \cup {NoResult}]
    BY JobKinds, QuiesceFields DEF TypeOK, DecideOutcome, Verdict, Results, At, QuiesceSteps
  <1> QED
    BY <1>1, <1>2, <1>3, KeySets
    DEF TypeOK, DecideOutcome, vars, processVars, storeVars, hostVars

LEMMA DecideUnrecordedTypes ==
    ASSUME TypeOK, NEW c \in Children, DecideUnrecorded(c)
    PROVE  TypeOK'
  <1>1. /\ jobs' \in [Children -> Jobs]
        /\ journal' \in [Keys -> {"none", "accepted", "ok", "refused"}]
    BY EndQuiesceTypes DEF DecideUnrecorded
  <1>2. result' \in [Children -> Results \cup {NoResult}]
    <2>1. Verdict(c) \in Results
      BY JobKinds, QuiesceFields DEF DecideUnrecorded, Verdict, Results, At, QuiesceSteps
    <2> QED BY <2>1 DEF TypeOK, DecideUnrecorded
  <1> QED
    BY <1>1, <1>2
    DEF TypeOK, DecideUnrecorded, vars, processVars, storeVars, hostVars

LEMMA QuiesceLostTypes ==
    ASSUME TypeOK, NEW c \in Children, QuiesceLost(c)
    PROVE  TypeOK'
  <1>1. /\ jobs' \in [Children -> Jobs]
       /\ journal' \in [Keys -> {"none", "accepted", "ok", "refused"}]
    BY EndQuiesceTypes DEF QuiesceLost
  <1> QED
    BY <1>1, KeySets
    DEF TypeOK, QuiesceLost, vars, processVars, storeVars, hostVars

LEMMA DeliverTypes ==
    ASSUME TypeOK, NEW k, NEW step \in LaunchSteps, NEW res \in {"ok", "err", "err_owned"},
           Deliver(k, step, res)
    PROVE  jobs' \in [Children -> Jobs]
  <1> SUFFICES ASSUME NEW c \in Children, jobs[c].step = step
               PROVE  [jobs[c] EXCEPT !.res = res] \in Jobs
    BY DEF TypeOK, Deliver
  <1> QED BY JobKinds, LaunchUpdates DEF Jobs

LEMMA WorktreeWorkerTypes ==
    ASSUME TypeOK, NEW k \in LaunchKeys, WorktreeWorker(k)
    PROVE  TypeOK'
  <1>1. jobs' \in [Children -> Jobs]
    BY DeliverTypes DEF WorktreeWorker, LaunchSteps
  <1> QED
    BY <1>1, KeySets
    DEF TypeOK, WorktreeWorker, vars, processVars, storeVars, hostVars

LEMMA PaneWorkerTypes ==
    ASSUME TypeOK, NEW k \in LaunchKeys, PaneWorker(k)
    PROVE  TypeOK'
  <1>1. jobs' \in [Children -> Jobs]
    BY DeliverTypes DEF PaneWorker, LaunchSteps
  <1> QED
    BY <1>1, KeySets
    DEF TypeOK, PaneWorker, vars, processVars, storeVars, hostVars

LEMMA ReportTypes ==
    ASSUME TypeOK, NEW k \in LaunchKeys, Report(k)
    PROVE  TypeOK'
  BY KeySets
  DEF TypeOK, Report, vars, processVars, storeVars, hostVars

LEMMA WorkTypes ==
    ASSUME TypeOK, NEW k \in LaunchKeys, Work(k)
    PROVE  TypeOK'
  BY KeySets
  DEF TypeOK, Work, vars, processVars, storeVars, hostVars

LEMMA PaneExitsTypes ==
    ASSUME TypeOK, NEW k \in LaunchKeys, PaneExits(k)
    PROVE  TypeOK'
  BY KeySets
  DEF TypeOK, PaneExits, vars, processVars, storeVars, hostVars

LEMMA SendResultTypes ==
    ASSUME TypeOK, NEW k \in LaunchKeys, NEW outcome \in Outcomes, SendResult(k, outcome)
    PROVE  TypeOK'
  BY KeySets
  DEF TypeOK, SendResult, vars, processVars, storeVars, hostVars

LEMMA MuxDiesTypes ==
    ASSUME TypeOK, MuxDies
    PROVE  TypeOK'
  BY KeySets
  DEF TypeOK, MuxDies, vars, processVars, storeVars, hostVars

LEMMA NudgesUnansweredTypes ==
    ASSUME TypeOK, NEW c \in Children, NudgesUnanswered(c)
    PROVE  TypeOK'
  BY KeySets
  DEF TypeOK, NudgesUnanswered, vars, processVars, storeVars, hostVars

LEMMA ReportStalledTypes ==
    ASSUME TypeOK, NEW c \in Children, ReportStalled(c)
    PROVE  TypeOK'
  BY KeySets
  DEF TypeOK, ReportStalled, ChildStates, LiveStates, TerminalStates, vars,
         processVars, storeVars, hostVars

LEMMA LeaseExpiresTypes ==
    ASSUME TypeOK, NEW k \in LaunchKeys, LeaseExpires(k)
    PROVE  TypeOK'
  <1>1. saga' \in [LaunchKeys -> Sagas]
    BY SagaUpdates DEF TypeOK, LeaseExpires
  <1> QED
    BY <1>1, KeySets
    DEF TypeOK, LeaseExpires, vars, processVars, storeVars, hostVars

LEMMA CrashTypes ==
    ASSUME TypeOK, Crash
    PROVE  TypeOK'
  BY BoundsAssumption
  DEF TypeOK, Crash, Jobs, vars, processVars, storeVars, hostVars

LEMMA StartTypes ==
    ASSUME TypeOK, Start
    PROVE  TypeOK'
  BY KeySets
  DEF TypeOK, Start, Restored, vars, processVars, storeVars, hostVars

LEMMA CloseSagaTypes ==
    ASSUME TypeOK, NEW k \in LaunchKeys, NEW s \in FinalSteps, NEW a \in {"ok", "refused"},
           CloseSaga(k, s, a)
    PROVE  /\ saga' \in [LaunchKeys -> Sagas]
           /\ journal' \in [Keys -> {"none", "accepted", "ok", "refused"}]
  BY SagaUpdates DEF TypeOK, CloseSaga, SagaSteps

LEMMA ReconcilePendingTypes ==
    ASSUME TypeOK, NEW k \in LaunchKeys, ReconcilePending(k)
    PROVE  TypeOK'
  <1>1. pane' \in [LaunchKeys -> {"none", "gated", "running", "exited"}]
    BY KillTypes DEF TypeOK, ReconcilePending
  <1>2. wt' \in [Children -> {"absent", "clean", "dirty"}]
    BY ReclaimTypes DEF ReconcilePending
  <1>3. /\ saga' \in [LaunchKeys -> Sagas]
       /\ journal' \in [Keys -> {"none", "accepted", "ok", "refused"}]
    BY CloseSagaTypes DEF ReconcilePending, FinalSteps
  <1> QED
    BY <1>1, <1>2, <1>3, KeySets
    DEF TypeOK, ReconcilePending, vars, processVars, storeVars, hostVars

LEMMA FinishRecoveredTypes ==
    ASSUME TypeOK, NEW c, NEW outcome \in Outcomes, FinishRecovered(c, outcome)
    PROVE  /\ jobs' \in [Children -> Jobs]
           /\ cstate' \in [Children -> ChildStates \cup {"none"}]
  <1>1. FinishJob(outcome, {}) \in Jobs
    BY FinishIsJob DEF Jobs
  <1> QED BY <1>1 DEF TypeOK, FinishRecovered, ChildStates, LiveStates, TerminalStates

LEMMA AdoptFinishedTypes ==
    ASSUME TypeOK, NEW k \in LaunchKeys, AdoptFinished(k)
    PROVE  TypeOK'
  <1>1. /\ jobs' \in [Children -> Jobs]
       /\ cstate' \in [Children -> ChildStates \cup {"none"}]
    BY FinishRecoveredTypes DEF TypeOK, AdoptFinished, Sagas
  <1>2. /\ saga' \in [LaunchKeys -> Sagas]
       /\ journal' \in [Keys -> {"none", "accepted", "ok", "refused"}]
    BY CloseSagaTypes DEF AdoptFinished, FinalSteps
  <1> QED
    BY <1>1, <1>2, KeySets
    DEF TypeOK, AdoptFinished, vars, processVars, storeVars, hostVars

LEMMA AdoptRecoveredTypes ==
    ASSUME TypeOK, NEW k \in LaunchKeys, AdoptRecovered(k)
    PROVE  TypeOK'
  <1>1. /\ saga' \in [LaunchKeys -> Sagas]
       /\ journal' \in [Keys -> {"none", "accepted", "ok", "refused"}]
    BY CloseSagaTypes DEF AdoptRecovered, FinalSteps
  <1> QED
    BY <1>1, KeySets
    DEF TypeOK, AdoptRecovered, AdoptState, ChildStates, LiveStates,
         TerminalStates, vars, processVars, storeVars, hostVars

LEMMA ResumeQuiesceTypes ==
    ASSUME TypeOK, NEW c \in Children, ResumeQuiesce(c)
    PROVE  TypeOK'
  <1>1. /\ jobs' \in [Children -> Jobs]
       /\ cstate' \in [Children -> ChildStates \cup {"none"}]
    BY FinishRecoveredTypes DEF ResumeQuiesce, Outcomes
  <1> QED
    BY <1>1, KeySets
    DEF TypeOK, ResumeQuiesce, vars, processVars, storeVars, hostVars

LEMMA AnswerAbandonedTypes ==
    ASSUME TypeOK, AnswerAbandoned
    PROVE  TypeOK'
  BY KeySets
  DEF TypeOK, AnswerAbandoned, Answered, vars, processVars, storeVars,
         hostVars

LEMMA InitTypes == Init => TypeOK
  BY BoundsAssumption
  DEF Init, TypeOK, Jobs, NoSaga, Sagas, NoResult

LEMMA TypesStep == TypeOK /\ [Next]_vars => TypeOK'
  <1> SUFFICES ASSUME TypeOK, [Next]_vars
               PROVE  TypeOK'
    OBVIOUS
  <1>1. CASE Owner
    BY <1>1, RefuseRequestTypes, BeginCreateTypes, StopAnsweredTypes, StopJoinsTypes,
       BeginStopTypes, ResumeJoinsTypes, BeginResumeTypes DEF Owner
  <1>2. CASE \E c \in Children : Advance(c)
    BY <1>2, StartWorktreeTypes, ReuseWorktreeTypes, TakeWorktreeTypes,
       MintDirsTypes, StartPaneTypes, TakePaneTypes, CommitTypes,
       AwaitEgressTypes, ReleaseGateTypes, AwaitReadyTypes,
       FailLaunchTypes, GraceExpiresTypes, StopPaneTypes,
       StopFailsTypes, VerifyWorktreeTypes, DecideOutcomeTypes,
       DecideUnrecordedTypes, QuiesceLostTypes
    DEF Advance, Launch, Quiesce
  <1>3. CASE \E c \in Children : ServeResult(c) \/ Nudge(c)
    BY <1>3, StartFinishTypes, EndGraceTypes, HoldIntentTypes, DropResultTypes,
       NudgesUnansweredTypes, ReportStalledTypes
    DEF ServeResult, Nudge
  <1>4. CASE \E k \in LaunchKeys : WorktreeWorker(k) \/ PaneWorker(k) \/ Agent(k) \/ LeaseExpires(k)
    BY <1>4, WorktreeWorkerTypes, PaneWorkerTypes, LeaseExpiresTypes, ReportTypes,
       WorkTypes, PaneExitsTypes, SendResultTypes
    DEF Agent
  <1>5. CASE MuxDies \/ Crash \/ Start
    BY <1>5, MuxDiesTypes, CrashTypes, StartTypes
  <1>6. CASE Recover
    BY <1>6, ReconcilePendingTypes, AdoptFinishedTypes, AdoptRecoveredTypes,
       ResumeQuiesceTypes, AnswerAbandonedTypes DEF Recover
  <1>7. CASE UNCHANGED vars
    BY <1>7 DEF TypeOK, vars, processVars, storeVars, hostVars
  <1> QED BY <1>1, <1>2, <1>3, <1>4, <1>5, <1>6, <1>7 DEF Next

\* Type correctness, for every set of keys, every bound and every choice of
\* what may fail: TypeOK is inductive as it stands, because Jobs says which
\* fields each kind of job may carry.
THEOREM TypeCorrect == Spec => []TypeOK
  BY InitTypes, TypesStep, PTL DEF Spec

-----------------------------------------------------------------------------
(* AcceptedIsCarried                                                       *)
(*                                                                         *)
(* By itself it is not inductive: BeginCreate installs a job without       *)
(* looking whether there was one.  It needs none: a child whose `create'   *)
(* the journal has never seen has left no trace anywhere, NoTrace.         *)

NoTrace ==
    \A c \in Children : journal[c] = "none" =>
        /\ entry[c] = "none" /\ jobs[c] = Idle /\ cstate[c] = "none" /\ row[c] = NoKey
        /\ c \notin overdue
        /\ \A k \in LaunchKeys : saga[k].child # c

\* Every step keeps the journal's memory, and gives a child nothing that the
\* journal does not know.
LEMMA NoTraceKept ==
    ASSUME NoTrace,
           \A c \in Children : journal'[c] = "none" =>
               /\ journal[c] = "none"
               /\ entry'[c] = entry[c] /\ jobs'[c] = jobs[c] /\ cstate'[c] = cstate[c]
               /\ row'[c] = row[c] /\ (c \in overdue' => c \in overdue)
               /\ \A k \in LaunchKeys : saga'[k].child = saga[k].child
    PROVE  NoTrace'
  BY DEF NoTrace

\* A job that is moved on, given a result or an intent carries what it carried.
LEMMA SameCarriers ==
    ASSUME AcceptedIsCarried, journal' = journal, phase' = phase,
           \A c \in Children : /\ jobs[c].keys \subseteq jobs'[c].keys
                               /\ jobs[c].stops \subseteq jobs'[c].stops
    PROVE  AcceptedIsCarried'
  BY DEF AcceptedIsCarried

\* A key that is accepted into some job joins those already carried.
LEMMA AcceptCarries ==
    ASSUME AcceptedIsCarried, phase' = phase, NEW k \in Keys,
           \A j \in Keys : j # k => journal'[j] = journal[j],
           \E c \in Children : k \in jobs'[c].keys \cup jobs'[c].stops,
           \A c \in Children : /\ jobs[c].keys \subseteq jobs'[c].keys
                               /\ jobs[c].stops \subseteq jobs'[c].stops
    PROVE  AcceptedIsCarried'
  BY DEF AcceptedIsCarried

LEMMA NotServing ==
    ASSUME phase' # "serving"
    PROVE  AcceptedIsCarried'
  BY DEF AcceptedIsCarried

LEMMA MoveCarries ==
    ASSUME TypeOK, NEW c \in Children, NEW s, Move(c, s)
    PROVE  \A d \in Children : /\ jobs'[d].keys = jobs[d].keys /\ jobs'[d].stops = jobs[d].stops
                               /\ d # c => jobs'[d] = jobs[d]
  <1>1. jobs[c] \in Jobs /\ jobs'[c] = [jobs[c] EXCEPT !.step = s, !.res = "none"]
    BY DEF TypeOK, Move
  <1>2. jobs'[c].keys = jobs[c].keys /\ jobs'[c].stops = jobs[c].stops
    BY <1>1 DEF Jobs, Idle, LaunchJobs, QuiesceJobs
  <1> QED BY <1>2 DEF TypeOK, Move

\* A launch that ends live hands every stop it held to the job it leaves.
LEMMA HeldCarries ==
    ASSUME TypeOK, NEW c \in Children, NEW s \in LiveStates
    PROVE  jobs[c].stops \subseteq HeldJob(c, s).keys
  BY DEF HeldJob, FinishJob, StopJob, Idle

LEMMA EndLaunchCarries ==
    ASSUME TypeOK, AcceptedIsCarried, phase' = phase, NEW c \in Children,
           NEW s \in {"none", "ready", "failed"}, NEW a \in {"ok", "refused"},
           EndLaunch(c, s, a)
    PROVE  AcceptedIsCarried'
  <1> SUFFICES ASSUME phase = "serving", NEW k \in Keys, journal'[k] = "accepted"
               PROVE  \E d \in Children : k \in jobs'[d].keys \cup jobs'[d].stops
    BY DEF AcceptedIsCarried
  <1>1. journal[k] = "accepted" /\ k \notin jobs[c].keys
    BY DEF EndLaunch
  <1>2. PICK d \in Children : k \in jobs[d].keys \cup jobs[d].stops
    BY <1>1 DEF AcceptedIsCarried
  <1>3. CASE d # c
    BY <1>2, <1>3 DEF EndLaunch, TypeOK
  <1>4. CASE d = c
    <2>1. k \in jobs[c].stops /\ s \in LiveStates
      BY <1>1, <1>2, <1>4 DEF EndLaunch
    <2>2. k \in jobs'[c].keys
      BY <2>1, HeldCarries DEF EndLaunch, TypeOK
    <2> QED BY <2>2
  <1> QED BY <1>3, <1>4

LEMMA EndQuiesceCarries ==
    ASSUME TypeOK, AcceptedIsCarried, phase' = phase, NEW c \in Children,
           NEW a \in {"ok", "refused"}, jobs[c] \in QuiesceJobs, EndQuiesce(c, a)
    PROVE  AcceptedIsCarried'
  BY QuiesceFields DEF AcceptedIsCarried, EndQuiesce, Answered, TypeOK

CarriedInv == TypeOK /\ NoTrace /\ AcceptedIsCarried

LEMMA LaunchStepCarries ==
    ASSUME TypeOK, AcceptedIsCarried, NEW c \in Children,
           StartWorktree(c) \/ ReuseWorktree(c) \/ TakeWorktree(c) \/ MintDirs(c)
           \/ StartPane(c) \/ TakePane(c) \/ Commit(c) \/
           AwaitEgress(c) \/ ReleaseGate(c)
    PROVE  AcceptedIsCarried'
  BY SameCarriers, MoveCarries
  DEF StartWorktree, ReuseWorktree, TakeWorktree, MintDirs, StartPane,
         TakePane, Commit, AwaitEgress, ReleaseGate, storeVars

LEMMA RefuseCarries ==
    ASSUME TypeOK, NoTrace, AcceptedIsCarried, NEW k \in Keys, RefuseRequest(k)
    PROVE  AcceptedIsCarried'
  BY KeySets
  DEF RefuseRequest, AcceptedIsCarried, TypeOK, Fresh, processVars

LEMMA BeginCreateCarries ==
    ASSUME TypeOK, NoTrace, AcceptedIsCarried, NEW c \in Children, BeginCreate(c)
    PROVE  AcceptedIsCarried'
  BY KeySets
  DEF BeginCreate, AcceptedIsCarried, TypeOK, Fresh, Accept, NoTrace, Idle,
         LaunchJob

LEMMA StopAnsweredCarries ==
    ASSUME TypeOK, AcceptedIsCarried, NEW k \in StopKeys, NEW c \in Children,
           StopAnswered(k, c)
    PROVE  AcceptedIsCarried'
  BY KeySets DEF StopAnswered, AcceptedIsCarried, TypeOK, processVars

LEMMA BeginStopCarries ==
    ASSUME TypeOK, AcceptedIsCarried, NEW k \in StopKeys, NEW c \in Children,
           BeginStop(k, c)
    PROVE  AcceptedIsCarried'
  <1>1. jobs[c].keys = {} /\ jobs[c].stops = {}
    BY JobKinds DEF BeginStop, Idle
  <1>2. jobs'[c].keys = {k} /\ \A d \in Children : d # c => jobs'[d] = jobs[d]
    BY DEF BeginStop, TypeOK, StopJob, Idle
  <1>3. \A j \in Keys : j # k => journal'[j] = journal[j]
    BY DEF BeginStop, Accept, TypeOK
  <1>4. phase' = phase /\ k \in Keys
    BY KeySets DEF BeginStop
  <1>5. \A d \in Children : jobs[d].keys \subseteq jobs'[d].keys /\ jobs[d].stops \subseteq jobs'[d].stops
    BY <1>1, <1>2
  <1> QED BY <1>2, <1>3, <1>4, <1>5, AcceptCarries

LEMMA JobFields ==
    ASSUME NEW j \in Jobs, NEW v, NEW b
    PROVE  /\ [j EXCEPT !.keys = v].keys = v /\ [j EXCEPT !.keys = v].stops = j.stops
           /\ [j EXCEPT !.stops = v].stops = v /\ [j EXCEPT !.stops = v].keys = j.keys
           /\ [j EXCEPT !.res = v].keys = j.keys /\ [j EXCEPT !.res = v].stops = j.stops
           /\ [j EXCEPT !.intent = v, !.first = b].keys = j.keys
           /\ [j EXCEPT !.intent = v, !.first = b].stops = j.stops
  <1>1. CASE j = Idle
    BY <1>1 DEF Idle
  <1>2. CASE j \in LaunchJobs
    BY <1>2 DEF LaunchJobs
  <1>3. CASE j \in QuiesceJobs
    BY <1>3 DEF QuiesceJobs
  <1> QED BY <1>1, <1>2, <1>3 DEF Jobs

LEMMA JoinCarries ==
    ASSUME TypeOK, AcceptedIsCarried, NEW k \in Keys, NEW c \in Children,
           phase' = phase, Accept(k),
           \/ jobs' = [jobs EXCEPT ![c].keys = @ \cup {k}]
           \/ jobs' = [jobs EXCEPT ![c].stops = @ \cup {k}]
    PROVE  AcceptedIsCarried'
  <1> DEFINE j == jobs[c]
  <1>1. j \in Jobs
    BY DEF TypeOK
  <1>2. \/ jobs'[c] = [j EXCEPT !.keys = j.keys \cup {k}]
        \/ jobs'[c] = [j EXCEPT !.stops = j.stops \cup {k}]
    BY DEF TypeOK
  <1>3. /\ j.keys \subseteq jobs'[c].keys /\ j.stops \subseteq jobs'[c].stops
        /\ k \in jobs'[c].keys \cup jobs'[c].stops
    <2>1. CASE jobs'[c] = [j EXCEPT !.keys = j.keys \cup {k}]
      <3>1. jobs'[c].keys = j.keys \cup {k} /\ jobs'[c].stops = j.stops
        BY <1>1, <2>1, JobFields
      <3> QED BY <3>1
    <2>2. CASE jobs'[c] = [j EXCEPT !.stops = j.stops \cup {k}]
      <3>1. jobs'[c].stops = j.stops \cup {k} /\ jobs'[c].keys = j.keys
        BY <1>1, <2>2, JobFields
      <3> QED BY <3>1
    <2> QED BY <1>2, <2>1, <2>2
  <1>4. \A d \in Children : d # c => jobs'[d] = jobs[d]
    BY DEF TypeOK
  <1>5. \A a \in Keys : a # k => journal'[a] = journal[a]
    BY DEF Accept, TypeOK
  <1>6. \A d \in Children : jobs[d].keys \subseteq jobs'[d].keys /\ jobs[d].stops \subseteq jobs'[d].stops
    BY <1>3, <1>4
  <1> QED BY <1>3, <1>5, <1>6, AcceptCarries

LEMMA JoinsCarry ==
    ASSUME TypeOK, AcceptedIsCarried, NEW c \in Children, NEW k \in Keys,
           StopJoins(k, c) \/ ResumeJoins(k, c)
    PROVE  AcceptedIsCarried'
  BY JoinCarries DEF StopJoins, ResumeJoins, processVars

LEMMA BeginResumeCarries ==
    ASSUME TypeOK, NoTrace, AcceptedIsCarried, NEW k \in ResumeKeys, NEW c \in Children, BeginResume(k, c)
    PROVE  AcceptedIsCarried'
  BY JobKinds, KeySets
  DEF BeginResume, AcceptedIsCarried, TypeOK, Fresh, Accept, Idle, LaunchJob

LEMMA LaunchEndCarries ==
    ASSUME TypeOK, NoTrace, AcceptedIsCarried, NEW c \in Children,
           AwaitReady(c) \/ FailLaunch(c)
    PROVE  AcceptedIsCarried'
  BY EndLaunchCarries
  DEF AwaitReady, FailLaunch

LEMMA QuiesceEndCarries ==
    ASSUME TypeOK, NoTrace, AcceptedIsCarried, NEW c \in Children,
           StopFails(c) \/ DecideOutcome(c) \/ DecideUnrecorded(c) \/
           QuiesceLost(c)
    PROVE  AcceptedIsCarried'
  BY EndQuiesceCarries, JobKinds
  DEF StopFails, DecideOutcome, DecideUnrecorded, QuiesceLost, At,
         QuiesceSteps

LEMMA QuiesceStepCarries ==
    ASSUME TypeOK, NoTrace, AcceptedIsCarried, NEW c \in Children,
           EndGrace(c) \/ GraceExpires(c) \/ StopPane(c)
    PROVE  AcceptedIsCarried'
  BY SameCarriers, MoveCarries
  DEF EndGrace, GraceExpires, StopPane, storeVars

LEMMA VerifyCarries ==
    ASSUME TypeOK, AcceptedIsCarried, NEW c \in Children, VerifyWorktree(c)
    PROVE  AcceptedIsCarried'
  <1>1. PICK r : jobs' = [jobs EXCEPT ![c].res = r]
    BY DEF VerifyWorktree
  <1>2. jobs'[c].keys = jobs[c].keys /\ jobs'[c].stops = jobs[c].stops
    BY <1>1, JobFields DEF TypeOK
  <1> QED BY <1>1, <1>2, SameCarriers DEF TypeOK, VerifyWorktree, storeVars

LEMMA HoldIntentCarries ==
    ASSUME TypeOK, AcceptedIsCarried, NEW c \in Children, HoldIntent(c)
    PROVE  AcceptedIsCarried'
  <1>1. PICK o, b : jobs' = [jobs EXCEPT ![c].intent = o, ![c].first = b]
    BY DEF HoldIntent
  <1>2. jobs'[c].keys = jobs[c].keys /\ jobs'[c].stops = jobs[c].stops
    BY <1>1, JobFields DEF TypeOK
  <1> QED BY <1>1, <1>2, SameCarriers DEF TypeOK, HoldIntent, TakeResult

LEMMA StartFinishCarries ==
    ASSUME TypeOK, NoTrace, AcceptedIsCarried, NEW c \in Children, StartFinish(c)
    PROVE  AcceptedIsCarried'
  BY JobKinds
  DEF StartFinish, AcceptedIsCarried, TypeOK, Idle

LEMMA DeliverCarries ==
    ASSUME TypeOK, NEW k, NEW step, NEW res, Deliver(k, step, res)
    PROVE  \A d \in Children : /\ jobs'[d].keys = jobs[d].keys /\ jobs'[d].stops = jobs[d].stops
                               /\ jobs[d] = Idle /\ step # "none" => jobs'[d] = jobs[d]
  <1> SUFFICES ASSUME NEW d \in Children
               PROVE  /\ jobs'[d].keys = jobs[d].keys /\ jobs'[d].stops = jobs[d].stops
                      /\ jobs[d] = Idle /\ step # "none" => jobs'[d] = jobs[d]
    OBVIOUS
  <1>1. jobs[d] \in Jobs
    BY DEF TypeOK
  <1> QED BY <1>1 DEF Deliver, Jobs, Idle, LaunchJobs, QuiesceJobs

LEMMA WorkerCarries ==
    ASSUME TypeOK, NoTrace, AcceptedIsCarried, NEW k \in LaunchKeys,
           WorktreeWorker(k) \/ PaneWorker(k)
    PROVE  AcceptedIsCarried'
  BY SameCarriers, DeliverCarries
  DEF WorktreeWorker, PaneWorker, storeVars

LEMMA AgentCarries ==
    ASSUME TypeOK, NoTrace, AcceptedIsCarried, NEW k \in LaunchKeys,
           Report(k) \/ Work(k) \/ PaneExits(k) \/ LeaseExpires(k)
    PROVE  AcceptedIsCarried'
  BY SameCarriers
  DEF Report, Work, PaneExits, LeaseExpires, storeVars, processVars

LEMMA SendResultCarries ==
    ASSUME AcceptedIsCarried, NEW k \in LaunchKeys, NEW o \in Outcomes, SendResult(k, o)
    PROVE  AcceptedIsCarried'
  BY SameCarriers DEF SendResult, storeVars, processVars

LEMMA NudgeCarries ==
    ASSUME TypeOK, NoTrace, AcceptedIsCarried, NEW c \in Children,
           DropResult(c) \/ NudgesUnanswered(c) \/ ReportStalled(c)
    PROVE  AcceptedIsCarried'
  BY SameCarriers
  DEF DropResult, NudgesUnanswered, ReportStalled, storeVars

LEMMA RestartCarries ==
    ASSUME TypeOK, NoTrace, AcceptedIsCarried, MuxDies \/ Crash \/ Start
    PROVE  AcceptedIsCarried'
  BY SameCarriers, NotServing
  DEF MuxDies, Crash, Start, storeVars, processVars

LEMMA ReconcileCarries ==
    ASSUME TypeOK, NoTrace, AcceptedIsCarried, NEW k \in LaunchKeys,
           ReconcilePending(k) \/ AdoptFinished(k) \/ AdoptRecovered(k)
    PROVE  AcceptedIsCarried'
  BY NotServing
  DEF ReconcilePending, AdoptFinished, AdoptRecovered, processVars

LEMMA ResumeQuiesceCarries ==
    ASSUME TypeOK, NoTrace, AcceptedIsCarried, NEW c \in Children, ResumeQuiesce(c)
    PROVE  AcceptedIsCarried'
  BY NotServing
  DEF ResumeQuiesce

LEMMA AnswerAbandonedCarries ==
    ASSUME TypeOK, NoTrace, AcceptedIsCarried, AnswerAbandoned
    PROVE  AcceptedIsCarried'
  BY KeySets
  DEF AnswerAbandoned, AcceptedIsCarried, TypeOK, Answered, Abandoned

-----------------------------------------------------------------------------
(* NoTrace *)

LEMMA SagaFields ==
    ASSUME NEW g \in Sagas, NEW s, NEW b, NEW m
    PROVE  /\ [g EXCEPT !.step = s, !.leased = b].child = g.child
           /\ [g EXCEPT !.step = s, !.claimed = m, !.leased = b].child = g.child
           /\ [g EXCEPT !.outcome = s, !.leased = b].child = g.child
           /\ [g EXCEPT !.claimed = TRUE, !.leased = TRUE].child = g.child
           /\ [g EXCEPT !.mux = TRUE, !.leased = TRUE].child = g.child
           /\ [g EXCEPT !.leased = b].child = g.child
  BY DEF Sagas

LEMMA NewSagaChild ==
    ASSUME NEW c
    PROVE  NewSaga(c).child = c
  BY DEF NewSaga, NoSaga

LEMMA RecordKeepsChild ==
    ASSUME TypeOK, NEW k, NEW s, Record(k, s)
    PROVE  \A j \in LaunchKeys : saga'[j].child = saga[j].child
  BY SagaFields DEF TypeOK, Record

LEMMA CloseKeepsChild ==
    ASSUME TypeOK, NEW k, NEW s, NEW a, CloseSaga(k, s, a)
    PROVE  \A j \in LaunchKeys : saga'[j].child = saga[j].child
  BY SagaFields DEF TypeOK, CloseSaga

LEMMA LaunchKeepsChild ==
    ASSUME TypeOK, NEW c \in Children,
           StartWorktree(c) \/ ReuseWorktree(c) \/ TakeWorktree(c) \/ MintDirs(c)
           \/ StartPane(c) \/ TakePane(c) \/ Commit(c) \/ AwaitEgress(c) \/ ReleaseGate(c)
           \/ AwaitReady(c) \/ FailLaunch(c) \/ HoldIntent(c)
    PROVE  \A j \in LaunchKeys : saga'[j].child = saga[j].child
  <1>1. CASE \/ StartWorktree(c) \/ MintDirs(c) \/ StartPane(c) \/ Commit(c)
             \/ AwaitEgress(c) \/ ReleaseGate(c) \/ AwaitReady(c)
    BY <1>1, RecordKeepsChild
    DEF StartWorktree, MintDirs, StartPane, Commit, AwaitEgress, ReleaseGate, AwaitReady
  <1>2. CASE ReuseWorktree(c)
    BY <1>2 DEF ReuseWorktree, storeVars
  <1>3. CASE TakeWorktree(c)
    <2>1. PICK x : saga' = [saga EXCEPT ![x].claimed = TRUE, ![x].leased = TRUE]
      BY <1>3 DEF TakeWorktree
    <2> QED BY <2>1, SagaFields DEF TypeOK
  <1>4. CASE TakePane(c)
    <2>1. PICK x : saga' = [saga EXCEPT ![x].mux = TRUE, ![x].leased = TRUE]
      BY <1>4 DEF TakePane
    <2> QED BY <2>1, SagaFields DEF TypeOK
  <1>5. CASE FailLaunch(c)
    <2>1. PICK x, m : saga' = [saga EXCEPT ![x].step = "failed", ![x].claimed = m,
                                           ![x].leased = TRUE]
      BY <1>5 DEF FailLaunch
    <2> QED BY <2>1, SagaFields DEF TypeOK
  <1>6. CASE HoldIntent(c)
    BY <1>6, SagaFields DEF TypeOK, HoldIntent
  <1> QED BY <1>1, <1>2, <1>3, <1>4, <1>5, <1>6

\* A child some job drives is one whose `create' the journal knows.
LEMMA DrivenIsKnown ==
    ASSUME NoTrace, NEW c \in Children, jobs[c].step # "none" \/ Busy(c)
    PROVE  journal[c] # "none"
  BY DEF NoTrace, Busy, Idle

\* What a step does to one child leaves every other without a trace, and its
\* own child is known already.
LEMMA NoTraceBut ==
    ASSUME NoTrace, NEW c \in Children, journal'[c] # "none",
           \A d \in Children : d # c =>
               /\ journal'[d] = "none" => journal[d] = "none"
               /\ entry'[d] = entry[d] /\ jobs'[d] = jobs[d] /\ cstate'[d] = cstate[d]
               /\ row'[d] = row[d] /\ (d \in overdue' => d \in overdue),
           \A k \in LaunchKeys : saga'[k].child \in {saga[k].child, c}
    PROVE  NoTrace'
  BY DEF NoTrace

\* A step that touches none of what NoTrace is about.
LEMMA NoTraceSame ==
    ASSUME NoTrace, \A d \in Children : journal'[d] = "none" => journal[d] = "none",
           entry' = entry, jobs' = jobs, cstate' = cstate, row' = row,
           overdue' \subseteq overdue,
           \A k \in LaunchKeys : saga'[k].child = saga[k].child
    PROVE  NoTrace'
  BY NoTraceKept

LEMMA LaunchStepNoTrace ==
    ASSUME TypeOK, NoTrace, NEW c \in Children,
           StartWorktree(c) \/ ReuseWorktree(c) \/ TakeWorktree(c) \/ MintDirs(c)
           \/ StartPane(c) \/ TakePane(c) \/ Commit(c) \/ AwaitEgress(c) \/ ReleaseGate(c)
    PROVE  NoTrace'
  <1>1. journal'[c] # "none" /\ journal' = journal
    BY DrivenIsKnown
    DEF StartWorktree, ReuseWorktree, TakeWorktree, MintDirs, StartPane, TakePane,
        Commit, AwaitEgress, ReleaseGate, At, storeVars
  <1>2. \A k \in LaunchKeys : saga'[k].child \in {saga[k].child, c}
    BY LaunchKeepsChild
  <1>3. \A d \in Children : d # c =>
            /\ entry'[d] = entry[d] /\ jobs'[d] = jobs[d] /\ cstate'[d] = cstate[d]
            /\ row'[d] = row[d] /\ (d \in overdue' => d \in overdue)
    BY DEF StartWorktree, ReuseWorktree, TakeWorktree, MintDirs, StartPane, TakePane,
           Commit, AwaitEgress, ReleaseGate, Move, TypeOK, storeVars
  <1> QED BY <1>1, <1>2, <1>3, NoTraceBut

LEMMA EndLaunchJournal ==
    ASSUME TypeOK, NEW c \in Children, NEW s, NEW a \in {"ok", "refused"},
           EndLaunch(c, s, a)
    PROVE  /\ \A k \in Keys : journal'[k] = "none" => journal[k] = "none"
           /\ \A d \in Children : d # c => jobs'[d] = jobs[d] /\ cstate'[d] = cstate[d]
  BY DEF EndLaunch, TypeOK

LEMMA LaunchEndNoTrace ==
    ASSUME TypeOK, NoTrace, NEW c \in Children, AwaitReady(c) \/ FailLaunch(c)
    PROVE  NoTrace'
  <1>1. journal[c] # "none"
    BY DrivenIsKnown DEF AwaitReady, FailLaunch, At, Launching, Busy
  <1>2. \E s : \E a \in {"ok", "refused"} : EndLaunch(c, s, a)
    <2>1. CASE AwaitReady(c)
      BY <2>1 DEF AwaitReady
    <2>2. CASE FailLaunch(c)
      <3>1. EndLaunch(c, IF Owned(c) THEN "failed" ELSE "none", "refused")
        BY <2>2 DEF FailLaunch
      <3> QED BY <3>1
    <2> QED BY <2>1, <2>2
  <1>3. \A k \in LaunchKeys : saga'[k].child \in {saga[k].child, c}
    BY LaunchKeepsChild
  <1>4. \A d \in Children : d # c =>
            entry'[d] = entry[d] /\ row'[d] = row[d] /\ (d \in overdue' => d \in overdue)
    BY DEF AwaitReady, FailLaunch, TypeOK
  <1> QED BY <1>1, <1>2, <1>3, <1>4, EndLaunchJournal, NoTraceBut, KeySets

LEMMA QuiesceNoTrace ==
    ASSUME TypeOK, NoTrace, NEW c \in Children, Quiesce(c)
    PROVE  NoTrace'
  <1>1. journal[c] # "none"
    BY DrivenIsKnown
    DEF Quiesce, GraceExpires, StopPane, StopFails, VerifyWorktree, DecideOutcome,
        DecideUnrecorded, QuiesceLost, At
  <1>2. \A k \in Keys : journal'[k] = "none" => journal[k] = "none"
    BY DEF Quiesce, GraceExpires, StopPane, StopFails, VerifyWorktree, DecideOutcome,
           DecideUnrecorded, QuiesceLost, EndQuiesce, Answered, storeVars
  <1>3. saga' = saga /\ row' = row /\ overdue' = overdue
    BY DEF Quiesce, GraceExpires, StopPane, StopFails, VerifyWorktree, DecideOutcome,
           DecideUnrecorded, QuiesceLost, storeVars
  <1>4. \A d \in Children : d # c =>
            jobs'[d] = jobs[d] /\ cstate'[d] = cstate[d] /\ entry'[d] = entry[d]
    BY DEF Quiesce, GraceExpires, StopPane, StopFails, VerifyWorktree, DecideOutcome,
           DecideUnrecorded, QuiesceLost, EndQuiesce, Move, TypeOK, storeVars
  <1> QED BY <1>1, <1>2, <1>3, <1>4, NoTraceBut, KeySets

LEMMA ServedIsKnown ==
    ASSUME NoTrace, NEW c \in Children, Served(c) \/ Owned(c) \/ c \in overdue
    PROVE  journal[c] # "none"
  BY DEF NoTrace, Served, Owned

LEMMA ServeResultNoTrace ==
    ASSUME TypeOK, NoTrace, NEW c \in Children, ServeResult(c)
    PROVE  NoTrace'
  <1>1. journal'[c] # "none" /\ journal' = journal
    BY ServedIsKnown
    DEF ServeResult, StartFinish, EndGrace, HoldIntent, DropResult, TakeResult, storeVars
  <1>2. \A k \in LaunchKeys : saga'[k].child \in {saga[k].child, c}
    BY LaunchKeepsChild DEF ServeResult, StartFinish, EndGrace, DropResult, storeVars
  <1>3. \A d \in Children : d # c =>
            /\ entry'[d] = entry[d] /\ jobs'[d] = jobs[d] /\ cstate'[d] = cstate[d]
            /\ row'[d] = row[d] /\ (d \in overdue' => d \in overdue)
    BY DEF ServeResult, StartFinish, EndGrace, HoldIntent, DropResult, TakeResult, Move,
           TypeOK, storeVars
  <1> QED BY <1>1, <1>2, <1>3, NoTraceBut

LEMMA NudgeNoTrace ==
    ASSUME TypeOK, NoTrace, NEW c \in Children, Nudge(c)
    PROVE  NoTrace'
  <1>1. journal'[c] # "none" /\ journal' = journal
    BY ServedIsKnown DEF Nudge, NudgesUnanswered, ReportStalled, Revalidates, Served, storeVars
  <1>2. saga' = saga /\ entry' = entry /\ jobs' = jobs /\ row' = row
    BY DEF Nudge, NudgesUnanswered, ReportStalled, storeVars
  <1>3. \A d \in Children : d # c => cstate'[d] = cstate[d] /\ (d \in overdue' => d \in overdue)
    BY DEF Nudge, NudgesUnanswered, ReportStalled, TypeOK, storeVars
  <1> QED BY <1>1, <1>2, <1>3, NoTraceBut

LEMMA OwnerNoTrace ==
    ASSUME TypeOK, NoTrace, Owner
    PROVE  NoTrace'
  <1>1. ASSUME NEW k \in Keys, RefuseRequest(k)
        PROVE  NoTrace'
    BY <1>1, NoTraceSame, KeySets DEF RefuseRequest, TypeOK, processVars
  <1>2. ASSUME NEW c \in Children, BeginCreate(c)
        PROVE  NoTrace'
    <2>1. saga' = [saga EXCEPT ![c] = NewSaga(c)] /\ c \in LaunchKeys
      BY <1>2, KeySets DEF BeginCreate
    <2>2. \A k \in LaunchKeys : saga'[k].child \in {saga[k].child, c}
      BY <2>1, NewSagaChild DEF TypeOK
    <2>3. journal' = [journal EXCEPT ![c] = "accepted"]
          /\ jobs' = [jobs EXCEPT ![c] = LaunchJob("create", c)]
          /\ UNCHANGED <<entry, cstate, row, overdue>>
      BY <1>2 DEF BeginCreate, Accept
    <2> QED BY <2>2, <2>3, NoTraceBut, KeySets DEF TypeOK
  <1>3. ASSUME NEW c \in Children, NEW k \in Keys,
               StopAnswered(k, c) \/ StopJoins(k, c) \/ BeginStop(k, c)
        PROVE  NoTrace'
    <2>1. journal[c] # "none"
      BY <1>3, ServedIsKnown DEF StopAnswered, StopJoins, BeginStop
    <2>2. \A a \in Keys : journal'[a] = "none" => journal[a] = "none"
      BY <1>3 DEF StopAnswered, StopJoins, BeginStop, Accept, TypeOK
    <2>3. UNCHANGED <<entry, cstate, row, overdue, saga>>
      BY <1>3 DEF StopAnswered, StopJoins, BeginStop, processVars
    <2>4. \A d \in Children : d # c => jobs'[d] = jobs[d]
      BY <1>3 DEF StopAnswered, StopJoins, BeginStop, processVars, TypeOK
    <2> QED BY <2>1, <2>2, <2>3, <2>4, NoTraceBut, KeySets
  <1>4. ASSUME NEW c \in Children, NEW k \in ResumeKeys,
               ResumeJoins(k, c) \/ BeginResume(k, c)
        PROVE  NoTrace'
    <2>1. journal[c] # "none"
      BY <1>4, ServedIsKnown DEF ResumeJoins, BeginResume, ResumableStates, Owned
    <2>2. \A a \in Keys : journal'[a] = "none" => journal[a] = "none"
      BY <1>4 DEF ResumeJoins, BeginResume, Accept, TypeOK
    <2>3. UNCHANGED <<row, overdue>>
      BY <1>4 DEF ResumeJoins, BeginResume
    <2>4. \A d \in Children : d # c =>
              entry'[d] = entry[d] /\ jobs'[d] = jobs[d] /\ cstate'[d] = cstate[d]
      BY <1>4 DEF ResumeJoins, BeginResume, RetireForResume, TypeOK
    <2>5. \A a \in LaunchKeys : saga'[a].child \in {saga[a].child, c}
      BY <1>4, NewSagaChild DEF ResumeJoins, BeginResume, TypeOK
    <2> QED BY <2>1, <2>2, <2>3, <2>4, <2>5, NoTraceBut, KeySets
  <1> QED BY <1>1, <1>2, <1>3, <1>4, KeySets DEF Owner

LEMMA HostNoTrace ==
    ASSUME TypeOK, NoTrace, NEW k \in LaunchKeys, Agent(k) \/ LeaseExpires(k)
    PROVE  NoTrace'
  <1>1. \A j \in LaunchKeys : saga'[j].child = saga[j].child
    <2>1. CASE Agent(k)
      BY <2>1 DEF Agent, Report, Work, PaneExits, SendResult, storeVars
    <2>2. CASE LeaseExpires(k)
      BY <2>2, SagaFields DEF LeaseExpires, TypeOK
    <2> QED BY <2>1, <2>2
  <1>2. UNCHANGED <<journal, entry, jobs, cstate, row, overdue>>
    BY DEF Agent, Report, Work, PaneExits, SendResult, LeaseExpires, storeVars, processVars
  <1> QED BY <1>1, <1>2, NoTraceSame

LEMMA WorkerNoTrace ==
    ASSUME TypeOK, NoTrace, NEW k \in LaunchKeys, WorktreeWorker(k) \/ PaneWorker(k)
    PROVE  NoTrace'
  <1>1. UNCHANGED <<journal, entry, cstate, row, overdue, saga>>
    BY DEF WorktreeWorker, PaneWorker, storeVars
  <1>2. \A d \in Children : jobs[d] = Idle => jobs'[d] = jobs[d]
    BY DeliverCarries DEF WorktreeWorker, PaneWorker
  <1> QED BY <1>1, <1>2 DEF NoTrace

LEMMA RestartNoTrace ==
    ASSUME TypeOK, NoTrace, MuxDies \/ Crash \/ Start
    PROVE  NoTrace'
  <1>1. CASE MuxDies
    BY <1>1, NoTraceSame DEF MuxDies, storeVars, processVars
  <1>2. CASE Crash
    BY <1>2 DEF Crash, NoTrace, storeVars
  <1>3. CASE Start
    BY <1>3 DEF Start, Restored, NoTrace, storeVars
  <1> QED BY <1>1, <1>2, <1>3

\* Recovery looks only at sagas and children there are.
LEMMA ReconcileNoTrace ==
    ASSUME TypeOK, NoTrace, NEW k \in LaunchKeys,
           ReconcilePending(k) \/ AdoptFinished(k) \/ AdoptRecovered(k)
    PROVE  NoTrace'
  <1> DEFINE c == saga[k].child
  <1>1. \A j \in LaunchKeys : saga'[j].child = saga[j].child
    BY CloseKeepsChild DEF ReconcilePending, AdoptFinished, AdoptRecovered
  <1>2. \A j \in Keys : journal'[j] = "none" => journal[j] = "none"
    BY DEF ReconcilePending, AdoptFinished, AdoptRecovered, CloseSaga, TypeOK
  <1>3. UNCHANGED <<entry, row, overdue>>
    BY DEF ReconcilePending, AdoptFinished, AdoptRecovered, processVars
  <1>4. \A d \in Children : d # c => jobs'[d] = jobs[d] /\ cstate'[d] = cstate[d]
    BY DEF ReconcilePending, AdoptFinished, AdoptRecovered, FinishRecovered, processVars, TypeOK
  <1> QED BY <1>1, <1>2, <1>3, <1>4, KeySets DEF NoTrace

LEMMA ResumeQuiesceNoTrace ==
    ASSUME TypeOK, NoTrace, NEW c \in Children, ResumeQuiesce(c)
    PROVE  NoTrace'
  <1>1. journal[c] # "none"
    BY ServedIsKnown DEF ResumeQuiesce, Owned
  <1>2. UNCHANGED <<entry, row, overdue, saga, journal>>
    BY DEF ResumeQuiesce
  <1>3. \A d \in Children : d # c => jobs'[d] = jobs[d] /\ cstate'[d] = cstate[d]
    BY DEF ResumeQuiesce, FinishRecovered, TypeOK
  <1> QED BY <1>1, <1>2, <1>3, NoTraceBut

LEMMA AnswerAbandonedNoTrace ==
    ASSUME TypeOK, NoTrace, AnswerAbandoned
    PROVE  NoTrace'
  BY NoTraceSame, KeySets DEF AnswerAbandoned, Answered, TypeOK

-----------------------------------------------------------------------------
(* The theorem *)

LEMMA InitCarried == Init => CarriedInv
  <1> SUFFICES ASSUME Init
               PROVE  NoTrace /\ AcceptedIsCarried
    BY InitTypes DEF CarriedInv
  <1>1. \A k \in LaunchKeys : saga[k].child = NoKey
    BY DEF Init, NoSaga
  <1>2. NoKey \notin Children
    BY KeysAssumption, KeySets
  <1>3. NoTrace
    BY <1>1, <1>2 DEF Init, NoTrace
  <1>4. AcceptedIsCarried
    BY DEF Init, AcceptedIsCarried
  <1> QED BY <1>3, <1>4

LEMMA NoTraceStep == TypeOK /\ NoTrace /\ [Next]_vars => NoTrace'
  <1> SUFFICES ASSUME TypeOK, NoTrace, [Next]_vars
               PROVE  NoTrace'
    OBVIOUS
  <1>1. CASE Owner
    BY <1>1, OwnerNoTrace
  <1>2. ASSUME NEW c \in Children, Advance(c)
        PROVE  NoTrace'
    BY <1>2, LaunchStepNoTrace, LaunchEndNoTrace, QuiesceNoTrace DEF Advance, Launch
  <1>3. ASSUME NEW c \in Children, ServeResult(c) \/ Nudge(c)
        PROVE  NoTrace'
    BY <1>3, ServeResultNoTrace, NudgeNoTrace
  <1>4. ASSUME NEW k \in LaunchKeys, WorktreeWorker(k) \/ PaneWorker(k) \/ Agent(k) \/ LeaseExpires(k)
        PROVE  NoTrace'
    BY <1>4, WorkerNoTrace, HostNoTrace
  <1>5. CASE MuxDies \/ Crash \/ Start
    BY <1>5, RestartNoTrace
  <1>6. CASE Recover
    BY <1>6, ReconcileNoTrace, ResumeQuiesceNoTrace, AnswerAbandonedNoTrace DEF Recover
  <1>7. CASE UNCHANGED vars
    BY <1>7, NoTraceSame DEF vars, processVars, storeVars, hostVars
  <1> QED BY <1>1, <1>2, <1>3, <1>4, <1>5, <1>6, <1>7 DEF Next

LEMMA CarriedStep == CarriedInv /\ [Next]_vars => AcceptedIsCarried'
  <1> SUFFICES ASSUME TypeOK, NoTrace, AcceptedIsCarried, [Next]_vars
               PROVE  AcceptedIsCarried'
    BY DEF CarriedInv
  <1>1. CASE Owner
    BY <1>1, RefuseCarries, BeginCreateCarries, StopAnsweredCarries, BeginStopCarries,
       JoinsCarry, BeginResumeCarries, KeySets DEF Owner
  <1>2. ASSUME NEW c \in Children, Advance(c)
        PROVE  AcceptedIsCarried'
    BY <1>2, LaunchStepCarries, LaunchEndCarries, QuiesceStepCarries, QuiesceEndCarries,
       VerifyCarries DEF Advance, Launch, Quiesce
  <1>3. ASSUME NEW c \in Children, ServeResult(c) \/ Nudge(c)
        PROVE  AcceptedIsCarried'
    BY <1>3, StartFinishCarries, QuiesceStepCarries, HoldIntentCarries, NudgeCarries
    DEF ServeResult, Nudge
  <1>4. ASSUME NEW k \in LaunchKeys, WorktreeWorker(k) \/ PaneWorker(k) \/ Agent(k) \/ LeaseExpires(k)
        PROVE  AcceptedIsCarried'
    BY <1>4, WorkerCarries, AgentCarries, SendResultCarries DEF Agent
  <1>5. CASE MuxDies \/ Crash \/ Start
    BY <1>5, RestartCarries
  <1>6. CASE Recover
    BY <1>6, ReconcileCarries, ResumeQuiesceCarries, AnswerAbandonedCarries DEF Recover
  <1>7. CASE UNCHANGED vars
    BY <1>7, SameCarriers DEF vars, processVars, storeVars
  <1> QED BY <1>1, <1>2, <1>3, <1>4, <1>5, <1>6, <1>7 DEF Next

\* Whatever the process accepted, it carries: while the broker serves, every
\* key journaled `accepted' is in the job of some child.  The invariant is
\* types, NoTrace and the property itself, each kept by every step.
THEOREM RequestsAreCarried == Spec => []AcceptedIsCarried
  <1>1. CarriedInv /\ [Next]_vars => CarriedInv'
    BY TypesStep, NoTraceStep, CarriedStep DEF CarriedInv
  <1>2. CarriedInv => AcceptedIsCarried
    BY DEF CarriedInv
  <1> QED BY InitCarried, <1>1, <1>2, PTL DEF Spec

-----------------------------------------------------------------------------
(* What a handler writes, field by field *)

\* The fields a write leaves alone, and those it sets.
LEMMA SagaWrites ==
    ASSUME NEW g \in Sagas, NEW s, NEW b, NEW m
    PROVE  /\ LET h == [g EXCEPT !.step = s, !.leased = b]
              IN  h.step = s /\ h.child = g.child /\ h.claimed = g.claimed /\ h.outcome = g.outcome
           /\ LET h == [g EXCEPT !.step = s, !.claimed = m, !.leased = b]
              IN  h.step = s /\ h.child = g.child /\ h.claimed = m /\ h.outcome = g.outcome
           /\ LET h == [g EXCEPT !.outcome = s, !.leased = b]
              IN  h.step = g.step /\ h.child = g.child /\ h.claimed = g.claimed /\ h.outcome = s
           /\ LET h == [g EXCEPT !.claimed = TRUE, !.leased = TRUE]
              IN  h.step = g.step /\ h.child = g.child /\ h.claimed = TRUE /\ h.outcome = g.outcome
           /\ LET h == [g EXCEPT !.mux = TRUE, !.leased = TRUE]
              IN  h.step = g.step /\ h.child = g.child /\ h.claimed = g.claimed
                  /\ h.outcome = g.outcome
           /\ LET h == [g EXCEPT !.leased = b]
              IN  h.step = g.step /\ h.child = g.child /\ h.claimed = g.claimed
                  /\ h.outcome = g.outcome
  BY DEF Sagas

LEMMA NewSagaFields ==
    ASSUME NEW c
    PROVE  /\ NewSaga(c).step = "named" /\ NewSaga(c).child = c
           /\ ~NewSaga(c).claimed /\ NewSaga(c).outcome = "none"
  BY DEF NewSaga, NoSaga

\* A row is written under key k.
Wrote(k) ==
    /\ saga'[k].child = saga[k].child
    /\ \A j \in LaunchKeys : j # k => saga'[j] = saga[j]

LEMMA RecordWrites ==
    ASSUME TypeOK, NEW k \in LaunchKeys, NEW s, Record(k, s)
    PROVE  /\ Wrote(k) /\ saga'[k].step = s
           /\ saga'[k].claimed = saga[k].claimed /\ saga'[k].outcome = saga[k].outcome
  <1>1. saga[k] \in Sagas /\ saga'[k] = [saga[k] EXCEPT !.step = s, !.leased = TRUE]
        /\ \A j \in LaunchKeys : j # k => saga'[j] = saga[j]
    BY DEF Record, TypeOK
  <1> QED BY <1>1, SagaWrites DEF Wrote

LEMMA TakeWrites ==
    ASSUME TypeOK, NEW k \in LaunchKeys,
           \/ saga' = [saga EXCEPT ![k].claimed = TRUE, ![k].leased = TRUE]
           \/ saga' = [saga EXCEPT ![k].mux = TRUE, ![k].leased = TRUE]
    PROVE  /\ Wrote(k) /\ saga'[k].step = saga[k].step /\ saga'[k].outcome = saga[k].outcome
           /\ saga' = [saga EXCEPT ![k].mux = TRUE, ![k].leased = TRUE] =>
                 saga'[k].claimed = saga[k].claimed
  <1>1. saga[k] \in Sagas
        /\ \A j \in LaunchKeys : j # k => saga'[j] = saga[j]
    BY DEF TypeOK
  <1>2. \/ saga'[k] = [saga[k] EXCEPT !.claimed = TRUE, !.leased = TRUE]
        \/ saga'[k] = [saga[k] EXCEPT !.mux = TRUE, !.leased = TRUE]
    BY DEF TypeOK
  <1>3. saga' = [saga EXCEPT ![k].mux = TRUE, ![k].leased = TRUE] =>
            saga'[k] = [saga[k] EXCEPT !.mux = TRUE, !.leased = TRUE]
    BY DEF TypeOK
  <1> DEFINE g == [saga[k] EXCEPT !.claimed = TRUE, !.leased = TRUE]
             h == [saga[k] EXCEPT !.mux = TRUE, !.leased = TRUE]
  <1>4. g.step = saga[k].step /\ g.child = saga[k].child /\ g.outcome = saga[k].outcome
    BY <1>1, SagaWrites
  <1>5. h.step = saga[k].step /\ h.child = saga[k].child /\ h.outcome = saga[k].outcome
        /\ h.claimed = saga[k].claimed
    BY <1>1, SagaWrites
  <1>6. (saga'[k] = g \/ saga'[k] = h)
        /\ (saga' = [saga EXCEPT ![k].mux = TRUE, ![k].leased = TRUE] => saga'[k] = h)
    BY <1>2, <1>3
  <1> HIDE DEF g, h
  <1> QED BY <1>1, <1>4, <1>5, <1>6 DEF Wrote

LEMMA CloseWrites ==
    ASSUME TypeOK, NEW k \in LaunchKeys, NEW s, NEW a, CloseSaga(k, s, a)
    PROVE  /\ Wrote(k) /\ saga'[k].step = s
           /\ saga'[k].claimed = saga[k].claimed /\ saga'[k].outcome = saga[k].outcome
  <1>1. saga[k] \in Sagas /\ saga'[k] = [saga[k] EXCEPT !.step = s, !.leased = FALSE]
        /\ \A j \in LaunchKeys : j # k => saga'[j] = saga[j]
    BY DEF CloseSaga, TypeOK
  <1> QED BY <1>1, SagaWrites DEF Wrote

LEMMA FailWrites ==
    ASSUME TypeOK, NEW k \in LaunchKeys, NEW m,
           saga' = [saga EXCEPT ![k].step = "failed", ![k].claimed = m, ![k].leased = TRUE]
    PROVE  /\ Wrote(k) /\ saga'[k].step = "failed" /\ saga'[k].claimed = m
           /\ saga'[k].outcome = saga[k].outcome
  <1> DEFINE g == [saga[k] EXCEPT !.step = "failed", !.claimed = m, !.leased = TRUE]
  <1>1. saga[k] \in Sagas /\ saga'[k] = g
        /\ \A j \in LaunchKeys : j # k => saga'[j] = saga[j]
    BY DEF TypeOK
  <1>2. g.step = "failed" /\ g.child = saga[k].child /\ g.claimed = m
        /\ g.outcome = saga[k].outcome
    BY <1>1, SagaWrites
  <1> HIDE DEF g
  <1> QED BY <1>1, <1>2 DEF Wrote

LEMMA HoldWrites ==
    ASSUME TypeOK, NEW k \in LaunchKeys, NEW o,
           saga' = [saga EXCEPT ![k].outcome = o, ![k].leased = TRUE]
    PROVE  /\ Wrote(k) /\ saga'[k].step = saga[k].step /\ saga'[k].claimed = saga[k].claimed
           /\ saga'[k].outcome = o
  <1> DEFINE g == [saga[k] EXCEPT !.outcome = o, !.leased = TRUE]
  <1>1. saga[k] \in Sagas /\ saga'[k] = g
        /\ \A j \in LaunchKeys : j # k => saga'[j] = saga[j]
    BY DEF TypeOK
  <1>2. g.step = saga[k].step /\ g.child = saga[k].child /\ g.claimed = saga[k].claimed
        /\ g.outcome = o
    BY <1>1, SagaWrites
  <1> HIDE DEF g
  <1> QED BY <1>1, <1>2 DEF Wrote

LEMMA LeaseWrites ==
    ASSUME TypeOK, NEW k \in LaunchKeys, saga' = [saga EXCEPT ![k].leased = FALSE]
    PROVE  \A i \in LaunchKeys :
              /\ saga'[i].child = saga[i].child /\ saga'[i].step = saga[i].step
              /\ saga'[i].claimed = saga[i].claimed /\ saga'[i].outcome = saga[i].outcome
  <1> DEFINE g == [saga[k] EXCEPT !.leased = FALSE]
  <1>1. saga[k] \in Sagas /\ saga'[k] = g /\ \A i \in LaunchKeys : i # k => saga'[i] = saga[i]
    BY DEF TypeOK
  <1>2. g.step = saga[k].step /\ g.child = saga[k].child /\ g.claimed = saga[k].claimed
        /\ g.outcome = saga[k].outcome
    BY <1>1, SagaWrites
  <1> HIDE DEF g
  <1> QED BY <1>1, <1>2

LEMMA JobWrites ==
    ASSUME NEW j \in LaunchJobs \cup QuiesceJobs, NEW s, NEW b
    PROVE  /\ LET h == [j EXCEPT !.step = s, !.res = "none"]
              IN  /\ h.goal = j.goal /\ h.step = s /\ h.key = j.key /\ h.res = "none"
                  /\ h.intent = j.intent /\ h.clean = j.clean /\ h.outcome = j.outcome
           /\ LET h == [j EXCEPT !.res = s]
              IN  /\ h.goal = j.goal /\ h.step = j.step /\ h.key = j.key /\ h.res = s
                  /\ h.intent = j.intent /\ h.clean = j.clean /\ h.outcome = j.outcome
           /\ LET h == [j EXCEPT !.intent = s, !.first = b]
              IN  /\ h.goal = j.goal /\ h.step = j.step /\ h.key = j.key /\ h.res = j.res
                  /\ h.intent = s /\ h.clean = j.clean /\ h.outcome = j.outcome
           /\ LET h == [j EXCEPT !.keys = s]
              IN  /\ h.goal = j.goal /\ h.step = j.step /\ h.key = j.key /\ h.res = j.res
                  /\ h.intent = j.intent /\ h.clean = j.clean /\ h.outcome = j.outcome
           /\ LET h == [j EXCEPT !.stops = s]
              IN  /\ h.goal = j.goal /\ h.step = j.step /\ h.key = j.key /\ h.res = j.res
                  /\ h.intent = j.intent /\ h.clean = j.clean /\ h.outcome = j.outcome
  <1>1. CASE j \in LaunchJobs
    BY <1>1 DEF LaunchJobs
  <1>2. CASE j \in QuiesceJobs
    BY <1>2 DEF QuiesceJobs
  <1> QED BY <1>1, <1>2

LEMMA BusyJobs ==
    ASSUME TypeOK, NEW c \in Children,
           Busy(c) \/ jobs[c].step # "none"
    PROVE  jobs[c] \in LaunchJobs \cup QuiesceJobs
  BY JobKinds DEF Jobs, Idle, Busy

LEMMA MoveDoes ==
    ASSUME TypeOK, NEW c \in Children, jobs[c].step # "none", NEW s, Move(c, s)
    PROVE  /\ jobs'[c].goal = jobs[c].goal /\ jobs'[c].step = s /\ jobs'[c].key = jobs[c].key
           /\ jobs'[c].res = "none" /\ jobs'[c].intent = jobs[c].intent
           /\ jobs'[c].clean = jobs[c].clean /\ jobs'[c].outcome = jobs[c].outcome
           /\ \A d \in Children : d # c => jobs'[d] = jobs[d]
  <1>1. jobs[c] \in LaunchJobs \cup QuiesceJobs
    BY BusyJobs
  <1>2. jobs'[c] = [jobs[c] EXCEPT !.step = s, !.res = "none"]
        /\ \A d \in Children : d # c => jobs'[d] = jobs[d]
    BY DEF Move, TypeOK
  <1> QED BY <1>1, <1>2, JobWrites

LEMMA NewLaunch ==
    ASSUME NEW goal, NEW k
    PROVE  LET j == LaunchJob(goal, k)
           IN  j.goal = goal /\ j.step = "named" /\ j.key = k /\ j.intent = "none" /\ j.res = "none"
  BY DEF LaunchJob, Idle

\* A request joins the job there is: it holds one more key.
LEMMA JoinDoes ==
    ASSUME TypeOK, NEW c \in Children, NEW k \in Keys, StopJoins(k, c) \/ ResumeJoins(k, c)
    PROVE  /\ jobs'[c].goal = jobs[c].goal /\ jobs'[c].step = jobs[c].step
           /\ jobs'[c].key = jobs[c].key
           /\ jobs'[c].res = jobs[c].res /\ jobs'[c].intent = jobs[c].intent
           /\ jobs'[c].clean = jobs[c].clean /\ jobs'[c].outcome = jobs[c].outcome
           /\ \A d \in Children : d # c => jobs'[d] = jobs[d]
           /\ Busy(c)
           /\ Launching(c)' = Launching(c) /\ Quiescing(c)' = Quiescing(c) /\ Busy(c)' = Busy(c)
  <1>1. /\ Busy(c)
        /\ \/ jobs' = [jobs EXCEPT ![c].keys = @ \cup {k}]
           \/ jobs' = [jobs EXCEPT ![c].stops = @ \cup {k}]
    BY DEF StopJoins, ResumeJoins, Busy, Quiescing, Launching
  <1> DEFINE ks == jobs[c].keys \cup {k}
             ss == jobs[c].stops \cup {k}
             g == [jobs[c] EXCEPT !.keys = ks]
             h == [jobs[c] EXCEPT !.stops = ss]
  <1>2. /\ jobs'[c] \in {g, h}
        /\ \A d \in Children : d # c => jobs'[d] = jobs[d]
    BY <1>1 DEF TypeOK
  <1>3. jobs[c] \in LaunchJobs \cup QuiesceJobs
    BY <1>1, BusyJobs
  <1> HIDE DEF ks, ss
  <1>4. /\ g.goal = jobs[c].goal /\ g.step = jobs[c].step /\ g.key = jobs[c].key
        /\ g.res = jobs[c].res /\ g.intent = jobs[c].intent
        /\ g.clean = jobs[c].clean /\ g.outcome = jobs[c].outcome
    BY <1>3, JobWrites
  <1>5. /\ h.goal = jobs[c].goal /\ h.step = jobs[c].step /\ h.key = jobs[c].key
        /\ h.res = jobs[c].res /\ h.intent = jobs[c].intent
        /\ h.clean = jobs[c].clean /\ h.outcome = jobs[c].outcome
    BY <1>3, JobWrites
  <1> HIDE DEF g, h
  <1>6. /\ jobs'[c].goal = jobs[c].goal /\ jobs'[c].step = jobs[c].step
        /\ jobs'[c].key = jobs[c].key
        /\ jobs'[c].res = jobs[c].res /\ jobs'[c].intent = jobs[c].intent
        /\ jobs'[c].clean = jobs[c].clean /\ jobs'[c].outcome = jobs[c].outcome
    BY <1>2, <1>4, <1>5
  <1> QED BY <1>1, <1>2, <1>6 DEF Launching, Quiescing, Busy

LEMMA EndQuiesceDoes ==
    ASSUME TypeOK, NEW c \in Children, NEW a \in {"ok", "refused"}, EndQuiesce(c, a)
    PROVE  /\ jobs'[c] = Idle /\ \A d \in Children : d # c => jobs'[d] = jobs[d]
           /\ \A k \in Keys : journal[k] # "none" => journal'[k] # "none"
  BY DEF TypeOK, EndQuiesce, Answered

\* A worker's answer reaches the job that waits for it, if one still does.
LEMMA DeliverDoes ==
    ASSUME TypeOK, NEW k \in LaunchKeys, NEW step, NEW r, Deliver(k, step, r),
           NEW d \in Children
    PROVE  /\ jobs'[d].goal = jobs[d].goal /\ jobs'[d].step = jobs[d].step
           /\ jobs'[d].key = jobs[d].key /\ jobs'[d].intent = jobs[d].intent
           /\ jobs'[d].clean = jobs[d].clean /\ jobs'[d].outcome = jobs[d].outcome
           /\ \/ jobs'[d].res = jobs[d].res
              \/ jobs'[d].res = r /\ jobs[d].key = k /\ jobs[d].step = step
           /\ Launching(d)' = Launching(d) /\ Quiescing(d)' = Quiescing(d) /\ Busy(d)' = Busy(d)
           /\ Quiescing(d) => jobs'[d] = jobs[d]
  <1>1. \/ jobs'[d] = jobs[d]
        \/ jobs'[d] = [jobs[d] EXCEPT !.res = r] /\ jobs[d].key = k /\ jobs[d].step = step
    BY DEF Deliver
  <1>2. CASE jobs'[d] = jobs[d]
    BY <1>2 DEF Launching, Quiescing, Busy
  <1>3. ASSUME jobs'[d] = [jobs[d] EXCEPT !.res = r], jobs[d].key = k, jobs[d].step = step
        PROVE  /\ jobs'[d].goal = jobs[d].goal /\ jobs'[d].step = jobs[d].step
               /\ jobs'[d].key = jobs[d].key /\ jobs'[d].intent = jobs[d].intent
               /\ jobs'[d].clean = jobs[d].clean /\ jobs'[d].outcome = jobs[d].outcome
               /\ jobs'[d].res = r /\ ~Quiescing(d)
    <2>1. Busy(d) /\ ~Quiescing(d)
      <3>1. NoKey \notin LaunchKeys
        BY KeySets, KeysAssumption
      <3>2. CASE Quiescing(d)
        BY <1>3, <3>1, <3>2, JobKinds DEF QuiesceJobs
      <3>3. CASE ~Busy(d)
        BY <1>3, <3>1, <3>3, JobKinds DEF Idle
      <3> QED BY <3>2, <3>3
    <2> DEFINE h == [jobs[d] EXCEPT !.res = r]
    <2>2. /\ h.goal = jobs[d].goal /\ h.step = jobs[d].step
          /\ h.key = jobs[d].key /\ h.intent = jobs[d].intent
          /\ h.clean = jobs[d].clean /\ h.outcome = jobs[d].outcome /\ h.res = r
      BY <2>1, BusyJobs, JobWrites
    <2>3. jobs'[d] = h
      BY <1>3
    <2> HIDE DEF h
    <2> QED BY <2>1, <2>2, <2>3
  <1>4. ASSUME jobs'[d] = [jobs[d] EXCEPT !.res = r], jobs[d].key = k, jobs[d].step = step
        PROVE  Launching(d)' = Launching(d) /\ Quiescing(d)' = Quiescing(d) /\ Busy(d)' = Busy(d)
    <2>1. jobs'[d].goal = jobs[d].goal
      BY <1>3, <1>4
    <2> QED BY <2>1 DEF Launching, Quiescing, Busy
  <1> QED BY <1>1, <1>2, <1>3, <1>4

-----------------------------------------------------------------------------
(* The keys a job holds *)

\* The keys the job of child c will answer.
JobKeys(c) == jobs[c].keys \cup jobs[c].stops

\* They are accepted and not answered yet, a stop among them is about the
\* child, and only the launch that is driven has a saga.
HeldBy(c) ==
    /\ \A k \in JobKeys(c) : journal[k] = "accepted"
    /\ \A k \in JobKeys(c) \cap StopKeys : asked[k] = c
    /\ \A k \in JobKeys(c) \cap LaunchKeys : k # jobs[c].key => saga[k].step = "none"
    /\ Launching(c) => jobs[c].key \in jobs[c].keys
    /\ phase # "serving" => JobKeys(c) = {}

\* Nobody else answers them.  A first recovery finds no launch unfinished that
\* was answered; a second one may.
HeldInv ==
    /\ TypeOK /\ NoTrace
    /\ \A c \in Children : HeldBy(c)
    /\ \A c, d \in Children : c # d => JobKeys(c) \cap JobKeys(d) = {}
    /\ \A k \in LaunchKeys : saga[k].step # "none" => journal[k] # "none"
    /\ phase # "serving" => crashes > 0
    /\ crashes = 0 \/ (crashes = 1 /\ phase # "serving") =>
          \A k \in LaunchKeys : Unfinished(k) => journal[k] = "accepted"

LEMMA HeldKeys ==
    ASSUME TypeOK
    PROVE  /\ \A c \in Children : /\ jobs[c].keys \subseteq Keys /\ jobs[c].stops \subseteq StopKeys
                                  /\ ~Busy(c) => JobKeys(c) = {}
                                  /\ Launching(c) => jobs[c].key \in LaunchKeys
                                                     /\ jobs[c].keys \subseteq LaunchKeys
                                  /\ Quiescing(c) => JobKeys(c) \subseteq StopKeys
           /\ LaunchKeys \cap StopKeys = {}
  <1>1. LaunchKeys \cap StopKeys = {} /\ LaunchKeys \subseteq Keys /\ StopKeys \subseteq Keys
    BY KeySets, KeysAssumption
  <1>2. ASSUME NEW c \in Children
        PROVE  \/ /\ jobs[c].keys = {} /\ jobs[c].stops = {} /\ ~Launching(c) /\ ~Quiescing(c)
               \/ /\ jobs[c].keys \subseteq LaunchKeys /\ jobs[c].stops \subseteq StopKeys
                  /\ jobs[c].key \in LaunchKeys /\ Busy(c) /\ ~Quiescing(c)
               \/ /\ jobs[c].keys \subseteq StopKeys /\ jobs[c].stops = {}
                  /\ Busy(c) /\ ~Launching(c)
    <2>1. jobs[c] \in Jobs
      BY DEF TypeOK
    <2>2. CASE jobs[c] = Idle
      BY <2>2 DEF Idle, Launching, Quiescing
    <2>3. CASE jobs[c] \in LaunchJobs
      BY <2>3 DEF LaunchJobs, Busy, Quiescing
    <2>4. CASE jobs[c] \in QuiesceJobs
      BY <2>4 DEF QuiesceJobs, Busy, Launching
    <2> QED BY <2>1, <2>2, <2>3, <2>4 DEF Jobs
  <1> QED BY <1>1, <1>2 DEF JobKeys

\* A step that answers nobody: jobs go on, and the sagas of launches that are driven.
LEMMA HeldSame ==
    ASSUME HeldInv, TypeOK', NoTrace', UNCHANGED <<journal, asked, phase, crashes>>,
           \A d \in Children :
              /\ jobs'[d].keys = jobs[d].keys /\ jobs'[d].stops = jobs[d].stops
              /\ jobs'[d].key = jobs[d].key /\ jobs'[d].goal = jobs[d].goal,
           \A i \in LaunchKeys : \/ saga'[i].step = saga[i].step
                                 \/ \E c \in Children : Launching(c) /\ i = jobs[c].key
    PROVE  HeldInv'
  <1>1. \A d \in Children : JobKeys(d)' = JobKeys(d) /\ Launching(d)' = Launching(d)
    BY DEF JobKeys, Launching
  <1>2. ASSUME NEW i \in LaunchKeys, saga'[i].step # saga[i].step
        PROVE  \E c \in Children : i = jobs[c].key /\ i \in JobKeys(c) /\ journal[i] = "accepted"
    BY <1>2 DEF HeldInv, HeldBy, JobKeys
  <1>3. ASSUME NEW d \in Children
        PROVE  HeldBy(d)'
    BY <1>1, <1>2 DEF HeldInv, HeldBy
  <1>4. ASSUME NEW i \in LaunchKeys
        PROVE  /\ saga'[i].step # "none" => journal[i] # "none"
               /\ Unfinished(i)' => Unfinished(i) \/ journal[i] = "accepted"
    BY <1>2 DEF HeldInv, Unfinished
  <1> QED BY <1>1, <1>3, <1>4 DEF HeldInv

\* A key that is answered at once.
LEMMA HeldAnswered ==
    ASSUME HeldInv, TypeOK', NoTrace', NEW k \in Keys, journal[k] = "none", journal'[k] # "none",
           UNCHANGED <<jobs, saga, phase, crashes>>,
           \A i \in Keys : i # k => journal'[i] = journal[i],
           \A i \in StopKeys : i # k => asked'[i] = asked[i]
    PROVE  HeldInv'
  <1>1. \A d \in Children : JobKeys(d)' = JobKeys(d) /\ k \notin JobKeys(d) /\ JobKeys(d) \subseteq Keys
    BY HeldKeys, KeySets DEF HeldInv, HeldBy, JobKeys
  <1>2. ASSUME NEW d \in Children
        PROVE  HeldBy(d)'
    BY <1>1 DEF HeldInv, HeldBy, Launching
  <1>3. k \in LaunchKeys => saga[k].step = "none"
    BY DEF HeldInv
  <1>4. \A i \in LaunchKeys : Unfinished(i)' = Unfinished(i) /\ (Unfinished(i) => saga[i].step # "none")
    BY DEF Unfinished, PendingSteps, CommittedSteps
  <1> QED BY <1>1, <1>2, <1>3, <1>4, KeySets DEF HeldInv

\* A key that is accepted for child c.
LEMMA HeldAccepted ==
    ASSUME HeldInv, TypeOK', NoTrace', NEW c \in Children, NEW k \in Keys,
           journal[k] = "none", journal'[k] = "accepted", UNCHANGED <<phase, crashes>>,
           phase = "serving",
           \A i \in Keys : i # k => journal'[i] = journal[i],
           \A i \in StopKeys : i # k => asked'[i] = asked[i],
           k \in StopKeys => asked'[k] = c,
           \A d \in Children : d # c => jobs'[d] = jobs[d],
           JobKeys(c)' \subseteq JobKeys(c) \cup {k},
           jobs'[c].key = jobs[c].key \/ JobKeys(c) = {},
           Launching(c)' => jobs'[c].key \in jobs'[c].keys,
           \A i \in LaunchKeys : saga'[i].step = saga[i].step \/ (i = k /\ k = jobs'[c].key)
    PROVE  HeldInv'
  <1>1. \A d \in Children : /\ k \notin JobKeys(d) /\ JobKeys(d) \subseteq Keys
                            /\ d # c => JobKeys(d)' = JobKeys(d)
    BY HeldKeys, KeySets DEF HeldInv, HeldBy, JobKeys
  <1>2. k \in LaunchKeys => saga[k].step = "none"
    BY DEF HeldInv
  <1>3. ASSUME NEW d \in Children, d # c
        PROVE  HeldBy(d)'
    BY <1>1, <1>3 DEF HeldInv, HeldBy, Launching
  <1>4. HeldBy(c)'
    BY <1>1, <1>2, KeySets DEF HeldInv, HeldBy
  <1>5. \A i \in LaunchKeys : i # k => (Unfinished(i)' = Unfinished(i))
    BY DEF Unfinished
  <1>6. \A d, e \in Children : d # e => (JobKeys(d) \cap JobKeys(e) = {})'
    BY <1>1 DEF HeldInv
  <1> QED BY <1>1, <1>3, <1>4, <1>5, <1>6, KeySets DEF HeldInv

\* The job of child c ends, and the keys it gives up are answered.
LEMMA HeldGivenUp ==
    ASSUME HeldInv, TypeOK', NoTrace', NEW c \in Children, UNCHANGED <<asked, phase, crashes>>,
           \A d \in Children : d # c => jobs'[d] = jobs[d],
           JobKeys(c)' \subseteq JobKeys(c), JobKeys(c)' \subseteq StopKeys, ~Launching(c)',
           \A k \in Keys : \/ journal'[k] = journal[k]
                           \/ k \in JobKeys(c) /\ k \notin JobKeys(c)' /\ journal'[k] # "none",
           \A i \in LaunchKeys : \/ saga'[i].step = saga[i].step
                                 \/ i = jobs[c].key /\ i \in JobKeys(c) /\ saga'[i].step \in FinalSteps,
           \A i \in JobKeys(c) \cap LaunchKeys : i = jobs[c].key => saga'[i].step \in FinalSteps
    PROVE  HeldInv'
  <1>1. \A d \in Children : /\ JobKeys(d) \subseteq Keys
                            /\ d # c => JobKeys(d)' = JobKeys(d) /\ JobKeys(c) \cap JobKeys(d) = {}
    BY HeldKeys, KeySets DEF HeldInv, JobKeys
  <1>2. LaunchKeys \cap StopKeys = {}
    BY HeldKeys DEF HeldInv
  <1>3. ASSUME NEW d \in Children, d # c
        PROVE  HeldBy(d)'
    BY <1>1, <1>3 DEF HeldInv, HeldBy, Launching
  <1>4. HeldBy(c)'
    BY <1>1, <1>2 DEF HeldInv, HeldBy
  <1>5. ASSUME NEW i \in LaunchKeys
        PROVE  /\ saga'[i].step # "none" => journal'[i] # "none"
               /\ Unfinished(i)' => Unfinished(i) /\ journal'[i] = journal[i]
    <2>1. i \in Keys
      BY KeySets
    <2>2. "none" \notin PendingSteps \cup CommittedSteps
          /\ FinalSteps \cap (PendingSteps \cup CommittedSteps) = {}
      BY DEF PendingSteps, CommittedSteps, FinalSteps
    <2> QED BY <2>1, <2>2 DEF HeldInv, HeldBy, Unfinished
  <1>6. \A d, e \in Children : d # e => (JobKeys(d) \cap JobKeys(e) = {})'
    BY <1>1 DEF HeldInv
  <1> QED BY <1>1, <1>3, <1>4, <1>5, <1>6 DEF HeldInv

\* A job that is moved on.
LEMMA MoveHolds ==
    ASSUME TypeOK, NEW c \in Children, jobs[c].step # "none", NEW s, Move(c, s)
    PROVE  \A d \in Children :
              /\ jobs'[d].keys = jobs[d].keys /\ jobs'[d].stops = jobs[d].stops
              /\ jobs'[d].key = jobs[d].key /\ jobs'[d].goal = jobs[d].goal
  BY MoveCarries, MoveDoes

LEMMA LaunchLaunches ==
    ASSUME TypeOK, NEW c \in Children, Launching(c) \/ jobs[c].step \in LaunchSteps
    PROVE  Launching(c) /\ jobs[c].key \in LaunchKeys /\ jobs[c].step # "none"
  <1>1. jobs[c] \in LaunchJobs
    BY JobKinds
  <1> QED BY <1>1 DEF LaunchJobs, Launching, LaunchSteps

LEMMA LaunchStepHeld ==
    ASSUME HeldInv, TypeOK', NoTrace', NEW c \in Children,
           StartWorktree(c) \/ ReuseWorktree(c) \/ TakeWorktree(c) \/ MintDirs(c)
           \/ StartPane(c) \/ TakePane(c) \/ Commit(c) \/ AwaitEgress(c) \/ ReleaseGate(c)
    PROVE  HeldInv'
  <1> DEFINE k == jobs[c].key
  <1>1. jobs[c].step \in LaunchSteps /\ UNCHANGED <<journal, asked, phase, crashes>>
    BY DEF StartWorktree, ReuseWorktree, TakeWorktree, MintDirs, StartPane, TakePane, Commit,
           AwaitEgress, ReleaseGate, At, LaunchSteps, storeVars, hostVars
  <1>2. TypeOK /\ Launching(c) /\ k \in LaunchKeys /\ jobs[c].step # "none"
    BY <1>1, LaunchLaunches DEF HeldInv
  <1>3. PICK s : Move(c, s)
    BY DEF StartWorktree, ReuseWorktree, TakeWorktree, MintDirs, StartPane, TakePane, Commit,
           AwaitEgress, ReleaseGate
  <1>4. \/ saga' = saga
        \/ \E t : Record(k, t)
        \/ saga' = [saga EXCEPT ![k].claimed = TRUE, ![k].leased = TRUE]
        \/ saga' = [saga EXCEPT ![k].mux = TRUE, ![k].leased = TRUE]
    BY DEF StartWorktree, ReuseWorktree, TakeWorktree, MintDirs, StartPane, TakePane, Commit,
           AwaitEgress, ReleaseGate, storeVars
  <1>5. saga' = saga \/ Wrote(k)
    BY <1>2, <1>4, RecordWrites, TakeWrites
  <1>6. \A i \in LaunchKeys : saga'[i].step = saga[i].step \/ i = k
    BY <1>5 DEF Wrote
  <1> QED BY <1>1, <1>2, <1>3, <1>6, MoveHolds, HeldSame

\* What a launch held goes to the quiesce it leaves, or is answered.
LEMMA EndLaunchHeld ==
    ASSUME HeldInv, NEW c \in Children, Launching(c), NEW s, NEW a \in {"ok", "refused"},
           EndLaunch(c, s, a)
    PROVE  /\ \A d \in Children : d # c => jobs'[d] = jobs[d]
           /\ JobKeys(c)' \subseteq jobs[c].stops /\ ~Launching(c)'
           /\ \A k \in Keys : \/ journal'[k] = journal[k]
                              \/ k \in JobKeys(c) /\ k \notin JobKeys(c)' /\ journal'[k] # "none"
           /\ \A k \in StopKeys : journal'[k] # journal[k] =>
                 k \in jobs[c].stops /\ s \notin LiveStates /\ (s = "none" => journal'[k] = "refused")
  <1> DEFINE j == jobs[c]
             next == HeldJob(c, s)
             f == FinishJob(j.intent, j.stops)
             g == [StopJob(j.stops) EXCEPT !.step = IF j.intent = "none" THEN "grace" ELSE "acked"]
  <1>1. jobs'[c] = next /\ \A d \in Children : d # c => jobs'[d] = jobs[d]
    BY DEF EndLaunch, HeldInv, TypeOK
  <1>2. next \in {Idle, f, g} /\ (s \notin LiveStates => next = Idle)
    BY DEF HeldJob
  <1>3. /\ Idle.keys = {} /\ Idle.stops = {} /\ Idle.goal = "none"
        /\ f.keys = j.stops /\ f.stops = {} /\ f.goal = "finish"
        /\ g.keys = j.stops /\ g.stops = {} /\ g.goal = "stop"
    BY DEF Idle, FinishJob, StopJob
  <1> HIDE DEF next, f, g
  <1>4. /\ JobKeys(c)' \subseteq j.stops /\ ~Launching(c)'
        /\ s \notin LiveStates => JobKeys(c)' = {}
    BY <1>1, <1>2, <1>3 DEF JobKeys, Launching
  <1>5. /\ j.keys \subseteq LaunchKeys /\ j.stops \subseteq StopKeys
        /\ LaunchKeys \cap StopKeys = {} /\ StopKeys \subseteq Keys
    BY HeldKeys, KeySets DEF HeldInv
  <1>6. \A k \in Keys : \/ journal'[k] = journal[k]
                        \/ k \in j.keys /\ journal'[k] = a
                        \/ k \in j.stops /\ s \notin LiveStates /\ k \notin j.keys
                           /\ journal'[k] \in {"refused", "ok"} /\ (s = "none" => journal'[k] = "refused")
    BY DEF EndLaunch
  <1> QED BY <1>1, <1>4, <1>5, <1>6 DEF JobKeys

LEMMA LaunchEndHeld ==
    ASSUME HeldInv, TypeOK', NoTrace', NEW c \in Children, AwaitReady(c) \/ FailLaunch(c)
    PROVE  HeldInv'
  <1> DEFINE k == jobs[c].key
  <1>1. UNCHANGED <<asked, phase, crashes>> /\ (Launching(c) \/ jobs[c].step \in LaunchSteps)
    BY DEF AwaitReady, FailLaunch, At, LaunchSteps, hostVars
  <1>2. TypeOK /\ Launching(c) /\ k \in LaunchKeys /\ k \in JobKeys(c)
        /\ jobs[c].stops \subseteq StopKeys
    BY <1>1, LaunchLaunches, HeldKeys DEF HeldInv, HeldBy, JobKeys
  <1>3. \E s : \E a \in {"ok", "refused"} : EndLaunch(c, s, a)
    BY DEF AwaitReady, FailLaunch
  <1>4. Wrote(k) /\ saga'[k].step \in FinalSteps
    <2>1. \/ Record(k, "done")
          \/ \E m : saga' = [saga EXCEPT ![k].step = "failed", ![k].claimed = m, ![k].leased = TRUE]
      BY DEF AwaitReady, FailLaunch
    <2> QED BY <1>2, <2>1, RecordWrites, FailWrites DEF FinalSteps
  <1>5. /\ \A d \in Children : d # c => jobs'[d] = jobs[d]
        /\ JobKeys(c)' \subseteq jobs[c].stops /\ ~Launching(c)'
        /\ \A i \in Keys : \/ journal'[i] = journal[i]
                           \/ i \in JobKeys(c) /\ i \notin JobKeys(c)' /\ journal'[i] # "none"
    BY <1>2, <1>3, EndLaunchHeld
  <1>6. JobKeys(c)' \subseteq JobKeys(c) /\ JobKeys(c)' \subseteq StopKeys
    BY <1>2, <1>5 DEF JobKeys
  <1>7. \A i \in LaunchKeys : \/ saga'[i].step = saga[i].step
                              \/ i = k /\ i \in JobKeys(c) /\ saga'[i].step \in FinalSteps
    BY <1>2, <1>4 DEF Wrote
  <1> QED BY <1>1, <1>4, <1>5, <1>6, <1>7, HeldGivenUp

LEMMA QuiesceStepHeld ==
    ASSUME HeldInv, TypeOK', NoTrace', NEW c \in Children,
           GraceExpires(c) \/ EndGrace(c) \/ StopPane(c)
    PROVE  HeldInv'
  <1>1. UNCHANGED <<journal, asked, phase, crashes, saga>> /\ jobs[c].step # "none" /\ TypeOK
    BY DEF GraceExpires, EndGrace, StopPane, At, storeVars, hostVars, HeldInv
  <1>2. PICK s : Move(c, s)
    BY DEF GraceExpires, EndGrace, StopPane
  <1> QED BY <1>1, <1>2, MoveHolds, HeldSame

LEMMA VerifyHeld ==
    ASSUME HeldInv, TypeOK', NoTrace', NEW c \in Children, VerifyWorktree(c)
    PROVE  HeldInv'
  <1>1. UNCHANGED <<journal, asked, phase, crashes, saga>> /\ jobs[c].step = "verify_running" /\ TypeOK
    BY DEF VerifyWorktree, At, storeVars, hostVars, HeldInv
  <1>2. PICK r : jobs' = [jobs EXCEPT ![c].res = r]
    BY DEF VerifyWorktree
  <1> DEFINE h == [jobs[c] EXCEPT !.res = r]
  <1>3. jobs'[c] = h /\ \A d \in Children : d # c => jobs'[d] = jobs[d]
    BY <1>1, <1>2 DEF TypeOK
  <1>4. h.keys = jobs[c].keys /\ h.stops = jobs[c].stops
    BY <1>1, JobFields DEF TypeOK
  <1>5. h.key = jobs[c].key /\ h.goal = jobs[c].goal
    BY <1>1, BusyJobs, JobWrites
  <1> HIDE DEF h
  <1> QED BY <1>1, <1>3, <1>4, <1>5, HeldSame

LEMMA QuiesceEndHeld ==
    ASSUME HeldInv, TypeOK', NoTrace', NEW c \in Children,
           StopFails(c) \/ DecideOutcome(c) \/ DecideUnrecorded(c) \/ QuiesceLost(c)
    PROVE  HeldInv'
  <1>1. UNCHANGED <<asked, phase, crashes, saga>> /\ TypeOK /\ jobs[c].step \in QuiesceSteps
    BY DEF StopFails, DecideOutcome, DecideUnrecorded, QuiesceLost, At, hostVars, HeldInv,
           QuiesceSteps
  <1>2. PICK a \in {"ok", "refused"} : EndQuiesce(c, a)
    BY DEF StopFails, DecideOutcome, DecideUnrecorded, QuiesceLost
  <1>3. /\ jobs'[c] = Idle /\ \A d \in Children : d # c => jobs'[d] = jobs[d]
        /\ \A k \in Keys : journal'[k] = journal[k] \/ (k \in jobs[c].keys /\ journal'[k] = a)
    BY <1>1, <1>2, EndQuiesceDoes DEF EndQuiesce, Answered
  <1>4. JobKeys(c)' = {} /\ ~Launching(c)'
    BY <1>3 DEF JobKeys, Launching, Idle
  <1>5. Quiescing(c)
    <2>1. jobs[c] \in QuiesceJobs
      BY <1>1, JobKinds
    <2> QED BY <2>1 DEF QuiesceJobs, Quiescing
  <1>6. JobKeys(c) \cap LaunchKeys = {}
    BY <1>1, <1>5, HeldKeys
  <1> QED BY <1>1, <1>3, <1>4, <1>6, HeldGivenUp DEF JobKeys

LEMMA ResultHeld ==
    ASSUME HeldInv, TypeOK', NoTrace', NEW c \in Children,
           StartFinish(c) \/ HoldIntent(c) \/ DropResult(c)
    PROVE  HeldInv'
  <1>1. UNCHANGED <<journal, asked, phase, crashes>> /\ TypeOK
    BY DEF StartFinish, HoldIntent, DropResult, TakeResult, storeVars, HeldInv
  <1>2. CASE StartFinish(c)
    <2>1. ~Busy(c) /\ saga' = saga /\ jobs' = [jobs EXCEPT ![c] = FinishJob(outbox[c], {})]
      BY <1>2 DEF StartFinish
    <2>2. /\ jobs'[c] = FinishJob(outbox[c], {})
          /\ \A d \in Children : d # c => jobs'[d] = jobs[d]
      BY <1>1, <2>1 DEF TypeOK
    <2>3. /\ FinishJob(outbox[c], {}).keys = {} /\ FinishJob(outbox[c], {}).stops = {}
          /\ FinishJob(outbox[c], {}).goal = "finish"
      BY DEF FinishJob, Idle
    <2>4. JobKeys(c)' = {} /\ ~Launching(c)' /\ JobKeys(c) = {}
      BY <1>1, <2>1, <2>2, <2>3, HeldKeys DEF JobKeys, Launching
    <2> QED BY <1>1, <2>1, <2>2, <2>4, HeldGivenUp
  <1>3. CASE HoldIntent(c)
    <2> DEFINE b == (jobs[c].stops = {})
               h == [jobs[c] EXCEPT !.intent = outbox[c], !.first = b]
    <2>1. /\ Launching(c) /\ jobs' = [jobs EXCEPT ![c].intent = outbox[c], ![c].first = b]
          /\ saga' = [saga EXCEPT ![jobs[c].key].outcome = outbox[c], ![jobs[c].key].leased = TRUE]
      BY <1>3 DEF HoldIntent
    <2>2. jobs[c].key \in LaunchKeys
      BY <1>1, <2>1, LaunchLaunches
    <2>3. \A i \in LaunchKeys : saga'[i].step = saga[i].step
      BY <1>1, <2>1, <2>2, HoldWrites DEF Wrote
    <2>4. jobs'[c] = h /\ \A d \in Children : d # c => jobs'[d] = jobs[d]
      BY <1>1, <2>1 DEF TypeOK
    <2>5. h.keys = jobs[c].keys /\ h.stops = jobs[c].stops
      BY <1>1, JobFields DEF TypeOK
    <2>6. h.key = jobs[c].key /\ h.goal = jobs[c].goal
      BY <1>1, <2>1, BusyJobs, JobWrites DEF Launching, Busy
    <2> HIDE DEF b, h
    <2> QED BY <1>1, <2>3, <2>4, <2>5, <2>6, HeldSame
  <1>4. CASE DropResult(c)
    <2>1. jobs' = jobs /\ saga' = saga
      BY <1>4 DEF DropResult, storeVars
    <2> QED BY <1>1, <2>1, HeldSame
  <1> QED BY <1>2, <1>3, <1>4

-----------------------------------------------------------------------------
(* Requests that are taken, and the keys they hold *)

LEMMA AnsweredHeld ==
    ASSUME HeldInv, TypeOK', NoTrace', NEW k \in Keys,
           RefuseRequest(k) \/ (k \in StopKeys /\ \E c \in Children : StopAnswered(k, c))
    PROVE  HeldInv'
  <1>1. /\ journal[k] = "none" /\ UNCHANGED <<jobs, saga, phase, crashes>> /\ TypeOK
        /\ \E a \in {"ok", "refused"} : journal' = [journal EXCEPT ![k] = a]
        /\ asked' = asked \/ \E c \in Children : asked' = [asked EXCEPT ![k] = c]
    BY DEF RefuseRequest, StopAnswered, Fresh, processVars, hostVars, HeldInv
  <1>2. journal'[k] # "none" /\ \A i \in Keys : i # k => journal'[i] = journal[i]
    BY <1>1 DEF TypeOK
  <1>3. \A i \in StopKeys : i # k => asked'[i] = asked[i]
    BY <1>1 DEF TypeOK
  <1> QED BY <1>1, <1>2, <1>3, HeldAnswered

LEMMA JoinHeld ==
    ASSUME HeldInv, TypeOK', NoTrace', NEW c \in Children, NEW k \in Keys,
           (k \in StopKeys /\ StopJoins(k, c)) \/ (k \in ResumeKeys /\ ResumeJoins(k, c))
    PROVE  HeldInv'
  <1>1. /\ phase = "serving" /\ journal[k] = "none" /\ Accept(k)
        /\ UNCHANGED <<phase, crashes, saga>> /\ TypeOK
        /\ \/ k \in StopKeys /\ asked' = [asked EXCEPT ![k] = c]
           \/ k \notin StopKeys /\ asked' = asked
        /\ \/ jobs' = [jobs EXCEPT ![c].keys = @ \cup {k}]
           \/ jobs' = [jobs EXCEPT ![c].stops = @ \cup {k}]
    BY KeySets, KeysAssumption DEF StopJoins, ResumeJoins, Fresh, hostVars, HeldInv
  <1>2. /\ journal'[k] = "accepted" /\ \A i \in Keys : i # k => journal'[i] = journal[i]
        /\ k \in StopKeys => asked'[k] = c
        /\ \A i \in StopKeys : i # k => asked'[i] = asked[i]
    BY <1>1 DEF TypeOK, Accept
  <1>3. /\ jobs'[c].goal = jobs[c].goal /\ jobs'[c].key = jobs[c].key
        /\ \A d \in Children : d # c => jobs'[d] = jobs[d]
    BY <1>1, JoinDoes
  <1>4. jobs'[c].keys \subseteq jobs[c].keys \cup {k} /\ jobs[c].keys \subseteq jobs'[c].keys
        /\ jobs'[c].stops \subseteq jobs[c].stops \cup {k}
    <2> DEFINE ks == jobs[c].keys \cup {k}
               ss == jobs[c].stops \cup {k}
               g == [jobs[c] EXCEPT !.keys = ks]
               h == [jobs[c] EXCEPT !.stops = ss]
    <2>1. jobs'[c] \in {g, h}
      BY <1>1 DEF TypeOK
    <2>2. g.keys = ks /\ g.stops = jobs[c].stops /\ h.keys = jobs[c].keys /\ h.stops = ss
      <3> HIDE DEF ks, ss
      <3> QED BY <1>1, JobFields DEF TypeOK
    <2> HIDE DEF g, h
    <2> QED BY <2>1, <2>2
  <1>5. JobKeys(c)' \subseteq JobKeys(c) \cup {k}
    BY <1>4 DEF JobKeys
  <1>6. Launching(c)' => jobs'[c].key \in jobs'[c].keys
    BY <1>3, <1>4 DEF Launching, HeldInv, HeldBy
  <1> QED BY <1>1, <1>2, <1>3, <1>5, <1>6, HeldAccepted

LEMMA BeginHeld ==
    ASSUME HeldInv, TypeOK', NoTrace', NEW c \in Children, NEW k \in Keys,
           \/ k \in StopKeys /\ BeginStop(k, c)
           \/ k = c /\ BeginCreate(c)
           \/ k \in ResumeKeys /\ BeginResume(k, c)
    PROVE  HeldInv'
  <1>1. /\ phase = "serving" /\ journal[k] = "none" /\ Accept(k)
        /\ UNCHANGED <<phase, crashes>> /\ TypeOK
    BY DEF BeginStop, BeginCreate, BeginResume, Fresh, HeldInv
  <1>2. /\ LaunchKeys \cap StopKeys = {} /\ c \in LaunchKeys /\ ResumeKeys \subseteq LaunchKeys
    BY KeySets, KeysAssumption
  <1>3. /\ \/ k \in StopKeys /\ asked' = [asked EXCEPT ![k] = c]
           \/ k \notin StopKeys /\ asked' = asked
        /\ \/ k \in StopKeys /\ saga' = saga
           \/ k \in LaunchKeys /\ saga' = [saga EXCEPT ![k] = NewSaga(c)]
        /\ \/ k \in StopKeys /\ jobs' = [jobs EXCEPT ![c] = StopJob({k})]
           \/ k \notin StopKeys /\ \E goal : jobs' = [jobs EXCEPT ![c] = LaunchJob(goal, k)]
    BY <1>2 DEF BeginStop, BeginCreate, BeginResume, hostVars
  <1>4. /\ journal'[k] = "accepted" /\ \A i \in Keys : i # k => journal'[i] = journal[i]
        /\ k \in StopKeys => asked'[k] = c
        /\ \A i \in StopKeys : i # k => asked'[i] = asked[i]
    BY <1>1, <1>3 DEF TypeOK, Accept
  <1>5. JobKeys(c) = {}
    <2>1. ~Busy(c) \/ jobs[c] = Idle
      BY <1>1 DEF BeginStop, BeginCreate, BeginResume, HeldInv, NoTrace
    <2> QED BY <1>1, <2>1, HeldKeys DEF Idle, Busy
  <1>6. /\ \A d \in Children : d # c => jobs'[d] = jobs[d]
        /\ JobKeys(c)' = {k}
        /\ Launching(c)' => jobs'[c].key \in jobs'[c].keys
        /\ k \in LaunchKeys => jobs'[c].key = k
    <2>1. /\ \A d \in Children : d # c => jobs'[d] = jobs[d]
          /\ \/ k \in StopKeys /\ jobs'[c] = StopJob({k})
             \/ k \notin StopKeys /\ \E goal : jobs'[c] = LaunchJob(goal, k)
      BY <1>1, <1>3 DEF TypeOK
    <2>2. /\ StopJob({k}).keys = {k} /\ StopJob({k}).stops = {} /\ StopJob({k}).goal = "stop"
          /\ \A goal : /\ LaunchJob(goal, k).keys = {k} /\ LaunchJob(goal, k).stops = {}
                       /\ LaunchJob(goal, k).key = k
      BY DEF StopJob, LaunchJob, Idle
    <2> QED BY <1>2, <2>1, <2>2 DEF JobKeys, Launching
  <1>7. \A i \in LaunchKeys : saga'[i].step = saga[i].step \/ (i = k /\ k = jobs'[c].key)
    BY <1>1, <1>2, <1>3, <1>6 DEF TypeOK
  <1> QED BY <1>1, <1>4, <1>5, <1>6, <1>7, HeldAccepted

-----------------------------------------------------------------------------
(* Who answers no key, and crashes and recovery *)

LEMMA WorkerHeld ==
    ASSUME HeldInv, TypeOK', NoTrace', NEW k \in LaunchKeys, WorktreeWorker(k) \/ PaneWorker(k)
    PROVE  HeldInv'
  <1>1. UNCHANGED <<journal, asked, phase, crashes, saga>> /\ TypeOK
    BY DEF WorktreeWorker, PaneWorker, storeVars, HeldInv
  <1>2. PICK step, r : Deliver(k, step, r)
    BY DEF WorktreeWorker, PaneWorker
  <1> QED BY <1>1, <1>2, DeliverDoes, DeliverCarries, HeldSame

LEMMA HostHeld ==
    ASSUME HeldInv, TypeOK', NoTrace',
           \/ \E k \in LaunchKeys : Agent(k) \/ LeaseExpires(k)
           \/ \E c \in Children : Nudge(c)
           \/ MuxDies \/ UNCHANGED vars
    PROVE  HeldInv'
  <1>1. UNCHANGED <<journal, asked, phase, crashes, jobs>> /\ TypeOK
    BY DEF Agent, Report, Work, PaneExits, SendResult, LeaseExpires, Nudge, NudgesUnanswered,
           ReportStalled, MuxDies, vars, processVars, storeVars, hostVars, HeldInv
  <1>2. saga' = saga \/ \E k \in LaunchKeys : saga' = [saga EXCEPT ![k].leased = FALSE]
    BY DEF Agent, Report, Work, PaneExits, SendResult, LeaseExpires, Nudge, NudgesUnanswered,
           ReportStalled, MuxDies, vars, storeVars
  <1>3. \A i \in LaunchKeys : saga'[i].step = saga[i].step
    BY <1>1, <1>2, LeaseWrites
  <1> QED BY <1>1, <1>3, HeldSame

\* The jobs are lost, and the keys they held are in the journal.
LEMMA RestartHeld ==
    ASSUME HeldInv, TypeOK', NoTrace', Crash \/ Start
    PROVE  HeldInv'
  <1>1. /\ UNCHANGED <<journal, saga>> /\ TypeOK /\ phase' # "serving"
        /\ \/ crashes' = crashes + 1
           \/ crashes' = crashes /\ phase # "serving"
        /\ crashes \in Nat
    BY BoundsAssumption DEF Crash, Start, storeVars, HeldInv, TypeOK
  <1>2. ASSUME NEW c \in Children
        PROVE  JobKeys(c)' = {} /\ ~Launching(c)'
    <2>1. CASE Crash
      BY <2>1 DEF Crash, JobKeys, Idle, Launching
    <2>2. CASE Start
      <3>1. jobs' = jobs /\ phase = "down"
        BY <2>2 DEF Start
      <3>2. JobKeys(c) = {} /\ ~Launching(c)
        BY <3>1 DEF HeldInv, HeldBy, JobKeys
      <3> QED BY <3>1, <3>2 DEF JobKeys, Launching
    <2> QED BY <2>1, <2>2
  <1>3. \A k \in LaunchKeys : Unfinished(k)' = Unfinished(k)
    BY <1>1 DEF Unfinished
  <1>4. crashes' > 0 /\ (crashes' = 1 => crashes = 0 \/ (crashes = 1 /\ phase # "serving"))
    BY <1>1 DEF HeldInv
  <1> QED BY <1>1, <1>2, <1>3, <1>4 DEF HeldInv, HeldBy

\* Recovery answers a launch it reconciles, and drives quiesces nobody asked for.
LEMMA ReconcileHeld ==
    ASSUME HeldInv, TypeOK', NoTrace',
           \/ \E k \in LaunchKeys : ReconcilePending(k) \/ AdoptFinished(k) \/ AdoptRecovered(k)
           \/ \E c \in Children : ResumeQuiesce(c)
    PROVE  HeldInv'
  <1>1. phase = "recovering" /\ UNCHANGED <<phase, crashes>> /\ TypeOK
    BY DEF ReconcilePending, AdoptFinished, AdoptRecovered, ResumeQuiesce, processVars, HeldInv
  <1>2. \/ jobs' = jobs
        \/ \E c \in Children, o \in Outcomes \cup {"none"} :
              jobs' = [jobs EXCEPT ![c] = FinishJob(o, {})]
    BY <1>1 DEF ReconcilePending, AdoptFinished, AdoptRecovered, ResumeQuiesce, FinishRecovered,
                processVars, TypeOK, Sagas, Outcomes
  <1>3. ASSUME NEW d \in Children
        PROVE  JobKeys(d)' = {} /\ ~Launching(d)'
    <2>1. JobKeys(d) = {} /\ ~Launching(d)
      BY <1>1 DEF HeldInv, HeldBy, JobKeys
    <2>2. \/ jobs'[d] = jobs[d]
          \/ \E o : jobs'[d] = FinishJob(o, {})
      BY <1>1, <1>2 DEF TypeOK
    <2>3. \A o : FinishJob(o, {}).keys = {} /\ FinishJob(o, {}).stops = {}
                 /\ FinishJob(o, {}).goal = "finish"
      BY DEF FinishJob, Idle
    <2> QED BY <2>1, <2>2, <2>3 DEF JobKeys, Launching
  <1>4. \/ saga' = saga /\ journal' = journal
        \/ \E k \in LaunchKeys, s \in FinalSteps, a \in {"ok", "refused"} : CloseSaga(k, s, a)
    BY DEF ReconcilePending, AdoptFinished, AdoptRecovered, ResumeQuiesce, FinalSteps
  <1>5. ASSUME NEW i \in LaunchKeys
        PROVE  /\ saga'[i].step # "none" => journal'[i] # "none"
               /\ Unfinished(i)' => Unfinished(i) /\ journal'[i] = journal[i]
    <2>1. CASE saga' = saga /\ journal' = journal
      BY <2>1 DEF HeldInv, Unfinished
    <2>2. ASSUME NEW k \in LaunchKeys, NEW s \in FinalSteps, NEW a \in {"ok", "refused"},
                 CloseSaga(k, s, a)
          PROVE  /\ saga'[i].step # "none" => journal'[i] # "none"
                 /\ Unfinished(i)' => Unfinished(i) /\ journal'[i] = journal[i]
      <3>1. Wrote(k) /\ saga'[k].step = s
        BY <1>1, <2>2, CloseWrites
      <3>2. journal'[k] = a /\ (i # k => journal'[i] = journal[i])
        BY <1>1, <2>2, KeySets DEF CloseSaga, TypeOK
      <3>3. s \notin PendingSteps \cup CommittedSteps
        BY DEF FinalSteps, PendingSteps, CommittedSteps
      <3> QED BY <3>1, <3>2, <3>3 DEF Wrote, HeldInv, Unfinished
    <2> QED BY <1>4, <2>1, <2>2
  <1> QED BY <1>1, <1>3, <1>5 DEF HeldInv, HeldBy

LEMMA AnswerAbandonedHeld ==
    ASSUME HeldInv, TypeOK', NoTrace', AnswerAbandoned
    PROVE  HeldInv'
  <1>1. /\ phase = "recovering" /\ UNCHANGED <<crashes, jobs, saga>> /\ crashes > 0
        /\ \A k \in Keys : journal[k] # "none" => journal'[k] # "none"
        /\ phase' = "serving" /\ TypeOK
    BY DEF AnswerAbandoned, Answered, HeldInv
  <1>2. \A c \in Children : JobKeys(c) = {} /\ JobKeys(c)' = {} /\ ~Launching(c)'
    BY <1>1 DEF HeldInv, HeldBy, JobKeys, Launching
  <1>3. \A k \in LaunchKeys : saga'[k].step # "none" => journal'[k] # "none"
    BY <1>1, KeySets DEF HeldInv
  <1>4. crashes' # 0
    BY <1>1, BoundsAssumption DEF TypeOK
  <1> QED BY <1>1, <1>2, <1>3, <1>4 DEF HeldInv, HeldBy

LEMMA InitHeld == Init => HeldInv
  <1> SUFFICES ASSUME Init
               PROVE  HeldInv
    OBVIOUS
  <1>1. TypeOK /\ NoTrace /\ phase = "serving"
    BY InitTypes, InitCarried DEF CarriedInv, Init
  <1>2. \A k \in LaunchKeys : saga[k].step = "none" /\ ~Unfinished(k)
    BY DEF Init, NoSaga, Unfinished, PendingSteps, CommittedSteps
  <1>3. \A c \in Children : JobKeys(c) = {} /\ ~Launching(c)
    BY DEF Init, Idle, JobKeys, Launching
  <1> QED BY <1>1, <1>2, <1>3 DEF HeldInv, HeldBy

LEMMA HeldStep == HeldInv /\ [Next]_vars => HeldInv'
  <1> SUFFICES ASSUME HeldInv, [Next]_vars
               PROVE  HeldInv'
    OBVIOUS
  <1>0. TypeOK' /\ NoTrace'
    BY TypesStep, NoTraceStep DEF HeldInv
  <1>1. CASE Owner
    <2>1. ASSUME NEW k \in Keys, RefuseRequest(k)
          PROVE  HeldInv'
      BY <1>0, <2>1, AnsweredHeld
    <2>2. ASSUME NEW c \in Children, BeginCreate(c)
          PROVE  HeldInv'
      BY <1>0, <2>2, KeySets, BeginHeld
    <2>3. ASSUME NEW c \in Children, NEW k \in StopKeys,
                 StopAnswered(k, c) \/ StopJoins(k, c) \/ BeginStop(k, c)
          PROVE  HeldInv'
      BY <1>0, <2>3, KeySets, AnsweredHeld, JoinHeld, BeginHeld
    <2>4. ASSUME NEW c \in Children, NEW k \in ResumeKeys, ResumeJoins(k, c) \/ BeginResume(k, c)
          PROVE  HeldInv'
      BY <1>0, <2>4, KeySets, JoinHeld, BeginHeld
    <2> QED BY <1>1, <2>1, <2>2, <2>3, <2>4 DEF Owner
  <1>2. ASSUME NEW c \in Children, Advance(c)
        PROVE  HeldInv'
    BY <1>0, <1>2, LaunchStepHeld, LaunchEndHeld, QuiesceStepHeld, VerifyHeld, QuiesceEndHeld
    DEF Advance, Launch, Quiesce
  <1>3. ASSUME NEW c \in Children, ServeResult(c)
        PROVE  HeldInv'
    BY <1>0, <1>3, ResultHeld, QuiesceStepHeld DEF ServeResult
  <1>4. ASSUME NEW k \in LaunchKeys, WorktreeWorker(k) \/ PaneWorker(k)
        PROVE  HeldInv'
    BY <1>0, <1>4, WorkerHeld
  <1>5. CASE \/ \E k \in LaunchKeys : Agent(k) \/ LeaseExpires(k)
             \/ \E c \in Children : Nudge(c)
             \/ MuxDies \/ UNCHANGED vars
    BY <1>0, <1>5, HostHeld
  <1>6. CASE Crash \/ Start
    BY <1>0, <1>6, RestartHeld
  <1>7. CASE Recover
    BY <1>0, <1>7, ReconcileHeld, AnswerAbandonedHeld DEF Recover
  <1> QED BY <1>1, <1>2, <1>3, <1>4, <1>5, <1>6, <1>7 DEF Next

-----------------------------------------------------------------------------
(* Answers are final *)

\* A key that is answered in a step had no answer before.
LEMMA AnswersOnce ==
    ASSUME MaxCrashes <= 1, HeldInv, [Next]_vars, NEW k \in Keys, journal[k] \in {"ok", "refused"}
    PROVE  journal'[k] = journal[k]
  <1>0. TypeOK /\ \A c \in Children : k \notin JobKeys(c)
    BY DEF HeldInv, HeldBy
  <1>1. CASE Owner
    <2>1. \E i \in Keys : /\ journal[i] = "none"
                         /\ \E a \in {"accepted", "ok", "refused"} :
                               journal' = [journal EXCEPT ![i] = a]
      BY <1>1, KeySets
      DEF Owner, RefuseRequest, BeginCreate, StopAnswered, StopJoins, BeginStop, ResumeJoins,
          BeginResume, Fresh, Accept
    <2> QED BY <1>0, <2>1 DEF TypeOK
  <1>2. ASSUME NEW c \in Children, Launch(c)
        PROVE  journal'[k] = journal[k]
    <2>1. \/ journal' = journal
          \/ \E s : \E a \in {"ok", "refused"} : EndLaunch(c, s, a)
      BY <1>2 DEF Launch, StartWorktree, ReuseWorktree, TakeWorktree, MintDirs, StartPane,
                  TakePane, Commit, AwaitEgress, ReleaseGate, AwaitReady, FailLaunch, storeVars
    <2> QED BY <1>0, <2>1 DEF EndLaunch, JobKeys
  <1>3. ASSUME NEW c \in Children, Quiesce(c)
        PROVE  journal'[k] = journal[k]
    <2>1. journal' = journal \/ \E a \in {"ok", "refused"} : EndQuiesce(c, a)
      BY <1>3 DEF Quiesce, GraceExpires, StopPane, StopFails, VerifyWorktree, DecideOutcome,
                  DecideUnrecorded, QuiesceLost, storeVars
    <2> QED BY <1>0, <2>1 DEF EndQuiesce, Answered, JobKeys
  <1>4. CASE Recover
    <2>1. crashes = 1 \/ phase # "recovering"
      BY <1>0, BoundsAssumption DEF HeldInv, TypeOK
    <2>2. ASSUME NEW i \in LaunchKeys,
                 ReconcilePending(i) \/ AdoptFinished(i) \/ AdoptRecovered(i)
          PROVE  journal'[k] = journal[k]
      <3>1. /\ phase = "recovering" /\ Unfinished(i)
            /\ \E s, a : CloseSaga(i, s, a)
        BY <2>2 DEF ReconcilePending, AdoptFinished, AdoptRecovered, ToReconcile
      <3>2. journal[i] = "accepted"
        BY <2>1, <3>1 DEF HeldInv
      <3> QED BY <1>0, <3>1, <3>2 DEF CloseSaga, TypeOK
    <2>3. CASE \E c \in Children : ResumeQuiesce(c)
      BY <2>3 DEF ResumeQuiesce
    <2>4. CASE AnswerAbandoned
      BY <2>4 DEF AnswerAbandoned, Answered, Abandoned
    <2> QED BY <1>4, <2>2, <2>3, <2>4 DEF Recover
  <1>5. CASE \/ \E c \in Children : ServeResult(c) \/ Nudge(c)
             \/ \E i \in LaunchKeys : \/ WorktreeWorker(i) \/ PaneWorker(i)
                                      \/ Agent(i) \/ LeaseExpires(i)
             \/ MuxDies \/ Crash \/ Start \/ UNCHANGED vars
    BY <1>5
    DEF ServeResult, StartFinish, EndGrace, HoldIntent, DropResult, Nudge, NudgesUnanswered,
        ReportStalled, WorktreeWorker, PaneWorker, Agent, Report, Work, PaneExits, SendResult,
        LeaseExpires, MuxDies, Crash, Start, vars, storeVars
  <1> QED BY <1>1, <1>2, <1>3, <1>4, <1>5 DEF Next, Advance

\* What the journal answered stays the answer, ok or err: a request id is not
\* answered twice with two results.  One crash at most: a second recovery may
\* find unfinished a launch that the first one answered.
THEOREM AnswersAreFinal ==
    ASSUME MaxCrashes <= 1
    PROVE  Spec => AnswerIsFinal
  <1>1. HeldInv /\ [Next]_vars =>
            [\A k \in Keys : journal[k] \in {"ok", "refused"} => journal'[k] = journal[k]]_vars
    BY AnswersOnce
  <1>2. HeldInv /\ [Next]_vars => HeldInv'
    BY HeldStep
  <1> QED BY InitHeld, <1>1, <1>2, PTL DEF Spec, AnswerIsFinal

=============================================================================
