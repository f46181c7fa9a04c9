------------------------- MODULE ChildAgents_proofs -------------------------
(***************************************************************************)
(* What friring knows of the agents of its children, for every set of keys *)
(* and any number of crashes: one agent runs in a worktree, behind rows    *)
(* that name it, in a worktree that is there, and not in a child that was  *)
(* reported done or stopped.  The multiplexer is one that kills what it is *)
(* told to and says which pane it is asked about (KillsWork).              *)
(*                                                                         *)
(* The invariant is AgentInv, a conjunction over the children and their    *)
(* launches.  A step is about one child: Untouched says that it leaves the *)
(* others alone, and what it does to its own is looked at part by part.    *)
(*                                                                         *)
(* Then what one life of friring promises of the slots of its children:    *)
(* their number is capped, a child that ended comes back by a resume or by *)
(* a stall report, a stop that is answered stopped it (LiveInv, CapInv).   *)
(***************************************************************************)
EXTENDS ChildLifecycle_proofs, FiniteSetTheorems

KillsWork == KillMayFail = FALSE /\ QueryMayFail = FALSE

-----------------------------------------------------------------------------
(* The invariant *)

EarlySteps == {"named", "worktree_running", "worktree", "dirs", "pane_running", "pane"}
LateSteps  == {"committed", "egress_live", "released"}

\* The step the saga row has while a launch job is at one of its own.
StepOf(goal, step) ==
    CASE step = "worktree_running"               -> "worktree"
      [] step = "worktree" /\ goal = "resume"    -> "named"
      [] step = "pane_running"                   -> "pane"
      [] OTHER                                   -> step

\* A launch is of the child it names for as long as there is a row of it.
SagaAgrees(k) ==
    /\ saga[k].step = "none" => saga[k].child = NoKey
    /\ saga[k].step # "none" => saga[k].child \in Children /\ journal[k] # "none"
    /\ saga[k].step # "none" /\ k \in CreateKeys => saga[k].child = k
    /\ saga[k].claimed => k \in CreateKeys
    /\ saga[k].outcome # "none" => saga[k].child \in Children
                                   /\ saga[k].outcome \in said[saga[k].child]

\* No agent runs for the child.
NoneRuns(c) == \A k \in LaunchKeys : saga[k].child = c => pane[k] # "running"

\* The job of a launch and its saga go together, and no agent runs until the
\* gate of this launch is opened.
LaunchAgrees(c) ==
    LET j == jobs[c]
        k == jobs[c].key
    IN  Launching(c) =>
          /\ phase = "serving" /\ saga[k].child = c
          /\ j.goal = "create" <=> k \in CreateKeys
          /\ saga[k].step = StepOf(j.goal, j.step)
          /\ j.step = "worktree_running" => j.goal = "create"
          /\ j.step \in EarlySteps => NoneRuns(c)
          /\ j.step \in LateSteps => row[c] = k /\ entry[c] = "live"
          /\ j.goal = "create" => /\ c \notin overdue
                                  /\ \A i \in LaunchKeys : saga[i].child = c => i = c
          /\ j.res = "err_owned" => j.goal = "create"
          /\ j.goal = "resume" => row[c] # NoKey
          /\ j.intent # "none" => j.intent \in said[c]

\* What its workers have done is there, and what they have still to do is not.
WorkerAgrees(c) ==
    LET j == jobs[c]
    IN  Launching(c) =>
          /\ j.goal = "create" /\ (j.step \notin {"named", "worktree_running"} \/ j.res = "ok") =>
                wt[c] # "absent"
          /\ <<"pane", j.key>> \in workers => j.step = "pane_running" /\ j.res = "none"

\* A quiesce verifies a worktree nobody works in any more.
QuiesceAgrees(c) ==
    LET j == jobs[c]
    IN  Quiescing(c) =>
          /\ phase # "down" /\ row[c] # NoKey
          /\ j.step = "verify_running" => NoneRuns(c) /\ (j.res = "clean" => wt[c] = "clean")
          /\ j.clean = "done" => j.outcome = "completed" /\ "completed" \in said[c]

\* A child has its session row from S6 on, and nothing before.
RowAgrees(c) ==
    /\ row[c] = NoKey <=> cstate[c] = "none"
    /\ row[c] = NoKey =>
          /\ entry[c] = "none" /\ c \notin overdue
          /\ \A k \in LaunchKeys : saga[k].child = c => saga[k].step \notin CommittedSteps
    /\ row[c] # NoKey =>
          /\ saga[row[c]].child = c
          /\ saga[row[c]].step \in CommittedSteps \cup FinalSteps
          /\ saga[c].step \in CommittedSteps \cup FinalSteps

\* A child whose worktree was reclaimed after S6 is over for good.
LostIsOver(c) ==
    row[c] # NoKey /\ wt[c] = "absent" =>
        /\ cstate[c] = "failed" /\ ~Busy(c) /\ c \notin overdue
        /\ entry[c] \in {"none", "ghost"}
        /\ row[c] = c /\ saga[c].step \in FinalSteps
        /\ pane[c] = "none" /\ <<"pane", c>> \notin workers
        /\ \A k \in LaunchKeys : saga[k].child = c => k = c

\* An agent is in the pane its child's row names, and in the list.
RunnersAgree(c) ==
    \A k \in LaunchKeys : saga[k].child = c /\ pane[k] = "running" =>
        /\ row[c] = k /\ saga[k].step \in {"released"} \cup FinalSteps
        /\ phase # "down" => entry[c] = "live"

\* The verdict is about what is there.
VerdictAgrees(c) ==
    cstate[c] \in {"done", "stopped"} =>
        /\ ~Busy(c) /\ NoneRuns(c) /\ wt[c] = "clean" /\ result[c].dirty = FALSE
        /\ cstate[c] = "done" => result[c].outcome = "completed" /\ "completed" \in said[c]

OutboxAgrees(c) == outbox[c] # "empty" => outbox[c] \in said[c]

ChildAgrees(c) ==
    /\ LaunchAgrees(c) /\ WorkerAgrees(c) /\ QuiesceAgrees(c) /\ RowAgrees(c)
    /\ LostIsOver(c) /\ RunnersAgree(c) /\ VerdictAgrees(c) /\ OutboxAgrees(c)

\* An agent that runs is of a launch, and so is a worker that opens its pane.
RunnersAreLaunched ==
    \A k \in LaunchKeys :
        pane[k] = "running" \/ <<"pane", k>> \in workers => saga[k].step # "none"

AgentInv ==
    /\ TypeOK /\ NoTrace /\ RunnersAreLaunched
    /\ \A k \in LaunchKeys : SagaAgrees(k)
    /\ \A c \in Children : ChildAgrees(c)

-----------------------------------------------------------------------------
(* What a step leaves alone *)

\* Everything there is of a child besides its launches.
SameChild(d) ==
    /\ jobs'[d] = jobs[d] /\ entry'[d] = entry[d] /\ cstate'[d] = cstate[d] /\ row'[d] = row[d]
    /\ result'[d] = result[d] /\ wt'[d] = wt[d] /\ outbox'[d] = outbox[d] /\ said'[d] = said[d]
    /\ d \in overdue' => d \in overdue

\* A launch no agent is started for, by a gate opened or a worker sent.
SameLaunch(k) ==
    /\ saga'[k].child = saga[k].child /\ saga'[k].step = saga[k].step
    /\ pane'[k] = "running" => pane[k] = "running"
    /\ pane[k] = "none" /\ <<"pane", k>> \notin workers => pane'[k] = "none"
    /\ <<"pane", k>> \in workers' => <<"pane", k>> \in workers

\* A launch of child c, or one that becomes one.
LaunchOf(k, c) ==
    /\ saga'[k].child = c /\ saga[k].child \in {c, NoKey}
    /\ k \in CreateKeys => k = c

LEMMA UntouchedKeeps ==
    ASSUME NEW d \in Children, TypeOK, ChildAgrees(d), phase' = phase, SameChild(d),
           \A k \in LaunchKeys :
              saga[k].child = d \/ saga'[k].child = d \/ k = d => SameLaunch(k)
    PROVE  ChildAgrees(d)'
  <1> USE DEF ChildAgrees
  <1>1. Launching(d)' = Launching(d) /\ Quiescing(d)' = Quiescing(d) /\ Busy(d)' = Busy(d)
    BY DEF SameChild, Launching, Quiescing, Busy
  <1>2. NoneRuns(d) => NoneRuns(d)'
    BY DEF SameLaunch, NoneRuns
  <1>3. d \in LaunchKeys /\ (row[d] # NoKey => row[d] \in LaunchKeys)
        /\ (Launching(d) => jobs[d].key \in LaunchKeys)
    BY KeySets, JobKinds, LaunchFields DEF TypeOK
  <1>4. LaunchAgrees(d)'
    BY <1>1, <1>2, <1>3 DEF SameChild, SameLaunch, LaunchAgrees
  <1>5. WorkerAgrees(d)'
    BY <1>1, <1>3 DEF SameChild, SameLaunch, LaunchAgrees, WorkerAgrees
  <1>6. QuiesceAgrees(d)'
    BY <1>1, <1>2 DEF SameChild, QuiesceAgrees
  <1>7. RowAgrees(d)'
    BY <1>3 DEF SameChild, SameLaunch, RowAgrees
  <1>8. LostIsOver(d)'
    BY <1>1, <1>3 DEF SameChild, SameLaunch, LostIsOver
  <1>9. RunnersAgree(d)'
    BY DEF SameChild, SameLaunch, RunnersAgree
  <1>10. VerdictAgrees(d)'
    BY <1>1, <1>2 DEF SameChild, VerdictAgrees
  <1>11. OutboxAgrees(d)'
    BY DEF SameChild, OutboxAgrees
  <1> QED BY <1>4, <1>5, <1>6, <1>7, <1>8, <1>9, <1>10, <1>11

\* A step that is about child c and its launches keeps every other child.
LEMMA OthersKeep ==
    ASSUME AgentInv, NEW c \in Children, phase' = phase,
           \A d \in Children : d # c => SameChild(d),
           \A k \in LaunchKeys : SameLaunch(k) \/ LaunchOf(k, c)
    PROVE  \A d \in Children : d # c => ChildAgrees(d)'
  <1> SUFFICES ASSUME NEW d \in Children, d # c
               PROVE  ChildAgrees(d)'
    OBVIOUS
  <1>1. NoKey \notin Children
    BY KeysAssumption, KeySets
  <1>2. \A k \in LaunchKeys : saga[k].child = d \/ saga'[k].child = d \/ k = d => SameLaunch(k)
    BY <1>1, KeySets DEF LaunchOf
  <1> QED BY <1>2, UntouchedKeeps DEF AgentInv

\* What there is to show of a step about child c.
LEMMA AgentsKept ==
    ASSUME AgentInv, TypeOK', NoTrace', NEW c \in Children, phase' = phase,
           \A d \in Children : d # c => SameChild(d),
           \A k \in LaunchKeys : SameLaunch(k) \/ LaunchOf(k, c),
           \A k \in LaunchKeys : SagaAgrees(k)',
           RunnersAreLaunched', ChildAgrees(c)'
    PROVE  AgentInv'
  <1>1. \A d \in Children : d # c => ChildAgrees(d)'
    BY OthersKeep
  <1> QED BY <1>1 DEF AgentInv

-----------------------------------------------------------------------------
(* What a step does to the rows of its launches *)

\* A row that is written is of the same launch, and says nothing the child
\* has not said.
SagaGoesOn(k) ==
    /\ saga[k].step # "none" /\ saga'[k].step # "none"
    /\ saga'[k].child = saga[k].child
    /\ saga'[k].claimed => saga[k].claimed \/ k \in CreateKeys
    /\ saga'[k].outcome = saga[k].outcome \/ saga'[k].outcome \in said'[saga[k].child]

LEMMA SagasAgree ==
    ASSUME AgentInv, \A k \in Keys : journal[k] # "none" => journal'[k] # "none",
           \A d \in Children : said[d] \subseteq said'[d],
           \A k \in LaunchKeys : saga'[k] = saga[k] \/ SagaGoesOn(k)
    PROVE  \A k \in LaunchKeys : SagaAgrees(k)'
  <1> SUFFICES ASSUME NEW k \in LaunchKeys
               PROVE  SagaAgrees(k)'
    OBVIOUS
  <1>1. SagaAgrees(k) /\ k \in Keys
    BY KeySets DEF AgentInv
  <1>2. CASE saga'[k] = saga[k]
    BY <1>1, <1>2 DEF SagaAgrees
  <1>3. CASE SagaGoesOn(k)
    BY <1>1, <1>3 DEF SagaAgrees, SagaGoesOn
  <1> QED BY <1>2, <1>3

-----------------------------------------------------------------------------
(* The steps of a launch *)

LEMMA LaunchKnown ==
    ASSUME AgentInv, NEW c \in Children,
           Launching(c) \/ jobs[c].step \in LaunchSteps
    PROVE  /\ Launching(c) /\ jobs[c] \in LaunchJobs /\ jobs[c].key \in LaunchKeys
           /\ jobs[c].step # "none" /\ ~Quiescing(c) /\ Busy(c)
           /\ saga[jobs[c].key].child = c /\ saga[jobs[c].key].step # "none"
           /\ jobs[c].goal = "create" => jobs[c].key = c
           /\ wt[c] = "absent" => row[c] = NoKey
           /\ ChildAgrees(c)
  <1>1. TypeOK /\ ChildAgrees(c)
    BY DEF AgentInv
  <1>2. jobs[c] \in LaunchJobs
    BY <1>1, JobKinds
  <1>3. Launching(c) /\ jobs[c].key \in LaunchKeys /\ jobs[c].step # "none" /\ ~Quiescing(c)
        /\ Busy(c) /\ jobs[c].goal \in {"create", "resume"} /\ jobs[c].step \in LaunchSteps
    BY <1>2 DEF LaunchJobs, Launching, Quiescing, Busy, LaunchSteps
  <1>4. saga[jobs[c].key].child = c /\ (jobs[c].goal = "create" => jobs[c].key \in CreateKeys)
        /\ saga[jobs[c].key].step = StepOf(jobs[c].goal, jobs[c].step)
    BY <1>1, <1>3 DEF ChildAgrees, LaunchAgrees
  <1>5. saga[jobs[c].key].step # "none"
    BY <1>3, <1>4 DEF StepOf, LaunchSteps
  <1>6. jobs[c].goal = "create" => jobs[c].key = c
    BY <1>3, <1>4, <1>5 DEF AgentInv, SagaAgrees
  <1>7. wt[c] = "absent" => row[c] = NoKey
    BY <1>1, <1>3 DEF ChildAgrees, LostIsOver
  <1> QED BY <1>1, <1>2, <1>3, <1>4, <1>5, <1>6, <1>7

\* Where a launch step leads, and what it has made sure of.
GoesOn(c, s) ==
    LET j == jobs[c]
    IN  /\ \/ s \in EarlySteps \ {"named"} /\ j.step \in EarlySteps
           \/ s = "egress_live" /\ j.step = "committed"
        /\ s = "worktree_running" => j.goal = "create"
        /\ j.goal = "create" /\ s # "worktree_running" =>
              j.step \notin {"named", "worktree_running"} \/ j.res = "ok"

\* A launch step that touches the job, the row and the workers only.
StepsTo(c, s) ==
    LET k == jobs[c].key
    IN  /\ jobs[c].step \in LaunchSteps /\ s \in LaunchSteps
        /\ GoesOn(c, s) /\ Move(c, s)
        /\ Wrote(k) /\ saga'[k].step = StepOf(jobs[c].goal, s)
        /\ saga'[k].claimed # saga[k].claimed => jobs[c].goal = "create"
        /\ saga'[k].outcome = saga[k].outcome
        /\ UNCHANGED <<phase, journal, entry, overdue, cstate, row, result, pane, wt, outbox, said>>
        /\ \A i \in LaunchKeys :
              <<"pane", i>> \in workers' =>
                  <<"pane", i>> \in workers \/ (i = k /\ s = "pane_running")
        /\ s # "pane_running" => jobs[c].step # "pane_running" \/ jobs[c].res # "none"

LEMMA LaunchStepAgrees ==
    ASSUME AgentInv, NEW c \in Children, NEW s, StepsTo(c, s)
    PROVE  /\ \A d \in Children : d # c => SameChild(d)
           /\ \A k \in LaunchKeys : SameLaunch(k) \/ LaunchOf(k, c)
           /\ RunnersAreLaunched' /\ ChildAgrees(c)'
  <1> DEFINE k == jobs[c].key
  <1> USE DEF StepsTo
  <1>0. TypeOK
    BY DEF AgentInv
  <1>1. /\ Launching(c) /\ jobs[c] \in LaunchJobs /\ k \in LaunchKeys
        /\ jobs[c].step # "none" /\ ~Quiescing(c) /\ Busy(c)
        /\ saga[k].child = c /\ saga[k].step # "none"
        /\ jobs[c].goal = "create" => k = c
        /\ wt[c] = "absent" => row[c] = NoKey
        /\ ChildAgrees(c)
    BY LaunchKnown
  <1>2. /\ jobs'[c].goal = jobs[c].goal /\ jobs'[c].step = s /\ jobs'[c].key = k
        /\ jobs'[c].res = "none" /\ jobs'[c].intent = jobs[c].intent
        /\ \A d \in Children : d # c => jobs'[d] = jobs[d]
    BY <1>0, <1>1, MoveDoes
  <1>3. Launching(c)' /\ ~Quiescing(c)' /\ Busy(c)'
    BY <1>1, <1>2 DEF Launching, Quiescing, Busy
  <1>4. \A i \in LaunchKeys : saga'[i].child = saga[i].child /\ (i # k => saga'[i] = saga[i])
    BY DEF Wrote
  <1>5. \A d \in Children : d # c => SameChild(d)
    BY <1>2 DEF SameChild
  <1>6. \A i \in LaunchKeys : SameLaunch(i) \/ LaunchOf(i, c)
    <2>1. SagaAgrees(k)
      BY <1>1 DEF AgentInv
    <2>2. LaunchOf(k, c)
      BY <1>1, <1>4, <2>1 DEF LaunchOf, SagaAgrees
    <2> QED BY <1>4, <2>2 DEF SameLaunch
  <1>7. saga'[k].step # "none"
    BY DEF StepOf, LaunchSteps
  <1>8. RunnersAreLaunched'
    BY <1>4, <1>7 DEF AgentInv, RunnersAreLaunched
  <1>9. NoneRuns(c) => NoneRuns(c)'
    BY <1>4 DEF NoneRuns
  <1>10. LaunchAgrees(c)'
    BY <1>1, <1>2, <1>3, <1>4, <1>9
    DEF ChildAgrees, LaunchAgrees, GoesOn, EarlySteps, LateSteps
  <1>11. WorkerAgrees(c)'
    BY <1>1, <1>2, <1>3 DEF ChildAgrees, WorkerAgrees, GoesOn, EarlySteps, LateSteps
  <1>12. row[c] # NoKey /\ row[c] = k => s \in LateSteps
    BY <1>1 DEF ChildAgrees, LaunchAgrees, RowAgrees, GoesOn, EarlySteps, LateSteps, StepOf,
               CommittedSteps, FinalSteps
  <1>13. row[c] # NoKey /\ k = c => s \in LateSteps
    BY <1>1 DEF ChildAgrees, LaunchAgrees, RowAgrees, GoesOn, EarlySteps, LateSteps, StepOf,
               CommittedSteps, FinalSteps
  <1>14. s \in LateSteps => saga'[k].step \in CommittedSteps
    BY DEF LateSteps, StepOf, CommittedSteps
  <1>15. row[c] = NoKey => saga'[k].step \notin CommittedSteps
    <2>1. row[c] = NoKey => jobs[c].step \notin LateSteps
      BY <1>1, KeySets, KeysAssumption DEF ChildAgrees, LaunchAgrees
    <2> QED BY <2>1 DEF GoesOn, EarlySteps, LateSteps, StepOf, CommittedSteps
  <1>16. RowAgrees(c)'
    BY <1>1, <1>4, <1>12, <1>13, <1>14, <1>15, KeySets, <1>0 DEF ChildAgrees, RowAgrees, TypeOK
  <1>17. QuiesceAgrees(c)' /\ VerdictAgrees(c)' /\ OutboxAgrees(c)' /\ LostIsOver(c)'
    BY <1>1, <1>3 DEF ChildAgrees, QuiesceAgrees, VerdictAgrees, OutboxAgrees, LostIsOver
  <1>18. RunnersAgree(c)'
    <2>1. ASSUME pane[k] = "running"
          PROVE  saga'[k].step \in {"released"} \cup FinalSteps
      BY <2>1, <1>1
      DEF ChildAgrees, RunnersAgree, LaunchAgrees, NoneRuns, GoesOn, EarlySteps, LateSteps,
          StepOf, FinalSteps
    <2> QED BY <1>1, <1>4, <2>1 DEF ChildAgrees, RunnersAgree
  <1> QED BY <1>5, <1>6, <1>8, <1>10, <1>11, <1>16, <1>17, <1>18 DEF ChildAgrees

LEMMA LaunchStepDone ==
    ASSUME AgentInv, TypeOK', NoTrace', NEW c \in Children, NEW s, StepsTo(c, s)
    PROVE  AgentInv'
  <1> DEFINE k == jobs[c].key
  <1>1. /\ \A d \in Children : d # c => SameChild(d)
        /\ \A i \in LaunchKeys : SameLaunch(i) \/ LaunchOf(i, c)
        /\ RunnersAreLaunched' /\ ChildAgrees(c)'
    BY LaunchStepAgrees
  <1>2. k \in LaunchKeys /\ saga[k].step # "none" /\ (jobs[c].goal = "create" => k \in CreateKeys)
    BY LaunchKnown, KeySets DEF StepsTo
  <1>3. saga'[k].step # "none"
    BY DEF StepsTo, StepOf, LaunchSteps
  <1>4. SagaGoesOn(k)
    BY <1>2, <1>3 DEF SagaGoesOn, StepsTo, Wrote
  <1>5. \A i \in LaunchKeys : SagaAgrees(i)'
    <2>1. \A i \in LaunchKeys : saga'[i] = saga[i] \/ SagaGoesOn(i)
      BY <1>4 DEF StepsTo, Wrote
    <2>2. journal' = journal /\ said' = said
      BY DEF StepsTo
    <2> QED BY <2>1, <2>2, SagasAgree
  <1> QED BY <1>1, <1>5, AgentsKept DEF StepsTo

LEMMA LaunchStepKeeps ==
    ASSUME AgentInv, TypeOK', NoTrace', NEW c \in Children,
           StartWorktree(c) \/ ReuseWorktree(c) \/ TakeWorktree(c) \/ MintDirs(c)
           \/ StartPane(c) \/ TakePane(c) \/ AwaitEgress(c)
    PROVE  AgentInv'
  <1> DEFINE k == jobs[c].key
  <1>1. jobs[c].step \in LaunchSteps
    BY DEF StartWorktree, ReuseWorktree, TakeWorktree, MintDirs, StartPane, TakePane,
           AwaitEgress, At, LaunchSteps
  <1>2. TypeOK /\ k \in LaunchKeys /\ jobs[c].goal \in {"create", "resume"}
        /\ saga[k] \in Sagas /\ LaunchAgrees(c)
    BY <1>1, LaunchKnown DEF AgentInv, TypeOK, Launching, ChildAgrees
  <1>3. Launching(c)
    BY <1>1, LaunchKnown
  <1>4. saga[k].step = StepOf(jobs[c].goal, jobs[c].step)
        /\ (jobs[c].step = "worktree_running" => jobs[c].goal = "create")
    BY <1>2, <1>3 DEF LaunchAgrees
  <1>5. CASE StartWorktree(c)
    <2>1. Wrote(k) /\ saga'[k].step = "worktree" /\ saga'[k].claimed = saga[k].claimed
          /\ saga'[k].outcome = saga[k].outcome
      BY <1>2, <1>5, RecordWrites DEF StartWorktree
    <2>2. GoesOn(c, "worktree_running")
      BY <1>5 DEF StartWorktree, At, GoesOn, EarlySteps
    <2>3. StepOf(jobs[c].goal, "worktree_running") = "worktree"
      BY DEF StepOf
    <2>4. \A i \in LaunchKeys : <<"pane", i>> \in workers' => <<"pane", i>> \in workers
      BY <1>5 DEF StartWorktree
    <2>5. jobs[c].step # "pane_running" /\ Move(c, "worktree_running")
          /\ UNCHANGED <<phase, journal, entry, overdue, cstate, row, result, pane, wt, outbox, said>>
      BY <1>5 DEF StartWorktree, At, hostVars
    <2>6. "worktree_running" \in LaunchSteps
      BY DEF LaunchSteps
    <2>7. StepsTo(c, "worktree_running")
      BY <1>1, <2>1, <2>2, <2>3, <2>4, <2>5, <2>6 DEF StepsTo
    <2> QED BY <2>7, LaunchStepDone
  <1>6. CASE ReuseWorktree(c)
    <2>1. Wrote(k) /\ saga'[k] = saga[k]
      BY <1>6 DEF ReuseWorktree, storeVars, Wrote
    <2>2. GoesOn(c, "worktree")
      BY <1>6 DEF ReuseWorktree, At, GoesOn, EarlySteps
    <2>3. StepOf(jobs[c].goal, "worktree") = saga[k].step
      BY <1>4, <1>6 DEF StepOf, ReuseWorktree, At
    <2>4. jobs[c].step # "pane_running" /\ Move(c, "worktree")
          /\ workers' = workers
          /\ UNCHANGED <<phase, journal, entry, overdue, cstate, row, result, pane, wt, outbox, said>>
      BY <1>6 DEF ReuseWorktree, At, hostVars, storeVars
    <2>5. "worktree" \in LaunchSteps
      BY DEF LaunchSteps
    <2>6. StepsTo(c, "worktree")
      BY <1>1, <2>1, <2>2, <2>3, <2>4, <2>5 DEF StepsTo
    <2> QED BY <2>6, LaunchStepDone
  <1>7. CASE TakeWorktree(c)
    <2>1. saga' = [saga EXCEPT ![k].claimed = TRUE, ![k].leased = TRUE]
      BY <1>7 DEF TakeWorktree
    <2>2. Wrote(k) /\ saga'[k].step = saga[k].step /\ saga'[k].outcome = saga[k].outcome
      BY <1>2, <2>1, TakeWrites
    <2>3. jobs[c].goal = "create"
      BY <1>4, <1>7 DEF TakeWorktree, At
    <2>4. GoesOn(c, "worktree")
      BY <1>7 DEF TakeWorktree, At, GoesOn, EarlySteps
    <2>5. StepOf(jobs[c].goal, "worktree") = saga[k].step
      BY <1>4, <1>7, <2>3 DEF StepOf, TakeWorktree, At
    <2>6. jobs[c].step # "pane_running" /\ Move(c, "worktree")
          /\ workers' = workers
          /\ UNCHANGED <<phase, journal, entry, overdue, cstate, row, result, pane, wt, outbox, said>>
      BY <1>7 DEF TakeWorktree, At, hostVars, storeVars
    <2>7. "worktree" \in LaunchSteps
      BY DEF LaunchSteps
    <2>8. StepsTo(c, "worktree")
      BY <1>1, <2>2, <2>3, <2>4, <2>5, <2>6, <2>7 DEF StepsTo
    <2> QED BY <2>8, LaunchStepDone
  <1>8. CASE MintDirs(c)
    <2>1. Wrote(k) /\ saga'[k].step = "dirs" /\ saga'[k].claimed = saga[k].claimed
          /\ saga'[k].outcome = saga[k].outcome
      BY <1>2, <1>8, RecordWrites DEF MintDirs
    <2>2. GoesOn(c, "dirs") /\ StepOf(jobs[c].goal, "dirs") = "dirs"
      BY <1>8 DEF MintDirs, At, GoesOn, EarlySteps, StepOf
    <2>3. jobs[c].step # "pane_running" /\ Move(c, "dirs")
          /\ workers' = workers
          /\ UNCHANGED <<phase, journal, entry, overdue, cstate, row, result, pane, wt, outbox, said>>
      BY <1>8 DEF MintDirs, At, hostVars
    <2>4. "dirs" \in LaunchSteps
      BY DEF LaunchSteps
    <2>5. StepsTo(c, "dirs")
      BY <1>1, <2>1, <2>2, <2>3, <2>4 DEF StepsTo
    <2> QED BY <2>5, LaunchStepDone
  <1>9. CASE StartPane(c)
    <2>1. Wrote(k) /\ saga'[k].step = "pane" /\ saga'[k].claimed = saga[k].claimed
          /\ saga'[k].outcome = saga[k].outcome
      BY <1>2, <1>9, RecordWrites DEF StartPane
    <2>2. GoesOn(c, "pane_running") /\ StepOf(jobs[c].goal, "pane_running") = "pane"
      BY <1>9 DEF StartPane, At, GoesOn, EarlySteps, StepOf
    <2>3. \A i \in LaunchKeys : <<"pane", i>> \in workers' => <<"pane", i>> \in workers \/ i = k
      BY <1>9 DEF StartPane
    <2>4. Move(c, "pane_running")
          /\ UNCHANGED <<phase, journal, entry, overdue, cstate, row, result, pane, wt, outbox, said>>
      BY <1>9 DEF StartPane, At, hostVars
    <2>5. "pane_running" \in LaunchSteps
      BY DEF LaunchSteps
    <2>6. StepsTo(c, "pane_running")
      BY <1>1, <2>1, <2>2, <2>3, <2>4, <2>5 DEF StepsTo
    <2> QED BY <2>6, LaunchStepDone
  <1>10. CASE TakePane(c)
    <2>1. saga' = [saga EXCEPT ![k].mux = TRUE, ![k].leased = TRUE]
      BY <1>10 DEF TakePane
    <2>2. Wrote(k) /\ saga'[k].step = saga[k].step /\ saga'[k].outcome = saga[k].outcome
          /\ saga'[k].claimed = saga[k].claimed
      BY <1>2, <2>1, TakeWrites
    <2>3. GoesOn(c, "pane") /\ StepOf(jobs[c].goal, "pane") = saga[k].step
      BY <1>4, <1>10 DEF StepOf, TakePane, At, GoesOn, EarlySteps
    <2>4. jobs[c].res # "none" /\ Move(c, "pane")  /\ workers' = workers
          /\ UNCHANGED <<phase, journal, entry, overdue, cstate, row, result, pane, wt, outbox, said>>
      BY <1>10 DEF TakePane, At, hostVars, storeVars
    <2>5. "pane" \in LaunchSteps
      BY DEF LaunchSteps
    <2>6. StepsTo(c, "pane")
      BY <1>1, <2>2, <2>3, <2>4, <2>5 DEF StepsTo
    <2> QED BY <2>6, LaunchStepDone
  <1>11. CASE AwaitEgress(c)
    <2>1. Wrote(k) /\ saga'[k].step = "egress_live" /\ saga'[k].claimed = saga[k].claimed
          /\ saga'[k].outcome = saga[k].outcome
      BY <1>2, <1>11, RecordWrites DEF AwaitEgress
    <2>2. GoesOn(c, "egress_live") /\ StepOf(jobs[c].goal, "egress_live") = "egress_live"
      BY <1>11 DEF AwaitEgress, At, GoesOn, EarlySteps, StepOf
    <2>3. jobs[c].step # "pane_running" /\ Move(c, "egress_live")
          /\ workers' = workers
          /\ UNCHANGED <<phase, journal, entry, overdue, cstate, row, result, pane, wt, outbox, said>>
      BY <1>11 DEF AwaitEgress, At, hostVars
    <2>4. "egress_live" \in LaunchSteps
      BY DEF LaunchSteps
    <2>5. StepsTo(c, "egress_live")
      BY <1>1, <2>1, <2>2, <2>3, <2>4 DEF StepsTo
    <2> QED BY <2>5, LaunchStepDone
  <1> QED BY <1>5, <1>6, <1>7, <1>8, <1>9, <1>10, <1>11

\* The rows of a step that records one of the launch it drives.
LEMMA RecordedAgrees ==
    ASSUME AgentInv, NEW k \in LaunchKeys, saga[k].step # "none", NEW s, s # "none",
           Record(k, s), \A i \in Keys : journal[i] # "none" => journal'[i] # "none",
           said' = said
    PROVE  \A i \in LaunchKeys : SagaAgrees(i)'
  <1>1. Wrote(k) /\ saga'[k].step = s /\ saga'[k].claimed = saga[k].claimed
        /\ saga'[k].outcome = saga[k].outcome
    BY RecordWrites DEF AgentInv
  <1>2. SagaGoesOn(k)
    BY <1>1 DEF SagaGoesOn, Wrote
  <1>3. \A i \in LaunchKeys : saga'[i] = saga[i] \/ SagaGoesOn(i)
    BY <1>1, <1>2 DEF Wrote
  <1> QED BY <1>3, SagasAgree

\* What every launch of the child had of it, it has.
LEMMA LaunchOfJob ==
    ASSUME AgentInv, NEW c \in Children, Launching(c) \/ jobs[c].step \in LaunchSteps,
           Wrote(jobs[c].key)
    PROVE  LaunchOf(jobs[c].key, c)
  <1> DEFINE k == jobs[c].key
  <1>1. k \in LaunchKeys /\ saga[k].child = c /\ saga[k].step # "none"
    BY LaunchKnown
  <1>2. SagaAgrees(k)
    BY <1>1 DEF AgentInv
  <1> QED BY <1>1, <1>2 DEF LaunchOf, SagaAgrees, Wrote

LEMMA CommitKeeps ==
    ASSUME AgentInv, TypeOK', NoTrace', NEW c \in Children, Commit(c)
    PROVE  AgentInv'
  <1> DEFINE k == jobs[c].key
  <1>1. jobs[c].step = "pane" /\ phase = "serving" /\ Record(k, "committed")
        /\ Move(c, "committed")
        /\ row' = [row EXCEPT ![c] = k]
        /\ cstate' = [cstate EXCEPT ![c] = "starting"]
        /\ entry' = [entry EXCEPT ![c] = "live"]
        /\ UNCHANGED <<phase, workers, overdue, journal, result, pane, wt, outbox, said>>
    BY DEF Commit, At, hostVars
  <1>2. jobs[c].step \in LaunchSteps
    BY <1>1 DEF LaunchSteps
  <1>3. /\ Launching(c) /\ k \in LaunchKeys /\ Busy(c) /\ ~Quiescing(c)
        /\ saga[k].child = c /\ saga[k].step # "none"
        /\ jobs[c].goal = "create" => k = c
        /\ wt[c] = "absent" => row[c] = NoKey
        /\ ChildAgrees(c) /\ TypeOK
    BY <1>2, LaunchKnown DEF AgentInv
  <1>4. Wrote(k) /\ saga'[k].step = "committed"
    BY <1>1, <1>3, RecordWrites
  <1>5. /\ jobs'[c].goal = jobs[c].goal /\ jobs'[c].step = "committed" /\ jobs'[c].key = k
        /\ jobs'[c].res = "none" /\ jobs'[c].intent = jobs[c].intent
        /\ \A d \in Children : d # c => jobs'[d] = jobs[d]
    BY <1>1, <1>3, MoveDoes
  <1>6. row'[c] = k /\ cstate'[c] = "starting" /\ entry'[c] = "live"
        /\ \A d \in Children : d # c =>
              row'[d] = row[d] /\ cstate'[d] = cstate[d] /\ entry'[d] = entry[d]
    BY <1>1, <1>3 DEF TypeOK
  <1>7. k # NoKey
    BY <1>3, KeySets, KeysAssumption
  <1>8. \A i \in LaunchKeys : saga'[i].child = saga[i].child /\ (i # k => saga'[i] = saga[i])
    BY <1>4 DEF Wrote
  <1>9. Launching(c)' /\ Busy(c)' /\ ~Quiescing(c)'
    BY <1>3, <1>5 DEF Launching, Busy, Quiescing
  <1>10. NoneRuns(c)
    BY <1>1, <1>3 DEF ChildAgrees, LaunchAgrees, EarlySteps
  <1>11. wt[c] # "absent"
    BY <1>1, <1>3 DEF ChildAgrees, LaunchAgrees, WorkerAgrees, Launching
  <1>12. ChildAgrees(c)'
    <2>1. LaunchAgrees(c)'
      BY <1>1, <1>3, <1>4, <1>5, <1>6, <1>7, <1>8, <1>9
      DEF ChildAgrees, LaunchAgrees, EarlySteps, StepOf
    <2>2. WorkerAgrees(c)'
      BY <1>1, <1>3, <1>5, <1>9, <1>11 DEF ChildAgrees, WorkerAgrees
    <2>3. RowAgrees(c)'
      <3>1. saga'[c].step \in CommittedSteps \cup FinalSteps
        <4>1. CASE jobs[c].goal = "create"
          BY <4>1, <1>3, <1>4 DEF CommittedSteps
        <4>2. CASE jobs[c].goal # "create"
          <5>1. row[c] # NoKey /\ k \notin CreateKeys
            BY <4>2, <1>3 DEF ChildAgrees, LaunchAgrees, Launching
          <5> QED BY <5>1, <1>3, <1>8, KeySets DEF ChildAgrees, RowAgrees
        <4> QED BY <4>1, <4>2
      <3> QED BY <3>1, <1>3, <1>4, <1>6, <1>7, <1>8 DEF RowAgrees, CommittedSteps
    <2>4. RunnersAgree(c)' /\ VerdictAgrees(c)' /\ OutboxAgrees(c)' /\ LostIsOver(c)'
          /\ QuiesceAgrees(c)'
      BY <1>1, <1>3, <1>6, <1>8, <1>9, <1>10, <1>11
      DEF RunnersAgree, VerdictAgrees, OutboxAgrees, LostIsOver, QuiesceAgrees, NoneRuns,
          ChildAgrees
    <2> QED BY <2>1, <2>2, <2>3, <2>4 DEF ChildAgrees
  <1>13. \A d \in Children : d # c => SameChild(d)
    BY <1>1, <1>5, <1>6 DEF SameChild
  <1>14. \A i \in LaunchKeys : SameLaunch(i) \/ LaunchOf(i, c)
    BY <1>1, <1>2, <1>4, <1>8, LaunchOfJob DEF SameLaunch
  <1>15. RunnersAreLaunched'
    BY <1>1, <1>4, <1>8 DEF AgentInv, RunnersAreLaunched
  <1>16. \A i \in LaunchKeys : SagaAgrees(i)'
    BY <1>1, <1>3, RecordedAgrees
  <1> QED BY <1>1, <1>12, <1>13, <1>14, <1>15, <1>16, AgentsKept

LEMMA ReleaseGateKeeps ==
    ASSUME AgentInv, TypeOK', NoTrace', NEW c \in Children, ReleaseGate(c)
    PROVE  AgentInv'
  <1> DEFINE k == jobs[c].key
  <1>1. jobs[c].step = "egress_live" /\ phase = "serving" /\ Record(k, "released")
        /\ Move(c, "released")
        /\ pane' = [pane EXCEPT ![k] = IF @ = "gated" THEN "running" ELSE @]
        /\ UNCHANGED <<phase, entry, workers, overdue, journal, cstate, row, result,
                       wt, outbox, said>>
    BY DEF ReleaseGate, At
  <1>2. jobs[c].step \in LaunchSteps
    BY <1>1 DEF LaunchSteps
  <1>3. /\ Launching(c) /\ k \in LaunchKeys /\ Busy(c) /\ ~Quiescing(c)
        /\ saga[k].child = c /\ saga[k].step # "none"
        /\ jobs[c].goal = "create" => k = c
        /\ wt[c] = "absent" => row[c] = NoKey
        /\ ChildAgrees(c) /\ TypeOK
    BY <1>2, LaunchKnown DEF AgentInv
  <1>4. Wrote(k) /\ saga'[k].step = "released"
    BY <1>1, <1>3, RecordWrites
  <1>5. /\ jobs'[c].goal = jobs[c].goal /\ jobs'[c].step = "released" /\ jobs'[c].key = k
        /\ jobs'[c].res = "none" /\ jobs'[c].intent = jobs[c].intent
        /\ \A d \in Children : d # c => jobs'[d] = jobs[d]
    BY <1>1, <1>3, MoveDoes
  <1>6. row[c] = k /\ entry[c] = "live" /\ k # NoKey
    BY <1>1, <1>3, KeySets, KeysAssumption DEF ChildAgrees, LaunchAgrees, LateSteps
  <1>7. \A i \in LaunchKeys : i # k => pane'[i] = pane[i]
    BY <1>1, <1>3 DEF TypeOK
  <1>8. \A i \in LaunchKeys : saga'[i].child = saga[i].child /\ (i # k => saga'[i] = saga[i])
    BY <1>4 DEF Wrote
  <1>9. Launching(c)' /\ Busy(c)' /\ ~Quiescing(c)'
    BY <1>3, <1>5 DEF Launching, Busy, Quiescing
  <1>10. wt[c] # "absent"
    BY <1>3, <1>6
  <1>11. ChildAgrees(c)'
    <2>1. LaunchAgrees(c)'
      BY <1>1, <1>3, <1>4, <1>5, <1>6, <1>8, <1>9
      DEF ChildAgrees, LaunchAgrees, EarlySteps, LateSteps, StepOf
    <2>2. WorkerAgrees(c)'
      BY <1>1, <1>3, <1>5, <1>9, <1>10 DEF ChildAgrees, WorkerAgrees
    <2>3. RowAgrees(c)'
      <3>1. saga'[c].step \in CommittedSteps \cup FinalSteps
        BY <1>3, <1>4, <1>6, <1>8, KeySets DEF ChildAgrees, RowAgrees, CommittedSteps
      <3> QED BY <3>1, <1>1, <1>3, <1>4, <1>6, <1>8 DEF ChildAgrees, RowAgrees, CommittedSteps
    <2>4. RunnersAgree(c)'
      BY <1>1, <1>3, <1>4, <1>6, <1>7, <1>8 DEF ChildAgrees, RunnersAgree
    <2>5. VerdictAgrees(c)' /\ OutboxAgrees(c)' /\ LostIsOver(c)' /\ QuiesceAgrees(c)'
      BY <1>1, <1>3, <1>9, <1>10
      DEF VerdictAgrees, OutboxAgrees, LostIsOver, QuiesceAgrees, ChildAgrees
    <2> QED BY <2>1, <2>2, <2>3, <2>4, <2>5 DEF ChildAgrees
  <1>12. \A d \in Children : d # c => SameChild(d)
    BY <1>1, <1>5 DEF SameChild
  <1>13. \A i \in LaunchKeys : SameLaunch(i) \/ LaunchOf(i, c)
    BY <1>1, <1>2, <1>4, <1>7, <1>8, LaunchOfJob DEF SameLaunch
  <1>14. RunnersAreLaunched'
    BY <1>1, <1>3, <1>4, <1>7, <1>8 DEF AgentInv, RunnersAreLaunched
  <1>15. \A i \in LaunchKeys : SagaAgrees(i)'
    BY <1>1, <1>3, RecordedAgrees
  <1> QED BY <1>1, <1>11, <1>12, <1>13, <1>14, <1>15, AgentsKept

\* A job that starts with a pane to stop, and says of the child what it said.
StopsFirst(j, c) ==
    /\ j.goal \in {"stop", "finish"} /\ j.step \in {"grace", "acked"}
    /\ j.clean = "done" => j.outcome = "completed" /\ "completed" \in said[c]

LEMMA StopStopsFirst ==
    ASSUME NEW c, NEW keys
    PROVE  /\ StopsFirst(StopJob(keys), c)
           /\ \A s \in {"grace", "acked"} : StopsFirst([StopJob(keys) EXCEPT !.step = s], c)
  BY DEF StopsFirst, StopJob, Idle

LEMMA FinishStopsFirst ==
    ASSUME NEW c, NEW keys, NEW outcome \in Outcomes, outcome = "completed" => outcome \in said[c]
    PROVE  StopsFirst(FinishJob(outcome, keys), c)
  BY DEF StopsFirst, FinishJob, Idle, TerminalState, Outcomes

\* What a launch held while it ran is about what the child said then.
LEMMA HeldStopsFirst ==
    ASSUME AgentInv, NEW c \in Children, Launching(c), NEW s
    PROVE  /\ HeldJob(c, s) = Idle \/ StopsFirst(HeldJob(c, s), c)
           /\ s \notin LiveStates => HeldJob(c, s) = Idle
  <1> DEFINE j == jobs[c]
             intent == j.intent # "none" /\ (j.first \/ j.stops = {})
  <1>1. j.intent \in Outcomes \cup {"none"} /\ (j.intent # "none" => j.intent \in said[c])
    BY JobKinds DEF AgentInv, ChildAgrees, LaunchAgrees
  <1>2. CASE s \notin LiveStates \/ (~intent /\ j.stops = {})
    BY <1>2 DEF HeldJob
  <1>3. CASE s \in LiveStates /\ intent
    <2>1. StopsFirst(FinishJob(j.intent, j.stops), c)
      BY <1>1, <1>3, FinishStopsFirst
    <2> QED BY <1>3, <2>1 DEF HeldJob
  <1>4. CASE s \in LiveStates /\ ~intent /\ j.stops # {}
    <2>1. /\ StopsFirst([StopJob(j.stops) EXCEPT !.step = "grace"], c)
          /\ StopsFirst([StopJob(j.stops) EXCEPT !.step = "acked"], c)
      BY StopStopsFirst
    <2> QED BY <1>4, <2>1 DEF HeldJob
  <1> QED BY <1>2, <1>3, <1>4

\* A child left with nothing to do, or with a pane to be stopped first.
LEMMA NextJobAgrees ==
    ASSUME NEW c \in Children,
           jobs'[c] = Idle \/ (StopsFirst(jobs[c], c)' /\ row'[c] # NoKey /\ phase' # "down")
    PROVE  LaunchAgrees(c)' /\ WorkerAgrees(c)' /\ QuiesceAgrees(c)'
  <1>1. CASE jobs'[c] = Idle
    BY <1>1 DEF Idle, LaunchAgrees, WorkerAgrees, QuiesceAgrees, Launching, Quiescing
  <1>2. CASE StopsFirst(jobs[c], c)' /\ row'[c] # NoKey /\ phase' # "down"
    BY <1>2 DEF StopsFirst, LaunchAgrees, WorkerAgrees, QuiesceAgrees, Launching
  <1> QED BY <1>1, <1>2

LEMMA EndLaunchDoes ==
    ASSUME AgentInv, NEW c \in Children, Launching(c), NEW s, NEW a \in {"ok", "refused"},
           EndLaunch(c, s, a)
    PROVE  /\ jobs'[c] = HeldJob(c, s)
           /\ cstate'[c] \in {s, "finishing"} /\ (s \notin LiveStates => cstate'[c] = s)
           /\ \A d \in Children : d # c => jobs'[d] = jobs[d] /\ cstate'[d] = cstate[d]
           /\ \A k \in Keys : journal[k] # "none" => journal'[k] # "none"
  <1>1. TypeOK
    BY DEF AgentInv
  <1>2. s \notin LiveStates => HeldJob(c, s).step # "acked"
    BY HeldStopsFirst DEF Idle
  <1>3. \A k \in Keys : journal[k] # "none" => journal'[k] # "none"
    BY <1>1, EndLaunchJournal
  <1> QED BY <1>1, <1>2, <1>3 DEF EndLaunch, TypeOK

LEMMA AwaitReadyKeeps ==
    ASSUME AgentInv, TypeOK', NoTrace', NEW c \in Children, AwaitReady(c)
    PROVE  AgentInv'
  <1> DEFINE k == jobs[c].key
  <1>1. jobs[c].step = "released" /\ phase = "serving" /\ Record(k, "done")
        /\ EndLaunch(c, "ready", "ok")
        /\ UNCHANGED <<phase, entry, workers, overdue, row, result, pane, wt, outbox, said>>
    BY DEF AwaitReady, At, hostVars
  <1>2. jobs[c].step \in LaunchSteps
    BY <1>1 DEF LaunchSteps
  <1>3. /\ Launching(c) /\ k \in LaunchKeys
        /\ saga[k].child = c /\ saga[k].step # "none"
        /\ wt[c] = "absent" => row[c] = NoKey
        /\ ChildAgrees(c) /\ TypeOK
    BY <1>2, LaunchKnown DEF AgentInv
  <1>4. Wrote(k) /\ saga'[k].step = "done"
    BY <1>1, <1>3, RecordWrites
  <1>5. /\ jobs'[c] = HeldJob(c, "ready") /\ cstate'[c] \in {"ready", "finishing"}
        /\ \A d \in Children : d # c => jobs'[d] = jobs[d] /\ cstate'[d] = cstate[d]
        /\ \A i \in Keys : journal[i] # "none" => journal'[i] # "none"
    BY <1>1, <1>3, EndLaunchDoes
  <1>6. row[c] = k /\ k # NoKey
    BY <1>1, <1>3, KeySets, KeysAssumption DEF ChildAgrees, LaunchAgrees, LateSteps
  <1>7. \A i \in LaunchKeys : saga'[i].child = saga[i].child /\ (i # k => saga'[i] = saga[i])
    BY <1>4 DEF Wrote
  <1>8. ChildAgrees(c)'
    <2>1. LaunchAgrees(c)' /\ WorkerAgrees(c)' /\ QuiesceAgrees(c)'
      <3>1. jobs'[c] = Idle \/ StopsFirst(jobs[c], c)'
        BY <1>1, <1>3, <1>5, HeldStopsFirst DEF StopsFirst
      <3> QED BY <3>1, <1>1, <1>6, NextJobAgrees
    <2>2. RowAgrees(c)'
      BY <1>1, <1>3, <1>4, <1>5, <1>6, <1>7, KeySets DEF ChildAgrees, RowAgrees, FinalSteps
    <2>3. RunnersAgree(c)'
      BY <1>1, <1>3, <1>4, <1>7 DEF ChildAgrees, RunnersAgree, FinalSteps
    <2>4. VerdictAgrees(c)' /\ OutboxAgrees(c)' /\ LostIsOver(c)'
      BY <1>1, <1>3, <1>5, <1>6 DEF VerdictAgrees, OutboxAgrees, LostIsOver, ChildAgrees
    <2> QED BY <2>1, <2>2, <2>3, <2>4 DEF ChildAgrees
  <1>9. \A d \in Children : d # c => SameChild(d)
    BY <1>1, <1>5 DEF SameChild
  <1>10. \A i \in LaunchKeys : SameLaunch(i) \/ LaunchOf(i, c)
    BY <1>1, <1>2, <1>4, <1>7, LaunchOfJob DEF SameLaunch
  <1>11. RunnersAreLaunched'
    BY <1>1, <1>4, <1>7 DEF AgentInv, RunnersAreLaunched
  <1>12. \A i \in LaunchKeys : SagaAgrees(i)'
    BY <1>1, <1>3, <1>5, RecordedAgrees
  <1> QED BY <1>1, <1>8, <1>9, <1>10, <1>11, <1>12, AgentsKept

LEMMA KillDoes ==
    ASSUME TypeOK, KillsWork, NEW k \in LaunchKeys, TryKill(k)
    PROVE  pane'[k] = "none" /\ \A i \in LaunchKeys : i # k => pane'[i] = pane[i]
  BY DEF TypeOK, KillsWork, TryKill, Kill

LEMMA ReclaimDoes ==
    ASSUME TypeOK, NEW c \in Children, NEW mine, Reclaim(c, mine)
    PROVE  /\ wt'[c] \in {wt[c], "absent"} /\ (~mine => wt'[c] = wt[c])
           /\ \A d \in Children : d # c => wt'[d] = wt[d]
  BY DEF TypeOK, Reclaim

\* What unwinding kills: the agent, if the gate was opened already.
LEMMA UnwindStops ==
    ASSUME AgentInv, KillsWork, NEW c \in Children, FailLaunch(c)
    PROVE  /\ \A i \in LaunchKeys :
                 saga[i].child = c /\ pane'[i] # "none" => pane'[i] = pane[i] /\ pane[i] # "running"
           /\ \A i \in LaunchKeys : saga[i].child # c => pane'[i] = pane[i]
           /\ jobs[c].step \in LateSteps => pane'[jobs[c].key] = "none"
  <1> DEFINE k == jobs[c].key
  <1>1. Launching(c) /\ phase = "serving" /\ (IF UnwindPane(c) = NoKey THEN pane' = pane
                                              ELSE TryKill(UnwindPane(c)))
    BY DEF FailLaunch
  <1>2. /\ k \in LaunchKeys /\ saga[k].child = c /\ ChildAgrees(c) /\ TypeOK
        /\ jobs[c] \in LaunchJobs
    BY <1>1, LaunchKnown DEF AgentInv
  <1>3. jobs[c].step \in EarlySteps \cup LateSteps
    BY <1>2 DEF LaunchJobs, LaunchSteps, EarlySteps, LateSteps
  <1>4. k # NoKey
    BY <1>2, KeySets, KeysAssumption
  <1>5. jobs[c].step \in LateSteps => row[c] = k /\ entry[c] = "live"
    BY <1>1, <1>2 DEF ChildAgrees, LaunchAgrees
  <1>6. \A i \in LaunchKeys : saga[i].child = c /\ pane[i] = "running" =>
            row[c] = i /\ entry[c] = "live" /\ jobs[c].step \in LateSteps
    BY <1>1, <1>2, <1>3 DEF ChildAgrees, RunnersAgree, LaunchAgrees, NoneRuns
  <1>7. jobs[c].step \in LateSteps =>
            UnwindPane(c) = (IF pane[k] # "none" THEN k ELSE NoKey)
    BY <1>5 DEF UnwindPane, Revalidates, LateSteps
  <1>8. UnwindPane(c) # NoKey => UnwindPane(c) \in LaunchKeys /\ saga[UnwindPane(c)].child = c
    BY <1>2 DEF UnwindPane, ChildAgrees, RowAgrees, TypeOK
  <1> DEFINE u == UnwindPane(c)
  <1>9. /\ u = NoKey => pane' = pane
        /\ u # NoKey => pane'[u] = "none" /\ \A i \in LaunchKeys : i # u => pane'[i] = pane[i]
    BY <1>1, <1>2, <1>8, KillDoes
  <1> HIDE DEF u
  <1>10. /\ u # NoKey => u \in LaunchKeys /\ saga[u].child = c
         /\ jobs[c].step \in LateSteps => u = (IF pane[k] # "none" THEN k ELSE NoKey)
    BY <1>7, <1>8 DEF u
  <1>11. jobs[c].step \in LateSteps => pane'[k] = "none"
    BY <1>2, <1>4, <1>9, <1>10
  <1>12. \A i \in LaunchKeys : saga[i].child # c => pane'[i] = pane[i]
    BY <1>9, <1>10
  <1>13. ASSUME NEW i \in LaunchKeys, saga[i].child = c, pane'[i] # "none"
         PROVE  pane'[i] = pane[i] /\ pane[i] # "running"
    <2>1. pane'[i] = pane[i]
      BY <1>9, <1>13
    <2>2. ASSUME pane[i] = "running"
          PROVE  FALSE
      BY <2>2, <1>5, <1>6, <1>11, <1>13
    <2> QED BY <2>1, <2>2
  <1> QED BY <1>11, <1>12, <1>13

LEMMA FailLaunchKeeps ==
    ASSUME AgentInv, KillsWork, TypeOK', NoTrace', NEW c \in Children, FailLaunch(c)
    PROVE  AgentInv'
  <1> DEFINE k == jobs[c].key
             mine == saga[k].claimed \/ jobs[c].res = "err_owned"
             s == IF Owned(c) THEN "failed" ELSE "none"
  <1>1. /\ phase = "serving" /\ Launching(c)
        /\ entry' = [entry EXCEPT ![c] = "none"]
        /\ Reclaim(c, mine /\ jobs[c].goal = "create")
        /\ saga' = [saga EXCEPT ![k].step = "failed", ![k].claimed = mine, ![k].leased = TRUE]
        /\ EndLaunch(c, s, "refused")
        /\ UNCHANGED <<phase, workers, overdue, row, result, outbox, said>>
    BY DEF FailLaunch
  <1>2. /\ k \in LaunchKeys /\ Busy(c)
        /\ saga[k].child = c /\ saga[k].step # "none"
        /\ jobs[c].goal = "create" => k = c
        /\ wt[c] = "absent" => row[c] = NoKey
        /\ ChildAgrees(c) /\ TypeOK
    BY <1>1, LaunchKnown DEF AgentInv
  <1>3. Wrote(k) /\ saga'[k].step = "failed" /\ saga'[k].claimed = mine
        /\ saga'[k].outcome = saga[k].outcome
    BY <1>1, <1>2, FailWrites
  <1>4. /\ s \notin LiveStates /\ s \in {"failed", "none"}
        /\ row[c] = NoKey <=> s = "none"
    BY <1>2 DEF Owned, ChildAgrees, RowAgrees, LiveStates
  <1>5. HeldJob(c, s) = Idle
    BY <1>1, <1>4, HeldStopsFirst
  <1> HIDE DEF s
  <1>6. /\ jobs'[c] = Idle /\ cstate'[c] = s
        /\ \A d \in Children : d # c => jobs'[d] = jobs[d] /\ cstate'[d] = cstate[d]
        /\ \A i \in Keys : journal[i] # "none" => journal'[i] # "none"
    BY <1>1, <1>4, <1>5, EndLaunchDoes
  <1>7. entry'[c] = "none" /\ \A d \in Children : d # c => entry'[d] = entry[d]
    BY <1>1, <1>2 DEF TypeOK
  <1>8. /\ wt'[c] \in {wt[c], "absent"}
        /\ jobs[c].goal # "create" => wt'[c] = wt[c]
        /\ \A d \in Children : d # c => wt'[d] = wt[d]
    BY <1>1, <1>2, ReclaimDoes
  <1>9. /\ \A i \in LaunchKeys :
              saga[i].child = c /\ pane'[i] # "none" => pane'[i] = pane[i] /\ pane[i] # "running"
        /\ \A i \in LaunchKeys : saga[i].child # c => pane'[i] = pane[i]
        /\ jobs[c].step \in LateSteps => pane'[jobs[c].key] = "none"
    BY UnwindStops
  <1>10. \A i \in LaunchKeys : saga'[i].child = saga[i].child /\ (i # k => saga'[i] = saga[i])
    BY <1>3 DEF Wrote
  <1>11. NoneRuns(c)'
    BY <1>9, <1>10 DEF NoneRuns
  <1>12. LostIsOver(c)'
    <2>1. SUFFICES ASSUME row[c] # NoKey, wt'[c] = "absent"
                   PROVE  /\ cstate'[c] = "failed" /\ ~Busy(c)' /\ c \notin overdue
                          /\ entry'[c] \in {"none", "ghost"}
                          /\ row[c] = c /\ saga'[c].step \in FinalSteps
                          /\ pane'[c] = "none" /\ <<"pane", c>> \notin workers
                          /\ \A i \in LaunchKeys : saga'[i].child = c => i = c
      BY <1>1 DEF LostIsOver
    <2>2. jobs[c].goal = "create" /\ k = c
      BY <1>2, <1>8, <2>1
    <2>3. saga[k].step = StepOf(jobs[c].goal, jobs[c].step)
          /\ saga[k].step \in CommittedSteps \cup FinalSteps
      BY <1>1, <1>2, <2>1, <2>2 DEF ChildAgrees, LaunchAgrees, RowAgrees
    <2>4. jobs[c].step \in LateSteps
      BY <2>2, <2>3, <1>1, <1>2, LaunchKnown
      DEF StepOf, CommittedSteps, FinalSteps, LateSteps, LaunchJobs, LaunchSteps
    <2>5. row[c] = c /\ c \notin overdue /\ <<"pane", c>> \notin workers
          /\ \A i \in LaunchKeys : saga[i].child = c => i = c
      BY <1>1, <1>2, <2>2, <2>4 DEF ChildAgrees, LaunchAgrees, WorkerAgrees, LateSteps
    <2>6. pane'[c] = "none"
      BY <1>9, <2>2, <2>4
    <2> QED BY <1>3, <1>4, <1>6, <1>7, <1>10, <2>1, <2>2, <2>5, <2>6 DEF Busy, Idle, FinalSteps
  <1>13. RowAgrees(c)'
    <2>1. row[c] # NoKey => saga'[row[c]].child = c
                            /\ saga'[row[c]].step \in CommittedSteps \cup FinalSteps
                            /\ saga'[c].step \in CommittedSteps \cup FinalSteps
      <3>1. \A i \in LaunchKeys : saga'[i].step = saga[i].step \/ saga'[i].step \in FinalSteps
        BY <1>3, <1>10 DEF FinalSteps
      <3>2. c \in LaunchKeys /\ (row[c] # NoKey => row[c] \in LaunchKeys)
        BY <1>2, KeySets DEF TypeOK
      <3> QED BY <1>2, <1>10, <3>1, <3>2 DEF ChildAgrees, RowAgrees
    <2>2. row[c] = NoKey => \A i \in LaunchKeys : saga'[i].child = c => saga'[i].step \notin CommittedSteps
      BY <1>2, <1>3, <1>10 DEF ChildAgrees, RowAgrees, CommittedSteps
    <2> QED BY <1>1, <1>2, <1>4, <1>6, <1>7, <2>1, <2>2 DEF ChildAgrees, RowAgrees
  <1>14. ChildAgrees(c)'
    <2>1. LaunchAgrees(c)' /\ WorkerAgrees(c)' /\ QuiesceAgrees(c)'
      BY <1>6, NextJobAgrees
    <2>2. RunnersAgree(c)' /\ VerdictAgrees(c)' /\ OutboxAgrees(c)'
      BY <1>1, <1>2, <1>4, <1>6, <1>11
      DEF RunnersAgree, VerdictAgrees, OutboxAgrees, NoneRuns, ChildAgrees
    <2> QED BY <1>12, <1>13, <2>1, <2>2 DEF ChildAgrees
  <1>15. \A d \in Children : d # c => SameChild(d)
    BY <1>1, <1>6, <1>7, <1>8 DEF SameChild
  <1>16. \A i \in LaunchKeys : SameLaunch(i) \/ LaunchOf(i, c)
    <2>1. LaunchOf(k, c)
      BY <1>1, <1>3, LaunchOfJob
    <2>2. ASSUME NEW i \in LaunchKeys, i # k
          PROVE  SameLaunch(i)
      BY <1>1, <1>9, <1>10, <2>2 DEF SameLaunch
    <2> QED BY <2>1, <2>2
  <1>17. RunnersAreLaunched'
    <2>1. ASSUME NEW i \in LaunchKeys, pane'[i] = "running"
          PROVE  pane[i] = "running"
      BY <1>9, <2>1
    <2> QED BY <1>1, <1>3, <1>10, <2>1 DEF AgentInv, RunnersAreLaunched
  <1>18. \A i \in LaunchKeys : SagaAgrees(i)'
    <2>1. jobs[c].res = "err_owned" => jobs[c].goal = "create"
      BY <1>1, <1>2 DEF ChildAgrees, LaunchAgrees
    <2>2. saga'[k].claimed => saga[k].claimed \/ k \in CreateKeys
      BY <1>2, <1>3, <2>1, KeySets
    <2>3. SagaGoesOn(k)
      BY <1>2, <1>3, <2>2 DEF SagaGoesOn, Wrote
    <2>4. \A i \in LaunchKeys : saga'[i] = saga[i] \/ SagaGoesOn(i)
      BY <1>10, <2>3
    <2> QED BY <1>1, <1>6, <2>4, SagasAgree
  <1> QED BY <1>1, <1>14, <1>15, <1>16, <1>17, <1>18, AgentsKept

-----------------------------------------------------------------------------
(* The quiesce *)

\* A step about child c that starts nothing: no row is written, no worker sent.
StartsNothing(c) ==
    /\ phase' = phase /\ saga' = saga /\ workers' = workers
    /\ \A k \in LaunchKeys : pane'[k] \in {pane[k], "none"}
    /\ \A d \in Children : said[d] \subseteq said'[d]
    /\ \A k \in Keys : journal[k] # "none" => journal'[k] # "none"
    /\ \A d \in Children : d # c => SameChild(d)

LEMMA NothingStarted ==
    ASSUME AgentInv, TypeOK', NoTrace', NEW c \in Children, StartsNothing(c), ChildAgrees(c)'
    PROVE  AgentInv'
  <1>1. \A k \in LaunchKeys : SameLaunch(k)
    BY DEF StartsNothing, SameLaunch
  <1>2. \A k \in LaunchKeys : SagaAgrees(k)'
    BY SagasAgree DEF StartsNothing
  <1>3. RunnersAreLaunched'
    BY DEF StartsNothing, AgentInv, RunnersAreLaunched
  <1>4. phase' = phase /\ \A d \in Children : d # c => SameChild(d)
    BY DEF StartsNothing
  <1> QED BY <1>1, <1>2, <1>3, <1>4, AgentsKept

\* The child's row stays, and so does its worktree.
LEMMA StaysOwned ==
    ASSUME AgentInv, NEW c \in Children, StartsNothing(c), row[c] # NoKey, wt[c] # "absent",
           row'[c] = row[c], cstate'[c] # "none", wt'[c] # "absent"
    PROVE  RowAgrees(c)' /\ LostIsOver(c)'
  BY DEF AgentInv, ChildAgrees, RowAgrees, LostIsOver, StartsNothing

LEMMA QuiesceKnown ==
    ASSUME AgentInv, NEW c \in Children, Quiescing(c) \/ jobs[c].step \in QuiesceSteps
    PROVE  /\ Quiescing(c) /\ jobs[c] \in QuiesceJobs /\ jobs[c].step # "none"
           /\ ~Launching(c) /\ Busy(c) /\ row[c] # NoKey /\ wt[c] # "absent"
           /\ cstate[c] \notin {"none", "done", "stopped"}
           /\ ChildAgrees(c) /\ TypeOK
  <1>1. TypeOK /\ ChildAgrees(c)
    BY DEF AgentInv
  <1>2. jobs[c] \in QuiesceJobs
    BY <1>1, JobKinds
  <1>3. Quiescing(c) /\ jobs[c].step # "none" /\ ~Launching(c) /\ Busy(c)
    BY <1>2 DEF QuiesceJobs, QuiesceSteps, Quiescing, Launching, Busy
  <1> QED BY <1>1, <1>2, <1>3 DEF ChildAgrees, QuiesceAgrees, LostIsOver, RowAgrees, VerdictAgrees

\* The step before the pane is stopped: `finishing', and nothing verified.
LEMMA AckedKeeps ==
    ASSUME AgentInv, TypeOK', NoTrace', NEW c \in Children, GraceExpires(c) \/ EndGrace(c)
    PROVE  AgentInv'
  <1>1. /\ jobs[c].step = "grace" /\ Move(c, "acked")
        /\ cstate' = [cstate EXCEPT ![c] = "finishing"]
        /\ outbox' = outbox \/ outbox' = [outbox EXCEPT ![c] = "empty"]
        /\ overdue' = overdue \/ overdue' = overdue \ {c}
        /\ UNCHANGED <<phase, entry, workers, journal, saga, row, result, pane, wt, said>>
    BY DEF GraceExpires, EndGrace, TakeResult, At, hostVars
  <1>2. /\ Quiescing(c) /\ jobs[c].step # "none" /\ row[c] # NoKey /\ wt[c] # "absent"
        /\ ChildAgrees(c) /\ TypeOK
    BY <1>1, QuiesceKnown DEF QuiesceSteps
  <1>3. /\ jobs'[c].goal = jobs[c].goal /\ jobs'[c].step = "acked"
        /\ jobs'[c].clean = jobs[c].clean /\ jobs'[c].outcome = jobs[c].outcome
        /\ \A d \in Children : d # c => jobs'[d] = jobs[d]
    BY <1>1, <1>2, MoveDoes
  <1>4. /\ cstate'[c] = "finishing" /\ outbox'[c] \in {outbox[c], "empty"}
        /\ \A d \in Children : d # c => cstate'[d] = cstate[d] /\ outbox'[d] = outbox[d]
    BY <1>1, <1>2 DEF TypeOK
  <1>5. StartsNothing(c)
    BY <1>1, <1>3, <1>4 DEF StartsNothing, SameChild
  <1>6. StopsFirst(jobs[c], c)' /\ row'[c] # NoKey /\ phase' # "down"
    BY <1>1, <1>2, <1>3 DEF StopsFirst, ChildAgrees, QuiesceAgrees, Quiescing
  <1>7. LaunchAgrees(c)' /\ WorkerAgrees(c)' /\ QuiesceAgrees(c)'
    BY <1>6, NextJobAgrees
  <1>8. RowAgrees(c)' /\ LostIsOver(c)'
    BY <1>1, <1>2, <1>4, <1>5, StaysOwned
  <1>9. RunnersAgree(c)' /\ VerdictAgrees(c)' /\ OutboxAgrees(c)'
    BY <1>1, <1>2, <1>4 DEF ChildAgrees, RunnersAgree, VerdictAgrees, OutboxAgrees
  <1> QED BY <1>5, <1>7, <1>8, <1>9, NothingStarted DEF ChildAgrees

\* Nothing runs for a child without a live entry, or whose recorded pane is gone.
LEMMA StopPaneKeeps ==
    ASSUME AgentInv, TypeOK', NoTrace', NEW c \in Children, StopPane(c)
    PROVE  AgentInv'
  <1>1. /\ jobs[c].step = "acked" /\ phase = "serving" /\ Move(c, "verify_running")
        /\ \/ entry[c] = "none" /\ pane' = pane
           \/ Revalidates(c) /\ Kill(row[c])
        /\ UNCHANGED <<phase, entry, workers, overdue, journal, saga, cstate, row, result,
                       wt, outbox, said>>
    BY DEF StopPane, At, storeVars
  <1>2. /\ Quiescing(c) /\ jobs[c].step # "none" /\ row[c] # NoKey /\ wt[c] # "absent"
        /\ cstate[c] \notin {"none", "done", "stopped"} /\ ChildAgrees(c) /\ TypeOK
        /\ row[c] \in LaunchKeys
    BY <1>1, QuiesceKnown DEF QuiesceSteps, TypeOK
  <1>3. /\ jobs'[c].goal = jobs[c].goal /\ jobs'[c].step = "verify_running"
        /\ jobs'[c].res = "none"
        /\ jobs'[c].clean = jobs[c].clean /\ jobs'[c].outcome = jobs[c].outcome
        /\ \A d \in Children : d # c => jobs'[d] = jobs[d]
    BY <1>1, <1>2, MoveDoes
  <1>4. /\ \A k \in LaunchKeys : pane'[k] \in {pane[k], "none"}
        /\ entry[c] = "none" \/ pane'[row[c]] = "none"
    BY <1>1, <1>2 DEF TypeOK, Kill
  <1>5. StartsNothing(c)
    BY <1>1, <1>3, <1>4 DEF StartsNothing, SameChild
  <1>6. NoneRuns(c)'
    BY <1>1, <1>2, <1>4 DEF ChildAgrees, RunnersAgree, NoneRuns
  <1>7. LaunchAgrees(c)' /\ WorkerAgrees(c)' /\ QuiesceAgrees(c)'
    BY <1>1, <1>2, <1>3, <1>6
    DEF LaunchAgrees, WorkerAgrees, QuiesceAgrees, ChildAgrees, Launching, Quiescing
  <1>8. RowAgrees(c)' /\ LostIsOver(c)'
    BY <1>1, <1>2, <1>5, StaysOwned
  <1>9. RunnersAgree(c)' /\ VerdictAgrees(c)' /\ OutboxAgrees(c)'
    BY <1>1, <1>2, <1>6 DEF ChildAgrees, RunnersAgree, VerdictAgrees, OutboxAgrees, NoneRuns
  <1> QED BY <1>5, <1>7, <1>8, <1>9, NothingStarted DEF ChildAgrees

LEMMA QuiesceGivesUp ==
    ASSUME AgentInv, TypeOK', NoTrace', NEW c \in Children,
           StopFails(c) \/ DecideUnrecorded(c) \/ QuiesceLost(c)
    PROVE  AgentInv'
  <1>1. /\ jobs[c].step \in QuiesceSteps /\ EndQuiesce(c, "refused")
        /\ cstate' = cstate \/ cstate' = [cstate EXCEPT ![c] = "stop_failed"]
        /\ result' = result \/ result' = [result EXCEPT ![c] = Verdict(c)]
        /\ UNCHANGED <<phase, entry, workers, overdue, saga, row, pane, wt, outbox, said>>
    BY DEF StopFails, DecideUnrecorded, QuiesceLost, At, QuiesceSteps, hostVars
  <1>2. /\ row[c] # NoKey /\ wt[c] # "absent"
        /\ cstate[c] \notin {"none", "done", "stopped"} /\ ChildAgrees(c) /\ TypeOK
    BY <1>1, QuiesceKnown
  <1>3. /\ jobs'[c] = Idle /\ \A d \in Children : d # c => jobs'[d] = jobs[d]
        /\ \A k \in Keys : journal[k] # "none" => journal'[k] # "none"
    BY <1>1, <1>2, EndQuiesceDoes
  <1>4. /\ cstate'[c] \notin {"none", "done", "stopped"}
        /\ \A d \in Children : d # c => cstate'[d] = cstate[d] /\ result'[d] = result[d]
    BY <1>1, <1>2 DEF TypeOK
  <1>5. StartsNothing(c)
    BY <1>1, <1>3, <1>4 DEF StartsNothing, SameChild
  <1>6. LaunchAgrees(c)' /\ WorkerAgrees(c)' /\ QuiesceAgrees(c)'
    BY <1>3, NextJobAgrees
  <1>7. RowAgrees(c)' /\ LostIsOver(c)'
    BY <1>1, <1>2, <1>4, <1>5, StaysOwned
  <1>8. RunnersAgree(c)' /\ VerdictAgrees(c)' /\ OutboxAgrees(c)'
    BY <1>1, <1>2, <1>4 DEF ChildAgrees, RunnersAgree, VerdictAgrees, OutboxAgrees
  <1> QED BY <1>5, <1>6, <1>7, <1>8, NothingStarted DEF ChildAgrees

LEMMA VerifyKeeps ==
    ASSUME AgentInv, TypeOK', NoTrace', NEW c \in Children, VerifyWorktree(c)
    PROVE  AgentInv'
  <1> DEFINE r == IF wt[c] = "clean" THEN "clean" ELSE "dirty"
  <1>1. /\ jobs[c].step = "verify_running" /\ jobs' = [jobs EXCEPT ![c].res = r]
        /\ UNCHANGED <<phase, entry, workers, overdue, journal, saga, cstate, row, result,
                       pane, wt, outbox, said>>
    BY DEF VerifyWorktree, At, storeVars, hostVars
  <1>2. /\ Quiescing(c) /\ jobs[c] \in QuiesceJobs /\ row[c] # NoKey /\ wt[c] # "absent"
        /\ cstate[c] \notin {"none", "done", "stopped"} /\ ChildAgrees(c) /\ TypeOK
    BY <1>1, QuiesceKnown DEF QuiesceSteps
  <1>3. jobs'[c] = [jobs[c] EXCEPT !.res = r] /\ \A d \in Children : d # c => jobs'[d] = jobs[d]
    BY <1>1, <1>2 DEF TypeOK
  <1> HIDE DEF r
  <1>4. /\ jobs'[c].goal = jobs[c].goal /\ jobs'[c].step = "verify_running"
        /\ jobs'[c].res = r
        /\ jobs'[c].clean = jobs[c].clean /\ jobs'[c].outcome = jobs[c].outcome
    <2> DEFINE h == [jobs[c] EXCEPT !.res = r]
    <2>1. /\ h.goal = jobs[c].goal /\ h.step = jobs[c].step /\ h.res = r
          /\ h.clean = jobs[c].clean /\ h.outcome = jobs[c].outcome
      BY <1>2, JobWrites
    <2>2. jobs'[c] = h
      BY <1>3
    <2> HIDE DEF h
    <2> QED BY <1>1, <2>1, <2>2
  <1>5. StartsNothing(c)
    BY <1>1, <1>3 DEF StartsNothing, SameChild
  <1>6. NoneRuns(c)' /\ (r = "clean" => wt'[c] = "clean")
    BY <1>1, <1>2 DEF ChildAgrees, QuiesceAgrees, NoneRuns, r
  <1>7. LaunchAgrees(c)' /\ WorkerAgrees(c)' /\ QuiesceAgrees(c)'
    BY <1>1, <1>2, <1>4, <1>6
    DEF LaunchAgrees, WorkerAgrees, QuiesceAgrees, ChildAgrees, Launching, Quiescing
  <1>8. RowAgrees(c)' /\ LostIsOver(c)'
    BY <1>1, <1>2, <1>5, StaysOwned
  <1>9. RunnersAgree(c)' /\ VerdictAgrees(c)' /\ OutboxAgrees(c)'
    BY <1>1, <1>2 DEF ChildAgrees, RunnersAgree, VerdictAgrees, OutboxAgrees
  <1> QED BY <1>5, <1>7, <1>8, <1>9, NothingStarted DEF ChildAgrees

LEMMA DecideKeeps ==
    ASSUME AgentInv, TypeOK', NoTrace', NEW c \in Children, DecideOutcome(c)
    PROVE  AgentInv'
  <1> DEFINE s == IF Verdict(c).dirty THEN "dirty" ELSE jobs[c].clean
  <1>1. /\ jobs[c].step = "verify_running" /\ jobs[c].res # "none" /\ EndQuiesce(c, "ok")
        /\ result' = [result EXCEPT ![c] = Verdict(c)]
        /\ cstate' = [cstate EXCEPT ![c] = s]
        /\ entry' = [entry EXCEPT ![c] = IF s \in TerminalStates THEN "none" ELSE @]
        /\ UNCHANGED <<phase, workers, overdue, saga, row, pane, wt, outbox, said>>
    BY DEF DecideOutcome, At, hostVars
  <1>2. /\ Quiescing(c) /\ jobs[c] \in QuiesceJobs /\ row[c] # NoKey /\ wt[c] # "absent"
        /\ ChildAgrees(c) /\ TypeOK
    BY <1>1, QuiesceKnown DEF QuiesceSteps
  <1>3. /\ jobs'[c] = Idle /\ \A d \in Children : d # c => jobs'[d] = jobs[d]
        /\ \A k \in Keys : journal[k] # "none" => journal'[k] # "none"
    BY <1>1, <1>2, EndQuiesceDoes
  <1>4. s \in TerminalStates \cup {"dirty"}
    BY <1>2, QuiesceFields
  <1>5. s \in {"done", "stopped"} =>
            /\ Verdict(c).dirty = FALSE /\ jobs[c].res = "clean" /\ s = jobs[c].clean
            /\ Verdict(c).outcome = jobs[c].outcome
    BY <1>1, <1>2 DEF Verdict, QuiesceJobs
  <1> HIDE DEF s
  <1>6. /\ cstate'[c] = s /\ result'[c] = Verdict(c) /\ entry'[c] \in {entry[c], "none"}
        /\ \A d \in Children : d # c =>
              cstate'[d] = cstate[d] /\ result'[d] = result[d] /\ entry'[d] = entry[d]
    BY <1>1, <1>2 DEF TypeOK
  <1>7. StartsNothing(c)
    BY <1>1, <1>3, <1>6 DEF StartsNothing, SameChild
  <1>8. NoneRuns(c) /\ NoneRuns(c)'
    BY <1>1, <1>2 DEF ChildAgrees, QuiesceAgrees, NoneRuns
  <1>9. LaunchAgrees(c)' /\ WorkerAgrees(c)' /\ QuiesceAgrees(c)'
    BY <1>3, NextJobAgrees
  <1>10. RowAgrees(c)' /\ LostIsOver(c)'
    BY <1>1, <1>2, <1>4, <1>6, <1>7, StaysOwned DEF TerminalStates
  <1>11. VerdictAgrees(c)'
    BY <1>1, <1>2, <1>3, <1>5, <1>6, <1>8
    DEF ChildAgrees, QuiesceAgrees, VerdictAgrees, Busy, Idle
  <1>12. RunnersAgree(c)' /\ OutboxAgrees(c)'
    BY <1>1, <1>2, <1>8 DEF ChildAgrees, RunnersAgree, NoneRuns, OutboxAgrees
  <1> QED BY <1>7, <1>9, <1>10, <1>11, <1>12, NothingStarted DEF ChildAgrees

-----------------------------------------------------------------------------
(* The child's own result, and the nudges *)

\* A child the broker serves has its row, and its worktree.
LEMMA ServedKnown ==
    ASSUME AgentInv, NEW c \in Children, Served(c) \/ c \in overdue
    PROVE  /\ row[c] # NoKey /\ wt[c] # "absent" /\ cstate[c] # "none"
           /\ ChildAgrees(c) /\ TypeOK
  BY DEF AgentInv, ChildAgrees, RowAgrees, LostIsOver, Served

LEMMA TakeResultDoes ==
    ASSUME AgentInv, NEW c \in Children, TakeResult(c)
    PROVE  /\ phase = "serving" /\ Served(c)
           /\ outbox[c] \in Outcomes /\ outbox[c] \in said[c]
           /\ outbox'[c] = "empty" /\ (\A d \in Children : d # c => outbox'[d] = outbox[d])
           /\ overdue' \subseteq overdue
  BY DEF TakeResult, AgentInv, TypeOK, ChildAgrees, OutboxAgrees

LEMMA StartFinishKeeps ==
    ASSUME AgentInv, TypeOK', NoTrace', NEW c \in Children, StartFinish(c)
    PROVE  AgentInv'
  <1>1. /\ TakeResult(c) /\ ~Busy(c)
        /\ cstate' = [cstate EXCEPT ![c] = "finishing"]
        /\ jobs' = [jobs EXCEPT ![c] = FinishJob(outbox[c], {})]
        /\ UNCHANGED <<phase, entry, workers, journal, saga, row, result, pane, wt, said>>
    BY DEF StartFinish
  <1>2. /\ phase = "serving" /\ Served(c) /\ outbox[c] \in Outcomes /\ outbox[c] \in said[c]
        /\ outbox'[c] = "empty" /\ (\A d \in Children : d # c => outbox'[d] = outbox[d])
        /\ overdue' \subseteq overdue
    BY <1>1, TakeResultDoes
  <1>3. /\ row[c] # NoKey /\ wt[c] # "absent" /\ ChildAgrees(c) /\ TypeOK
    BY <1>2, ServedKnown
  <1>4. /\ cstate'[c] = "finishing" /\ jobs'[c] = FinishJob(outbox[c], {})
        /\ \A d \in Children : d # c => cstate'[d] = cstate[d] /\ jobs'[d] = jobs[d]
    BY <1>1, <1>3 DEF TypeOK
  <1>5. StartsNothing(c)
    BY <1>1, <1>2, <1>4 DEF StartsNothing, SameChild
  <1>6. StopsFirst(FinishJob(outbox[c], {}), c)
    BY <1>2, FinishStopsFirst
  <1>7. StopsFirst(jobs[c], c)' /\ row'[c] # NoKey /\ phase' # "down"
    BY <1>1, <1>2, <1>3, <1>4, <1>6 DEF StopsFirst
  <1>8. LaunchAgrees(c)' /\ WorkerAgrees(c)' /\ QuiesceAgrees(c)'
    BY <1>7, NextJobAgrees
  <1>9. RowAgrees(c)' /\ LostIsOver(c)'
    BY <1>1, <1>3, <1>4, <1>5, StaysOwned
  <1>10. RunnersAgree(c)' /\ VerdictAgrees(c)' /\ OutboxAgrees(c)'
    BY <1>1, <1>2, <1>3, <1>4 DEF ChildAgrees, RunnersAgree, VerdictAgrees, OutboxAgrees
  <1> QED BY <1>5, <1>8, <1>9, <1>10, NothingStarted DEF ChildAgrees

LEMMA HoldIntentKeeps ==
    ASSUME AgentInv, TypeOK', NoTrace', NEW c \in Children, HoldIntent(c)
    PROVE  AgentInv'
  <1> DEFINE k == jobs[c].key
             o == outbox[c]
             b == (jobs[c].stops = {})
  <1>1. /\ TakeResult(c) /\ Launching(c)
        /\ jobs' = [jobs EXCEPT ![c].intent = o, ![c].first = b]
        /\ saga' = [saga EXCEPT ![k].outcome = o, ![k].leased = TRUE]
    BY DEF HoldIntent
  <1>0. UNCHANGED <<phase, entry, workers, journal, cstate, row, result, pane, wt, said>>
    BY DEF HoldIntent
  <1>2. /\ phase = "serving" /\ Served(c) /\ o \in Outcomes /\ o \in said[c]
        /\ outbox'[c] = "empty" /\ (\A d \in Children : d # c => outbox'[d] = outbox[d])
        /\ overdue' \subseteq overdue
    BY <1>1, TakeResultDoes
  <1>3. /\ k \in LaunchKeys /\ Busy(c) /\ ~Quiescing(c) /\ jobs[c] \in LaunchJobs
        /\ saga[k].child = c /\ saga[k].step # "none"
        /\ jobs[c].goal = "create" => k = c
        /\ ChildAgrees(c) /\ TypeOK
    BY <1>1, LaunchKnown DEF AgentInv
  <1>4. row[c] # NoKey /\ wt[c] # "absent" /\ cstate[c] # "none"
    BY <1>2, ServedKnown
  <1>5. Wrote(k) /\ saga'[k].step = saga[k].step /\ saga'[k].claimed = saga[k].claimed
        /\ saga'[k].outcome = o
    BY <1>1, <1>3, HoldWrites
  <1>6. /\ jobs'[c].goal = jobs[c].goal /\ jobs'[c].step = jobs[c].step /\ jobs'[c].key = k
        /\ jobs'[c].res = jobs[c].res /\ jobs'[c].intent = o
        /\ \A d \in Children : d # c => jobs'[d] = jobs[d]
    <2> DEFINE h == [jobs[c] EXCEPT !.intent = o, !.first = b]
    <2>1. /\ jobs'[c] = h /\ \A d \in Children : d # c => jobs'[d] = jobs[d]
      BY <1>1, <1>3 DEF TypeOK
    <2>2. /\ h.goal = jobs[c].goal /\ h.step = jobs[c].step /\ h.key = k
          /\ h.res = jobs[c].res /\ h.intent = o
      BY <1>3, JobWrites
    <2> HIDE DEF h
    <2> QED BY <2>1, <2>2
  <1>15. Launching(c)
    BY <1>1
  <1>7. \A i \in LaunchKeys : /\ saga'[i].child = saga[i].child
                              /\ saga'[i].step = saga[i].step
                              /\ i # k => saga'[i] = saga[i]
    BY <1>5 DEF Wrote
  <1>8. Launching(c)' /\ Busy(c)' /\ ~Quiescing(c)'
    BY <1>1, <1>3, <1>6 DEF Launching, Busy, Quiescing
  <1>9. NoneRuns(c) => NoneRuns(c)'
    BY <1>0, <1>7 DEF NoneRuns
  <1>10. ChildAgrees(c)'
    <2>1. LaunchAgrees(c)'
      BY <1>0, <1>15, <1>2, <1>3, <1>6, <1>7, <1>8, <1>9 DEF ChildAgrees, LaunchAgrees
    <2>2. WorkerAgrees(c)' /\ QuiesceAgrees(c)'
      BY <1>0, <1>15, <1>3, <1>6, <1>8 DEF ChildAgrees, WorkerAgrees, QuiesceAgrees
    <2>3. RowAgrees(c)'
      BY <1>0, <1>2, <1>3, <1>4, <1>7, KeySets DEF ChildAgrees, RowAgrees, TypeOK
    <2>4. LostIsOver(c)' /\ RunnersAgree(c)' /\ VerdictAgrees(c)' /\ OutboxAgrees(c)'
      BY <1>0, <1>2, <1>3, <1>4, <1>7
      DEF ChildAgrees, LostIsOver, RunnersAgree, VerdictAgrees, OutboxAgrees
    <2> QED BY <2>1, <2>2, <2>3, <2>4 DEF ChildAgrees
  <1>11. \A d \in Children : d # c => SameChild(d)
    BY <1>0, <1>2, <1>6 DEF SameChild
  <1>12. \A i \in LaunchKeys : SameLaunch(i)
    BY <1>0, <1>7 DEF SameLaunch
  <1>13. RunnersAreLaunched'
    BY <1>0, <1>7 DEF AgentInv, RunnersAreLaunched
  <1>14. \A i \in LaunchKeys : SagaAgrees(i)'
    <2>1. SagaGoesOn(k)
      BY <1>0, <1>2, <1>3, <1>5 DEF SagaGoesOn, Wrote
    <2>2. \A i \in LaunchKeys : saga'[i] = saga[i] \/ SagaGoesOn(i)
      BY <1>7, <2>1
    <2> QED BY <1>0, <2>2, SagasAgree
  <1> QED BY <1>0, <1>10, <1>11, <1>12, <1>13, <1>14, AgentsKept

\* A step that leaves every child and every launch alone.
LEMMA NobodysStep ==
    ASSUME AgentInv, TypeOK', NoTrace', phase' = phase,
           \A d \in Children : SameChild(d), \A k \in LaunchKeys : SameLaunch(k),
           \A k \in LaunchKeys :
              /\ saga'[k].claimed = saga[k].claimed /\ saga'[k].outcome = saga[k].outcome
              /\ pane'[k] = "running" => pane[k] = "running"
              /\ <<"pane", k>> \in workers' => <<"pane", k>> \in workers,
           \A k \in Keys : journal[k] # "none" => journal'[k] # "none"
    PROVE  AgentInv'
  <1>1. \A d \in Children : ChildAgrees(d)'
    BY UntouchedKeeps DEF AgentInv
  <1>2. ASSUME NEW k \in LaunchKeys
        PROVE  SagaAgrees(k)'
    <2>1. /\ saga'[k].child = saga[k].child /\ saga'[k].step = saga[k].step
          /\ saga'[k].claimed = saga[k].claimed /\ saga'[k].outcome = saga[k].outcome
      BY DEF SameLaunch
    <2>2. saga[k].child \in Children => said'[saga[k].child] = said[saga[k].child]
      BY DEF SameChild
    <2>3. SagaAgrees(k) /\ k \in Keys
      BY KeySets DEF AgentInv
    <2> QED BY <2>1, <2>2, <2>3 DEF SagaAgrees
  <1>3. RunnersAreLaunched'
    BY DEF AgentInv, RunnersAreLaunched, SameLaunch
  <1> QED BY <1>1, <1>2, <1>3 DEF AgentInv

LEMMA DropResultKeeps ==
    ASSUME AgentInv, TypeOK', NoTrace', NEW c \in Children, DropResult(c)
    PROVE  AgentInv'
  <1>1. /\ TakeResult(c)
        /\ UNCHANGED <<phase, entry, jobs, workers, journal, saga, cstate, row, result,
                       pane, wt, said>>
    BY DEF DropResult, storeVars
  <1>2. /\ Served(c)
        /\ outbox'[c] = "empty" /\ (\A d \in Children : d # c => outbox'[d] = outbox[d])
        /\ overdue' \subseteq overdue
    BY <1>1, TakeResultDoes
  <1>3. row[c] # NoKey /\ wt[c] # "absent" /\ cstate[c] # "none" /\ ChildAgrees(c) /\ TypeOK
    BY <1>2, ServedKnown
  <1>4. StartsNothing(c)
    BY <1>1, <1>2 DEF StartsNothing, SameChild
  <1>5. LaunchAgrees(c)' /\ WorkerAgrees(c)' /\ QuiesceAgrees(c)' /\ RunnersAgree(c)'
        /\ VerdictAgrees(c)' /\ OutboxAgrees(c)'
    BY <1>1, <1>2, <1>3
    DEF ChildAgrees, LaunchAgrees, WorkerAgrees, QuiesceAgrees, RunnersAgree, VerdictAgrees,
        OutboxAgrees, Launching, Quiescing, Busy, NoneRuns
  <1>6. RowAgrees(c)' /\ LostIsOver(c)'
    BY <1>1, <1>3, <1>4, StaysOwned
  <1> QED BY <1>4, <1>5, <1>6, NothingStarted DEF ChildAgrees

LEMMA NudgeKeeps ==
    ASSUME AgentInv, TypeOK', NoTrace', NEW c \in Children, Nudge(c)
    PROVE  AgentInv'
  <1>1. /\ UNCHANGED <<phase, entry, jobs, workers, journal, saga, row, result, pane, wt,
                       outbox, said>>
        /\ \/ cstate' = cstate /\ overdue' = overdue \cup {c} /\ Revalidates(c)
              /\ jobs[c].goal # "create"
           \/ cstate' = [cstate EXCEPT ![c] = "stalled"] /\ overdue' = overdue \ {c} /\ c \in overdue
    BY DEF Nudge, NudgesUnanswered, ReportStalled, storeVars, hostVars
  <1>2. Served(c) \/ c \in overdue
    BY <1>1 DEF Revalidates, Served
  <1>3. row[c] # NoKey /\ wt[c] # "absent" /\ cstate[c] # "none" /\ ChildAgrees(c) /\ TypeOK
    BY <1>2, ServedKnown
  <1>4. /\ cstate'[c] \in {cstate[c], "stalled"}
        /\ \A d \in Children : d # c => cstate'[d] = cstate[d] /\ (d \in overdue' => d \in overdue)
    BY <1>1, <1>3 DEF TypeOK
  <1>5. StartsNothing(c)
    BY <1>1, <1>4 DEF StartsNothing, SameChild
  <1>6. jobs[c].goal = "create" => (c \in overdue' => c \in overdue)
    BY <1>1
  <1>7. LaunchAgrees(c)' /\ WorkerAgrees(c)' /\ QuiesceAgrees(c)' /\ RunnersAgree(c)'
        /\ VerdictAgrees(c)' /\ OutboxAgrees(c)'
    BY <1>1, <1>3, <1>4, <1>6
    DEF ChildAgrees, LaunchAgrees, WorkerAgrees, QuiesceAgrees, RunnersAgree, VerdictAgrees,
        OutboxAgrees, Launching, Quiescing, Busy, NoneRuns
  <1>8. RowAgrees(c)' /\ LostIsOver(c)'
    BY <1>1, <1>3, <1>4, <1>5, StaysOwned
  <1> QED BY <1>5, <1>7, <1>8, NothingStarted DEF ChildAgrees

-----------------------------------------------------------------------------
(* Owner requests *)

LEMMA AnsweredKeeps ==
    ASSUME AgentInv, TypeOK', NoTrace', NEW k \in Keys,
           RefuseRequest(k) \/ \E c \in Children : StopAnswered(k, c)
    PROVE  AgentInv'
  <1>1. UNCHANGED <<phase, entry, jobs, workers, overdue, saga, cstate, row, result,
                    pane, wt, outbox, said>>
    BY DEF RefuseRequest, StopAnswered, processVars, hostVars
  <1>2. \A i \in Keys : journal[i] # "none" => journal'[i] # "none"
    BY DEF RefuseRequest, StopAnswered, AgentInv, TypeOK
  <1>3. \A d \in Children : SameChild(d)
    BY <1>1 DEF SameChild
  <1>4. \A i \in LaunchKeys : SameLaunch(i)
    BY <1>1 DEF SameLaunch
  <1> QED BY <1>1, <1>2, <1>3, <1>4, NobodysStep

LEMMA JoinKeeps ==
    ASSUME AgentInv, TypeOK', NoTrace', NEW c \in Children, NEW k \in Keys,
           StopJoins(k, c) \/ ResumeJoins(k, c)
    PROVE  AgentInv'
  <1>1. UNCHANGED <<phase, entry, workers, overdue, saga, cstate, row, result,
                    pane, wt, outbox, said>>
    BY DEF StopJoins, ResumeJoins, hostVars
  <1>2. /\ Busy(c) /\ TypeOK /\ ChildAgrees(c)
        /\ \/ jobs' = [jobs EXCEPT ![c].keys = @ \cup {k}]
           \/ jobs' = [jobs EXCEPT ![c].stops = @ \cup {k}]
    BY DEF StopJoins, ResumeJoins, Busy, Quiescing, Launching, AgentInv
  <1>3. \A i \in Keys : journal[i] # "none" => journal'[i] # "none"
    BY <1>2 DEF StopJoins, ResumeJoins, Accept, TypeOK
  <1>4. /\ jobs'[c].goal = jobs[c].goal /\ jobs'[c].step = jobs[c].step
        /\ jobs'[c].key = jobs[c].key
        /\ jobs'[c].res = jobs[c].res /\ jobs'[c].intent = jobs[c].intent
        /\ jobs'[c].clean = jobs[c].clean /\ jobs'[c].outcome = jobs[c].outcome
        /\ \A d \in Children : d # c => jobs'[d] = jobs[d]
        /\ Launching(c)' = Launching(c) /\ Quiescing(c)' = Quiescing(c) /\ Busy(c)' = Busy(c)
    BY <1>2, JoinDoes
  <1>5. StartsNothing(c)
    BY <1>1, <1>3, <1>4 DEF StartsNothing, SameChild
  <1>6. /\ Launching(c)' = Launching(c) /\ Quiescing(c)' = Quiescing(c) /\ Busy(c)' = Busy(c)
         /\ NoneRuns(c)' = NoneRuns(c)
    BY <1>1, <1>4 DEF NoneRuns
  <1>7. ChildAgrees(c)'
    <2>1. LaunchAgrees(c)' /\ WorkerAgrees(c)' /\ QuiesceAgrees(c)'
      BY <1>1, <1>2, <1>4, <1>6 DEF ChildAgrees, LaunchAgrees, WorkerAgrees, QuiesceAgrees
    <2>2. RowAgrees(c)' /\ LostIsOver(c)' /\ RunnersAgree(c)' /\ VerdictAgrees(c)' /\ OutboxAgrees(c)'
      BY <1>1, <1>2, <1>6
      DEF ChildAgrees, RowAgrees, LostIsOver, RunnersAgree, VerdictAgrees, OutboxAgrees
    <2> QED BY <2>1, <2>2 DEF ChildAgrees
  <1> QED BY <1>5, <1>7, NothingStarted

LEMMA BeginStopKeeps ==
    ASSUME AgentInv, TypeOK', NoTrace', NEW c \in Children, NEW k \in StopKeys, BeginStop(k, c)
    PROVE  AgentInv'
  <1>1. /\ phase = "serving" /\ cstate[c] \notin TerminalStates \cup {"none"}
        /\ jobs' = [jobs EXCEPT ![c] = StopJob({k})]
        /\ journal' = [journal EXCEPT ![k] = "accepted"]
        /\ UNCHANGED <<phase, entry, workers, overdue, saga, cstate, row, result,
                       pane, wt, outbox, said>>
    BY DEF BeginStop, Fresh, Owned, Accept
  <1>2. TypeOK /\ ChildAgrees(c) /\ row[c] # NoKey /\ wt[c] # "absent"
    BY <1>1 DEF AgentInv, ChildAgrees, RowAgrees, LostIsOver, TerminalStates
  <1>3. /\ jobs'[c] = StopJob({k}) /\ \A d \in Children : d # c => jobs'[d] = jobs[d]
        /\ \A i \in Keys : journal[i] # "none" => journal'[i] # "none"
    BY <1>1, <1>2 DEF TypeOK
  <1>4. StartsNothing(c)
    BY <1>1, <1>3 DEF StartsNothing, SameChild
  <1>5. StopsFirst(StopJob({k}), c)
    BY StopStopsFirst
  <1>6. StopsFirst(jobs[c], c)' /\ row'[c] # NoKey /\ phase' # "down"
    BY <1>1, <1>2, <1>3, <1>5 DEF StopsFirst
  <1>7. LaunchAgrees(c)' /\ WorkerAgrees(c)' /\ QuiesceAgrees(c)'
    BY <1>6, NextJobAgrees
  <1>8. RowAgrees(c)' /\ LostIsOver(c)'
    BY <1>1, <1>2, <1>4, StaysOwned
  <1>9. RunnersAgree(c)' /\ VerdictAgrees(c)' /\ OutboxAgrees(c)'
    BY <1>1, <1>2 DEF ChildAgrees, RunnersAgree, VerdictAgrees, OutboxAgrees, TerminalStates
  <1> QED BY <1>4, <1>7, <1>8, <1>9, NothingStarted DEF ChildAgrees

\* A key of no launch yet is written into the table.
LEMMA FreshKey ==
    ASSUME AgentInv, NEW k \in LaunchKeys, journal[k] = "none"
    PROVE  /\ saga[k].step = "none" /\ saga[k].child = NoKey
           /\ pane[k] # "running" /\ <<"pane", k>> \notin workers
           /\ \A c \in Children : row[c] # k /\ saga[k].child # c
  <1>1. saga[k].step = "none" /\ saga[k].child = NoKey
    BY DEF AgentInv, SagaAgrees
  <1>2. NoKey \notin Children
    BY KeySets, KeysAssumption
  <1>3. \A c \in Children : row[c] = k => row[c] # NoKey
    BY KeySets, KeysAssumption
  <1>4. \A c \in Children : row[c] # k
    BY <1>1, <1>2, <1>3 DEF AgentInv, ChildAgrees, RowAgrees
  <1> QED BY <1>1, <1>2, <1>4 DEF AgentInv, RunnersAreLaunched

\* The rows, when a new one is written.
LEMMA NewSagaAgrees ==
    ASSUME AgentInv, NEW k \in LaunchKeys, NEW c \in Children, k \in CreateKeys => k = c,
           saga' = [saga EXCEPT ![k] = NewSaga(c)], said' = said,
           journal' = [journal EXCEPT ![k] = "accepted"]
    PROVE  \A i \in LaunchKeys : SagaAgrees(i)'
  <1>1. /\ saga'[k] = NewSaga(c) /\ \A i \in LaunchKeys : i # k => saga'[i] = saga[i]
        /\ \A i \in Keys : journal[i] # "none" => journal'[i] # "none"
        /\ journal'[k] # "none"
    BY KeySets DEF AgentInv, TypeOK
  <1>2. SagaAgrees(k)'
    <2>1. /\ saga'[k].step = "named" /\ saga'[k].child = c
          /\ ~saga'[k].claimed /\ saga'[k].outcome = "none"
      BY <1>1, NewSagaFields
    <2> QED BY <1>1, <2>1 DEF SagaAgrees
  <1>3. ASSUME NEW i \in LaunchKeys, i # k
        PROVE  SagaAgrees(i)'
    BY <1>1, <1>3, KeySets DEF AgentInv, SagaAgrees
  <1> QED BY <1>2, <1>3

LEMMA BeginCreateKeeps ==
    ASSUME AgentInv, TypeOK', NoTrace', NEW c \in Children, BeginCreate(c)
    PROVE  AgentInv'
  <1>1. /\ phase = "serving" /\ journal[c] = "none"
        /\ journal' = [journal EXCEPT ![c] = "accepted"]
        /\ saga' = [saga EXCEPT ![c] = NewSaga(c)]
        /\ jobs' = [jobs EXCEPT ![c] = LaunchJob("create", c)]
        /\ UNCHANGED <<phase, entry, workers, overdue, cstate, row, result,
                       pane, wt, outbox, said>>
    BY DEF BeginCreate, Fresh, Accept, hostVars
  <1>2. TypeOK /\ ChildAgrees(c) /\ c \in LaunchKeys /\ c \in CreateKeys
    BY KeySets DEF AgentInv
  <1>3. /\ entry[c] = "none" /\ cstate[c] = "none" /\ row[c] = NoKey /\ c \notin overdue
        /\ \A i \in LaunchKeys : saga[i].child # c
    BY <1>1 DEF AgentInv, NoTrace
  <1>4. /\ saga[c].step = "none" /\ saga[c].child = NoKey
        /\ pane[c] # "running" /\ <<"pane", c>> \notin workers
    BY <1>1, <1>2, FreshKey
  <1>5. /\ saga'[c].step = "named" /\ saga'[c].child = c
        /\ \A i \in LaunchKeys : i # c => saga'[i] = saga[i]
    BY <1>1, <1>2, NewSagaFields DEF TypeOK
  <1>6. /\ jobs'[c] = LaunchJob("create", c) /\ \A d \in Children : d # c => jobs'[d] = jobs[d]
    BY <1>1, <1>2 DEF TypeOK
  <1>7. /\ jobs'[c].goal = "create" /\ jobs'[c].step = "named" /\ jobs'[c].key = c
        /\ jobs'[c].intent = "none" /\ jobs'[c].res = "none"
    BY <1>6, NewLaunch
  <1>8. Launching(c)' /\ Busy(c)' /\ ~Quiescing(c)'
    BY <1>7 DEF Launching, Busy, Quiescing
  <1>9. \A i \in LaunchKeys : saga'[i].child = c => i = c
    BY <1>3, <1>5
  <1>10. NoneRuns(c)'
    BY <1>1, <1>4, <1>9 DEF NoneRuns
  <1>11. ChildAgrees(c)'
    <2>1. LaunchAgrees(c)'
      BY <1>1, <1>2, <1>3, <1>5, <1>7, <1>9, <1>10 DEF LaunchAgrees, StepOf, LateSteps
    <2>2. WorkerAgrees(c)' /\ QuiesceAgrees(c)'
      BY <1>1, <1>4, <1>7, <1>8 DEF WorkerAgrees, QuiesceAgrees
    <2>3. RowAgrees(c)' /\ LostIsOver(c)'
      BY <1>1, <1>3, <1>5, <1>9 DEF RowAgrees, LostIsOver, CommittedSteps
    <2>4. RunnersAgree(c)' /\ VerdictAgrees(c)' /\ OutboxAgrees(c)'
      BY <1>1, <1>2, <1>3, <1>10
      DEF ChildAgrees, RunnersAgree, VerdictAgrees, OutboxAgrees, NoneRuns
    <2> QED BY <2>1, <2>2, <2>3, <2>4 DEF ChildAgrees
  <1>12. \A d \in Children : d # c => SameChild(d)
    BY <1>1, <1>6 DEF SameChild
  <1>13. \A i \in LaunchKeys : SameLaunch(i) \/ LaunchOf(i, c)
    BY <1>1, <1>4, <1>5 DEF SameLaunch, LaunchOf
  <1>14. RunnersAreLaunched'
    BY <1>1, <1>5 DEF AgentInv, RunnersAreLaunched
  <1>15. \A i \in LaunchKeys : SagaAgrees(i)'
    BY <1>1, <1>2, NewSagaAgrees
  <1> QED BY <1>1, <1>11, <1>12, <1>13, <1>14, <1>15, AgentsKept

LEMMA BeginResumeKeeps ==
    ASSUME AgentInv, KillsWork, TypeOK', NoTrace', NEW c \in Children, NEW k \in ResumeKeys,
           BeginResume(k, c)
    PROVE  AgentInv'
  <1>1. /\ phase = "serving" /\ journal[k] = "none" /\ cstate[c] \in ResumableStates
        /\ RetireForResume(c)
        /\ journal' = [journal EXCEPT ![k] = "accepted"]
        /\ saga' = [saga EXCEPT ![k] = NewSaga(c)]
        /\ cstate' = [cstate EXCEPT ![c] = "starting"]
        /\ jobs' = [jobs EXCEPT ![c] = LaunchJob("resume", k)]
    BY DEF BeginResume, Fresh, Accept
  <1>0. UNCHANGED <<phase, workers, overdue, row, result, wt, outbox, said>>
    BY DEF BeginResume
  <1>2. TypeOK /\ ChildAgrees(c) /\ k \in LaunchKeys /\ k \notin CreateKeys
        /\ row[c] # NoKey /\ wt[c] # "absent"
    BY <1>1, KeySets, KeysAssumption
    DEF AgentInv, ChildAgrees, RowAgrees, LostIsOver, ResumableStates
  <1>3. row[c] \in LaunchKeys
    BY <1>2 DEF TypeOK
  <1>4. /\ saga[k].step = "none" /\ saga[k].child = NoKey
        /\ pane[k] # "running" /\ <<"pane", k>> \notin workers /\ row[c] # k /\ k # c
    BY <1>1, <1>2, FreshKey, KeySets
  <1>5. /\ saga'[k].step = "named" /\ saga'[k].child = c
        /\ \A i \in LaunchKeys : i # k => saga'[i] = saga[i]
    BY <1>1, <1>2, NewSagaFields DEF TypeOK
  <1>6. /\ jobs'[c] = LaunchJob("resume", k) /\ cstate'[c] = "starting" /\ entry'[c] = "none"
        /\ \A d \in Children : d # c =>
              jobs'[d] = jobs[d] /\ cstate'[d] = cstate[d] /\ entry'[d] = entry[d]
    BY <1>1, <1>2 DEF TypeOK, RetireForResume
  <1>7. /\ jobs'[c].goal = "resume" /\ jobs'[c].step = "named" /\ jobs'[c].key = k
        /\ jobs'[c].intent = "none" /\ jobs'[c].res = "none"
    BY <1>6, NewLaunch
  <1>8. Launching(c)' /\ Busy(c)' /\ ~Quiescing(c)'
    BY <1>7 DEF Launching, Busy, Quiescing
  <1>9. /\ \A i \in LaunchKeys : pane'[i] \in {pane[i], "none"}
        /\ Revalidates(c) => pane'[row[c]] = "none"
    BY <1>1, <1>2, <1>3 DEF RetireForResume, Kill, KillsWork, TypeOK
  <1>10. \A i \in LaunchKeys : saga[i].child = c => pane'[i] # "running"
    <2>1. SUFFICES ASSUME NEW i \in LaunchKeys, saga[i].child = c, pane'[i] = "running"
                   PROVE  FALSE
      OBVIOUS
    <2>2. pane[i] = "running"
      BY <1>9, <2>1
    <2>3. row[c] = i /\ entry[c] = "live"
      BY <1>1, <1>2, <2>1, <2>2 DEF ChildAgrees, RunnersAgree
    <2>4. Revalidates(c)
      BY <2>2, <2>3 DEF Revalidates
    <2> QED BY <1>9, <2>1, <2>3, <2>4
  <1>11. NoneRuns(c)'
    BY <1>4, <1>5, <1>9, <1>10 DEF NoneRuns
  <1>12. ChildAgrees(c)'
    <2>1. LaunchAgrees(c)'
      BY <1>0, <1>1, <1>2, <1>5, <1>7, <1>11 DEF LaunchAgrees, StepOf, LateSteps
    <2>2. WorkerAgrees(c)' /\ QuiesceAgrees(c)'
      BY <1>0, <1>4, <1>7, <1>8 DEF WorkerAgrees, QuiesceAgrees
    <2>3. RowAgrees(c)'
      BY <1>0, <1>2, <1>3, <1>4, <1>5, <1>6, KeySets DEF ChildAgrees, RowAgrees
    <2>4. LostIsOver(c)' /\ RunnersAgree(c)' /\ VerdictAgrees(c)' /\ OutboxAgrees(c)'
      BY <1>0, <1>2, <1>6, <1>11
      DEF ChildAgrees, LostIsOver, RunnersAgree, VerdictAgrees, OutboxAgrees, NoneRuns
    <2> QED BY <2>1, <2>2, <2>3, <2>4 DEF ChildAgrees
  <1>13. \A d \in Children : d # c => SameChild(d)
    BY <1>0, <1>6 DEF SameChild
  <1>14. \A i \in LaunchKeys : SameLaunch(i) \/ LaunchOf(i, c)
    BY <1>0, <1>2, <1>4, <1>5, <1>9 DEF SameLaunch, LaunchOf
  <1>15. RunnersAreLaunched'
    BY <1>0, <1>5, <1>9 DEF AgentInv, RunnersAreLaunched
  <1>16. \A i \in LaunchKeys : SagaAgrees(i)'
    BY <1>0, <1>1, <1>2, NewSagaAgrees
  <1> QED BY <1>0, <1>12, <1>13, <1>14, <1>15, <1>16, AgentsKept

-----------------------------------------------------------------------------
(* Workers *)

LEMMA WorktreeWorkerKeeps ==
    ASSUME AgentInv, TypeOK', NoTrace', NEW k \in LaunchKeys, WorktreeWorker(k)
    PROVE  AgentInv'
  <1>1. UNCHANGED <<phase, entry, overdue, journal, saga, cstate, row, result, pane, outbox, said>>
    BY DEF WorktreeWorker, storeVars
  <1>2. \A i \in LaunchKeys : <<"pane", i>> \in workers' <=> <<"pane", i>> \in workers
    BY DEF WorktreeWorker
  <1>3. PICK r \in {"ok", "err_owned", "err"} :
            /\ Deliver(k, "worktree_running", r)
            /\ (wt' = wt /\ r = "err") \/ wt' = [wt EXCEPT ![k] = "clean"]
    BY DEF WorktreeWorker
  <1>4. TypeOK
    BY DEF AgentInv
  <1>5. \A i \in LaunchKeys : SagaAgrees(i)'
    BY <1>1 DEF AgentInv, SagaAgrees
  <1>6. RunnersAreLaunched'
    BY <1>1, <1>2 DEF AgentInv, RunnersAreLaunched
  <1>7. ASSUME NEW d \in Children
        PROVE  ChildAgrees(d)'
    <2>1. ChildAgrees(d)
      BY DEF AgentInv
    <2>2. /\ jobs'[d].goal = jobs[d].goal /\ jobs'[d].step = jobs[d].step
          /\ jobs'[d].key = jobs[d].key /\ jobs'[d].intent = jobs[d].intent
          /\ jobs'[d].clean = jobs[d].clean /\ jobs'[d].outcome = jobs[d].outcome
          /\ \/ jobs'[d].res = jobs[d].res
             \/ jobs'[d].res = r /\ jobs[d].key = k /\ jobs[d].step = "worktree_running"
          /\ Launching(d)' = Launching(d) /\ Quiescing(d)' = Quiescing(d) /\ Busy(d)' = Busy(d)
          /\ Quiescing(d) => jobs'[d] = jobs[d]
      BY <1>3, <1>4, DeliverDoes
    <2>3. wt'[d] \in {wt[d], "clean"} /\ (k = d /\ r # "err" => wt'[d] = "clean")
      BY <1>3, <1>4 DEF TypeOK
    <2>4. NoneRuns(d) => NoneRuns(d)'
      BY <1>1 DEF NoneRuns
    <2>5. Launching(d) /\ jobs[d].step = "worktree_running" =>
              jobs[d].goal = "create" /\ jobs[d].key = d
      BY LaunchKnown DEF ChildAgrees, LaunchAgrees
    <2>6. LaunchAgrees(d)'
      BY <1>1, <2>1, <2>2, <2>4, <2>5 DEF ChildAgrees, LaunchAgrees
    <2>7. WorkerAgrees(d)'
      <3>1. Launching(d) => jobs[d].key \in LaunchKeys
        BY LaunchKnown
      <3> QED BY <1>2, <1>3, <2>1, <2>2, <2>3, <2>5, <3>1 DEF ChildAgrees, WorkerAgrees
    <2>8. QuiesceAgrees(d)'
      BY <1>1, <2>1, <2>2, <2>3, <2>4 DEF ChildAgrees, QuiesceAgrees
    <2>9. RowAgrees(d)' /\ RunnersAgree(d)' /\ OutboxAgrees(d)'
      BY <1>1, <2>1 DEF ChildAgrees, RowAgrees, RunnersAgree, OutboxAgrees
    <2>10. LostIsOver(d)'
      BY <1>1, <1>2, <2>1, <2>2, <2>3, KeySets DEF ChildAgrees, LostIsOver
    <2>11. VerdictAgrees(d)'
      BY <1>1, <2>1, <2>2, <2>3, <2>4 DEF ChildAgrees, VerdictAgrees
    <2> QED BY <2>6, <2>7, <2>8, <2>9, <2>10, <2>11 DEF ChildAgrees
  <1> QED BY <1>5, <1>6, <1>7 DEF AgentInv

LEMMA PaneWorkerKeeps ==
    ASSUME AgentInv, TypeOK', NoTrace', NEW k \in LaunchKeys, PaneWorker(k)
    PROVE  AgentInv'
  <1>1. /\ <<"pane", k>> \in workers /\ workers' = workers \ {<<"pane", k>>}
        /\ UNCHANGED <<phase, entry, overdue, journal, saga, cstate, row, result, wt, outbox, said>>
    BY DEF PaneWorker, storeVars
  <1>2. PICK r \in {"ok", "err"} : Deliver(k, "pane_running", r)
    BY DEF PaneWorker
  <1>3. /\ pane'[k] \in {pane[k], "gated"}
        /\ \A i \in LaunchKeys : i # k => pane'[i] = pane[i]
    BY DEF PaneWorker, AgentInv, TypeOK
  <1>4. \A i \in LaunchKeys : SagaAgrees(i)'
    BY <1>1 DEF AgentInv, SagaAgrees
  <1>5. RunnersAreLaunched'
    BY <1>1, <1>3 DEF AgentInv, RunnersAreLaunched
  <1>6. ASSUME NEW d \in Children
        PROVE  ChildAgrees(d)'
    <2>0. TypeOK
      BY DEF AgentInv
    <2>1. ChildAgrees(d)
      BY DEF AgentInv
    <2>2. /\ jobs'[d].goal = jobs[d].goal /\ jobs'[d].step = jobs[d].step
          /\ jobs'[d].key = jobs[d].key /\ jobs'[d].intent = jobs[d].intent
          /\ jobs'[d].clean = jobs[d].clean /\ jobs'[d].outcome = jobs[d].outcome
          /\ \/ jobs'[d].res = jobs[d].res
             \/ jobs'[d].res = r /\ jobs[d].key = k /\ jobs[d].step = "pane_running"
          /\ Launching(d)' = Launching(d) /\ Quiescing(d)' = Quiescing(d) /\ Busy(d)' = Busy(d)
          /\ Quiescing(d) => jobs'[d] = jobs[d]
      BY <1>2, <2>0, DeliverDoes
    <2>3. NoneRuns(d) => NoneRuns(d)'
      BY <1>1, <1>3 DEF NoneRuns
    <2>4. LaunchAgrees(d)'
      BY <1>1, <2>1, <2>2, <2>3 DEF ChildAgrees, LaunchAgrees
    <2>5. WorkerAgrees(d)'
      <3>1. Launching(d) /\ jobs[d].step \notin {"named", "worktree_running"} =>
                (jobs[d].goal = "create" => wt[d] # "absent")
        BY <2>1 DEF ChildAgrees, WorkerAgrees
      <3> QED BY <1>1, <2>1, <2>2, <3>1 DEF ChildAgrees, WorkerAgrees
    <2>6. QuiesceAgrees(d)'
      BY <1>1, <2>1, <2>2, <2>3 DEF ChildAgrees, QuiesceAgrees
    <2>7. RowAgrees(d)' /\ RunnersAgree(d)' /\ OutboxAgrees(d)'
      BY <1>1, <1>3, <2>1 DEF ChildAgrees, RowAgrees, RunnersAgree, OutboxAgrees
    <2>8. LostIsOver(d)'
      BY <1>1, <1>3, <2>1, <2>2, KeySets DEF ChildAgrees, LostIsOver
    <2>9. VerdictAgrees(d)'
      BY <1>1, <2>1, <2>2, <2>3 DEF ChildAgrees, VerdictAgrees
    <2> QED BY <2>4, <2>5, <2>6, <2>7, <2>8, <2>9 DEF ChildAgrees
  <1> QED BY <1>4, <1>5, <1>6 DEF AgentInv

-----------------------------------------------------------------------------
(* Agents and the multiplexer *)

\* Panes only end, or nothing of this happens: reports, exits, a server's death,
\* a lease that runs out.
LEMMA HostKeeps ==
    ASSUME AgentInv, TypeOK', NoTrace',
           MuxDies \/ \E k \in LaunchKeys : Report(k) \/ PaneExits(k) \/ LeaseExpires(k)
    PROVE  AgentInv'
  <1>1. UNCHANGED <<phase, entry, jobs, workers, overdue, journal, cstate, row, result,
                    wt, outbox, said>>
    BY DEF MuxDies, Report, PaneExits, LeaseExpires, processVars, storeVars, hostVars
  <1>2. \A i \in LaunchKeys :
           /\ pane'[i] = "running" => pane[i] = "running"
           /\ pane[i] = "none" => pane'[i] = "none"
    BY DEF MuxDies, Report, PaneExits, LeaseExpires, AgentAlive, hostVars, AgentInv, TypeOK
  <1>3. \A i \in LaunchKeys :
           /\ saga'[i].child = saga[i].child /\ saga'[i].step = saga[i].step
           /\ saga'[i].claimed = saga[i].claimed /\ saga'[i].outcome = saga[i].outcome
    <2>1. CASE saga' = saga
      BY <2>1
    <2>2. ASSUME NEW k \in LaunchKeys, LeaseExpires(k)
          PROVE  \A i \in LaunchKeys :
                    /\ saga'[i].child = saga[i].child /\ saga'[i].step = saga[i].step
                    /\ saga'[i].claimed = saga[i].claimed /\ saga'[i].outcome = saga[i].outcome
      BY <2>2, LeaseWrites DEF LeaseExpires, AgentInv
    <2> QED BY <2>1, <2>2 DEF MuxDies, Report, PaneExits, storeVars
  <1>4. \A d \in Children : SameChild(d)
    BY <1>1 DEF SameChild
  <1>5. \A i \in LaunchKeys : SameLaunch(i)
    BY <1>1, <1>2, <1>3 DEF SameLaunch
  <1> QED BY <1>1, <1>2, <1>3, <1>4, <1>5, NobodysStep

\* An agent that runs is of a child with a row and a worktree.
LEMMA RunnerKnown ==
    ASSUME AgentInv, NEW k \in LaunchKeys, pane[k] = "running"
    PROVE  LET c == saga[k].child
           IN  /\ c \in Children /\ row[c] = k /\ row[c] # NoKey /\ cstate[c] # "none"
               /\ wt[c] # "absent" /\ ~NoneRuns(c) /\ ChildAgrees(c)
               /\ saga[k].step \in {"released"} \cup FinalSteps
  <1> DEFINE c == saga[k].child
  <1>1. c \in Children
    BY DEF AgentInv, RunnersAreLaunched, SagaAgrees
  <1>2. ChildAgrees(c)
    BY <1>1 DEF AgentInv
  <1>3. row[c] = k /\ saga[k].step \in {"released"} \cup FinalSteps
    BY <1>2 DEF ChildAgrees, RunnersAgree
  <1>4. row[c] # NoKey /\ cstate[c] # "none"
    BY <1>2, <1>3, KeySets, KeysAssumption DEF ChildAgrees, RowAgrees
  <1>5. wt[c] # "absent"
    BY <1>2, <1>3, <1>4 DEF ChildAgrees, LostIsOver
  <1>6. ~NoneRuns(c)
    BY DEF NoneRuns
  <1> QED BY <1>1, <1>2, <1>3, <1>4, <1>5, <1>6

LEMMA WorkKeeps ==
    ASSUME AgentInv, TypeOK', NoTrace', NEW k \in LaunchKeys, Work(k)
    PROVE  AgentInv'
  <1>0. pane[k] = "running"
    BY DEF Work
  <1>2. PICK c \in Children :
            /\ c = saga[k].child
            /\ row[c] # NoKey /\ cstate[c] # "none" /\ wt[c] # "absent"
            /\ ~NoneRuns(c) /\ ChildAgrees(c) /\ TypeOK
    BY <1>0, RunnerKnown DEF AgentInv
  <1>1. /\ wt' = [wt EXCEPT ![c] = "dirty"] \/ wt' = [wt EXCEPT ![c] = "clean"]
        /\ UNCHANGED <<phase, entry, jobs, workers, overdue, journal, saga, cstate, row, result,
                       pane, outbox, said>>
    BY <1>2 DEF Work, processVars, storeVars
  <1>3. wt'[c] # "absent" /\ \A d \in Children : d # c => wt'[d] = wt[d]
    BY <1>1, <1>2 DEF TypeOK
  <1>4. StartsNothing(c)
    BY <1>1, <1>3 DEF StartsNothing, SameChild
  <1>5. RowAgrees(c)' /\ LostIsOver(c)'
    BY <1>1, <1>2, <1>3, <1>4, StaysOwned
  <1>6. LaunchAgrees(c)' /\ WorkerAgrees(c)' /\ QuiesceAgrees(c)'
    BY <1>1, <1>2, <1>3
    DEF ChildAgrees, LaunchAgrees, WorkerAgrees, QuiesceAgrees, Launching, Quiescing, NoneRuns
  <1>7. RunnersAgree(c)' /\ VerdictAgrees(c)' /\ OutboxAgrees(c)'
    BY <1>1, <1>2 DEF ChildAgrees, RunnersAgree, VerdictAgrees, OutboxAgrees
  <1> QED BY <1>2, <1>4, <1>5, <1>6, <1>7, NothingStarted DEF ChildAgrees

LEMMA SendResultKeeps ==
    ASSUME AgentInv, TypeOK', NoTrace', NEW k \in LaunchKeys, NEW o \in Outcomes,
           SendResult(k, o)
    PROVE  AgentInv'
  <1>0. pane[k] = "running"
    BY DEF SendResult
  <1>2. PICK c \in Children :
            /\ c = saga[k].child
            /\ row[c] # NoKey /\ cstate[c] # "none" /\ wt[c] # "absent"
            /\ ~NoneRuns(c) /\ ChildAgrees(c) /\ TypeOK
    BY <1>0, RunnerKnown DEF AgentInv
  <1>1. /\ outbox' = [outbox EXCEPT ![c] = o]
        /\ said' = [said EXCEPT ![c] = @ \cup {o}]
        /\ UNCHANGED <<phase, entry, jobs, workers, overdue, journal, saga, cstate, row, result,
                       pane, wt>>
    BY <1>2 DEF SendResult, processVars, storeVars
  <1>3. /\ outbox'[c] = o /\ said'[c] = said[c] \cup {o}
        /\ \A d \in Children : d # c => outbox'[d] = outbox[d] /\ said'[d] = said[d]
    BY <1>1, <1>2 DEF TypeOK
  <1>4. StartsNothing(c)
    BY <1>1, <1>3 DEF StartsNothing, SameChild
  <1>5. RowAgrees(c)' /\ LostIsOver(c)'
    BY <1>1, <1>2, <1>4, StaysOwned
  <1>6. LaunchAgrees(c)' /\ WorkerAgrees(c)' /\ QuiesceAgrees(c)'
    BY <1>1, <1>2, <1>3
    DEF ChildAgrees, LaunchAgrees, WorkerAgrees, QuiesceAgrees, Launching, Quiescing, NoneRuns
  <1>7. RunnersAgree(c)' /\ VerdictAgrees(c)' /\ OutboxAgrees(c)'
    BY <1>1, <1>2, <1>3 DEF ChildAgrees, RunnersAgree, VerdictAgrees, OutboxAgrees
  <1> QED BY <1>2, <1>4, <1>5, <1>6, <1>7, NothingStarted DEF ChildAgrees

-----------------------------------------------------------------------------
(* Crash, restart, recovery *)

LEMMA CrashKeeps ==
    ASSUME AgentInv, TypeOK', NoTrace', Crash
    PROVE  AgentInv'
  <1>1. /\ phase' = "down" /\ workers' = {} /\ overdue' = {}
        /\ \A d \in Children : entry'[d] = "none" /\ jobs'[d] = Idle
        /\ UNCHANGED <<journal, saga, cstate, row, result, pane, wt, outbox, said>>
    BY DEF Crash, storeVars, hostVars
  <1>2. \A i \in LaunchKeys : SagaAgrees(i)'
    BY <1>1 DEF AgentInv, SagaAgrees
  <1>3. RunnersAreLaunched'
    BY <1>1 DEF AgentInv, RunnersAreLaunched
  <1>4. ASSUME NEW d \in Children
        PROVE  ChildAgrees(d)'
    <2>1. ChildAgrees(d)
      BY DEF AgentInv
    <2>2. LaunchAgrees(d)' /\ WorkerAgrees(d)' /\ QuiesceAgrees(d)'
      BY <1>1, NextJobAgrees
    <2>5. ~Busy(d)'
      BY <1>1 DEF Busy, Idle
    <2>3. RowAgrees(d)' /\ LostIsOver(d)' /\ RunnersAgree(d)' /\ OutboxAgrees(d)'
      BY <1>1, <2>1, <2>5 DEF ChildAgrees, RowAgrees, LostIsOver, RunnersAgree, OutboxAgrees
    <2>4. VerdictAgrees(d)'
      BY <1>1, <2>1, <2>5 DEF ChildAgrees, VerdictAgrees, NoneRuns
    <2> QED BY <2>2, <2>3, <2>4 DEF ChildAgrees
  <1> QED BY <1>2, <1>3, <1>4 DEF AgentInv

LEMMA StartKeeps ==
    ASSUME AgentInv, TypeOK', NoTrace', Start
    PROVE  AgentInv'
  <1>1. /\ phase = "down" /\ phase' = "recovering"
        /\ UNCHANGED <<jobs, workers, overdue, journal, saga, cstate, row, result,
                       pane, wt, outbox, said>>
    BY DEF Start, storeVars, hostVars
  <1>2. \A d \in Children : entry'[d] = Restored(d)
    BY DEF Start
  <1>3. \A i \in LaunchKeys : SagaAgrees(i)'
    BY <1>1 DEF AgentInv, SagaAgrees
  <1>4. RunnersAreLaunched'
    BY <1>1 DEF AgentInv, RunnersAreLaunched
  <1>5. ASSUME NEW d \in Children
        PROVE  ChildAgrees(d)'
    <2>1. ChildAgrees(d)
      BY DEF AgentInv
    <2>2. ~Launching(d) /\ ~Quiescing(d)
      BY <1>1, <2>1 DEF ChildAgrees, LaunchAgrees, QuiesceAgrees
    <2>3. LaunchAgrees(d)' /\ WorkerAgrees(d)' /\ QuiesceAgrees(d)'
      BY <1>1, <2>2 DEF LaunchAgrees, WorkerAgrees, QuiesceAgrees, Launching, Quiescing
    <2>4. row[d] = NoKey => entry'[d] = "none"
      BY <1>2 DEF Restored
    <2>5. RowAgrees(d)'
      BY <1>1, <2>1, <2>4 DEF ChildAgrees, RowAgrees
    <2>6. LostIsOver(d)'
      <3>1. ASSUME row[d] # NoKey, wt[d] = "absent"
            PROVE  entry'[d] = "ghost"
        <4>1. row[d] = d /\ pane[d] = "none" /\ \A k \in Launches(d) : k = d
          BY <2>1, <3>1 DEF ChildAgrees, LostIsOver, Launches
        <4> QED BY <1>2, <3>1, <4>1 DEF Restored, AgentAlive
      <3> QED BY <1>1, <2>1, <3>1 DEF ChildAgrees, LostIsOver, Busy
    <2>7. RunnersAgree(d)'
      <3>1. ASSUME NEW k \in LaunchKeys, saga[k].child = d, pane[k] = "running"
            PROVE  row[d] = k /\ entry'[d] = "live"
        <4>1. row[d] = k /\ k # NoKey
          BY <2>1, <3>1, KeySets, KeysAssumption DEF ChildAgrees, RunnersAgree
        <4> QED BY <1>2, <3>1, <4>1 DEF Restored, AgentAlive
      <3> QED BY <1>1, <2>1, <3>1 DEF ChildAgrees, RunnersAgree
    <2>8. VerdictAgrees(d)' /\ OutboxAgrees(d)'
      BY <1>1, <2>1 DEF ChildAgrees, VerdictAgrees, OutboxAgrees, NoneRuns, Busy
    <2> QED BY <2>3, <2>5, <2>6, <2>7, <2>8 DEF ChildAgrees
  <1> QED BY <1>3, <1>4, <1>5 DEF AgentInv

LEMMA ClosesDo ==
    ASSUME AgentInv, NEW k \in LaunchKeys, saga[k].step # "none", NEW s \in FinalSteps,
           NEW a \in {"ok", "refused"}, CloseSaga(k, s, a), said' = said
    PROVE  /\ saga'[k].step = s
           /\ \A i \in LaunchKeys : saga'[i].child = saga[i].child /\ (i # k => saga'[i] = saga[i])
           /\ \A i \in Keys : journal[i] # "none" => journal'[i] # "none"
           /\ \A i \in LaunchKeys : SagaAgrees(i)'
  <1>1. Wrote(k) /\ saga'[k].step = s /\ saga'[k].claimed = saga[k].claimed
        /\ saga'[k].outcome = saga[k].outcome
    BY CloseWrites DEF AgentInv
  <1>2. \A i \in LaunchKeys : saga'[i].child = saga[i].child /\ (i # k => saga'[i] = saga[i])
    BY <1>1 DEF Wrote
  <1>3. \A i \in Keys : journal[i] # "none" => journal'[i] # "none"
    BY KeySets DEF CloseSaga, AgentInv, TypeOK
  <1>4. SagaGoesOn(k)
    BY <1>1, <1>2 DEF SagaGoesOn, FinalSteps
  <1>5. \A i \in LaunchKeys : saga'[i] = saga[i] \/ SagaGoesOn(i)
    BY <1>2, <1>4
  <1>6. \A d \in Children : said[d] \subseteq said'[d]
    OBVIOUS
  <1> QED BY <1>1, <1>2, <1>3, <1>5, <1>6, SagasAgree

\* A launch past the one transaction is closed, and its child taken on as
\* what it is: nothing of it is started again.
Adopts(k, c) ==
    /\ phase = "recovering" /\ c = saga[k].child /\ saga[k].step \in CommittedSteps
    /\ \E s \in FinalSteps, a \in {"ok", "refused"} : CloseSaga(k, s, a)
    /\ \/ jobs'[c] = jobs[c] /\ (cstate'[c] \notin {"none", "done", "stopped"}
                                 \/ (Busy(c) /\ cstate'[c] = cstate[c]))
       \/ StopsFirst(jobs'[c], c) /\ cstate'[c] = "finishing"
    /\ \A d \in Children : d # c => jobs'[d] = jobs[d] /\ cstate'[d] = cstate[d]
    /\ UNCHANGED <<phase, entry, workers, overdue, row, result, pane, wt, outbox, said>>

LEMMA AdoptKeeps ==
    ASSUME AgentInv, TypeOK', NoTrace', NEW k \in LaunchKeys, NEW c \in Children, Adopts(k, c)
    PROVE  AgentInv'
  <1>0. /\ phase = "recovering" /\ c = saga[k].child /\ saga[k].step \in CommittedSteps
        /\ \A d \in Children : d # c => jobs'[d] = jobs[d] /\ cstate'[d] = cstate[d]
        /\ UNCHANGED <<phase, entry, workers, overdue, row, result, pane, wt, outbox, said>>
    BY DEF Adopts
  <1>1. saga[k].step # "none" /\ ChildAgrees(c) /\ TypeOK /\ SagaAgrees(k)
    BY <1>0 DEF CommittedSteps, AgentInv
  <1>2. PICK s \in FinalSteps, a \in {"ok", "refused"} : CloseSaga(k, s, a)
    BY DEF Adopts
  <1>3. /\ saga'[k].step = s
        /\ \A i \in LaunchKeys : saga'[i].child = saga[i].child /\ (i # k => saga'[i] = saga[i])
        /\ \A i \in LaunchKeys : SagaAgrees(i)'
    BY <1>0, <1>1, <1>2, ClosesDo
  <1>4. row[c] # NoKey /\ wt[c] # "absent" /\ cstate[c] # "none"
    <2>1. row[c] # NoKey /\ cstate[c] # "none"
      BY <1>0, <1>1 DEF ChildAgrees, RowAgrees
    <2>2. wt[c] = "absent" => k = c /\ saga[c].step \in FinalSteps
      BY <1>0, <1>1, <2>1 DEF ChildAgrees, LostIsOver
    <2> QED BY <1>0, <2>1, <2>2 DEF CommittedSteps, FinalSteps
  <1>5. cstate'[c] \notin {"none", "done", "stopped"}
    BY <1>1, <1>4 DEF Adopts, ChildAgrees, VerdictAgrees
  <1>6. ~Launching(c)
    BY <1>0, <1>1 DEF ChildAgrees, LaunchAgrees
  <1>7. LaunchAgrees(c)' /\ WorkerAgrees(c)' /\ QuiesceAgrees(c)'
    <2>1. CASE jobs'[c] = jobs[c]
      BY <2>1, <1>0, <1>1, <1>3, <1>6
      DEF ChildAgrees, LaunchAgrees, WorkerAgrees, QuiesceAgrees, Launching, Quiescing, NoneRuns
    <2>2. CASE StopsFirst(jobs'[c], c)
      <3>1. StopsFirst(jobs[c], c)'
        BY <2>2, <1>0 DEF StopsFirst
      <3> QED BY <3>1, <1>0, <1>4, NextJobAgrees
    <2> QED BY <2>1, <2>2 DEF Adopts
  <1>8. s \in FinalSteps /\ \A i \in LaunchKeys :
            saga'[i].step = saga[i].step \/ saga'[i].step \in FinalSteps
    BY <1>3
  <1>9. RowAgrees(c)'
    <2>1. c \in LaunchKeys /\ row[c] \in LaunchKeys
      BY <1>1, <1>4, KeySets DEF TypeOK
    <2> QED BY <1>0, <1>1, <1>3, <1>4, <1>5, <1>8, <2>1 DEF ChildAgrees, RowAgrees
  <1>10. LostIsOver(c)' /\ VerdictAgrees(c)' /\ OutboxAgrees(c)'
    BY <1>0, <1>1, <1>4, <1>5 DEF ChildAgrees, LostIsOver, VerdictAgrees, OutboxAgrees
  <1>11. RunnersAgree(c)'
    BY <1>0, <1>1, <1>3, <1>8 DEF ChildAgrees, RunnersAgree
  <1>12. ChildAgrees(c)'
    BY <1>7, <1>9, <1>10, <1>11 DEF ChildAgrees
  <1>13. \A d \in Children : d # c => SameChild(d)
    BY <1>0 DEF SameChild
  <1>14. \A i \in LaunchKeys : SameLaunch(i) \/ LaunchOf(i, c)
    <2>1. LaunchOf(k, c)
      BY <1>0, <1>1, <1>3 DEF LaunchOf, SagaAgrees
    <2> QED BY <1>0, <1>3, <2>1 DEF SameLaunch
  <1>15. RunnersAreLaunched'
    BY <1>0, <1>1, <1>3, <1>8 DEF AgentInv, RunnersAreLaunched, FinalSteps
  <1> QED BY <1>0, <1>3, <1>12, <1>13, <1>14, <1>15, AgentsKept

LEMMA AdoptFinishedKeeps ==
    ASSUME AgentInv, TypeOK', NoTrace', NEW k \in LaunchKeys, AdoptFinished(k)
    PROVE  AgentInv'
  <1>1. /\ phase = "recovering" /\ saga[k].step \in CommittedSteps /\ saga[k].outcome # "none"
        /\ FinishRecovered(saga[k].child, saga[k].outcome) /\ CloseSaga(k, "done", "ok")
        /\ UNCHANGED <<phase, entry, workers, overdue, row, result, pane, wt, outbox, said>>
    BY DEF AdoptFinished, hostVars
  <1>2. SagaAgrees(k) /\ TypeOK /\ saga[k] \in Sagas
    BY DEF AgentInv, TypeOK
  <1>3. saga[k].outcome \in Outcomes
    BY <1>1, <1>2 DEF Sagas
  <1>4. PICK c \in Children : c = saga[k].child
    BY <1>1, <1>2 DEF SagaAgrees
  <1>5. saga[k].outcome \in said[c]
    BY <1>1, <1>2, <1>4 DEF SagaAgrees
  <1>6. StopsFirst(FinishJob(saga[k].outcome, {}), c)
    BY <1>3, <1>5, FinishStopsFirst
  <1>7. \/ Busy(c) /\ jobs' = jobs /\ cstate' = cstate
        \/ /\ jobs'[c] = FinishJob(saga[k].outcome, {}) /\ cstate'[c] = "finishing"
           /\ \A d \in Children : d # c => jobs'[d] = jobs[d] /\ cstate'[d] = cstate[d]
    BY <1>1, <1>2, <1>4 DEF FinishRecovered, TypeOK
  <1>8. Adopts(k, c)
    BY <1>1, <1>4, <1>6, <1>7 DEF Adopts, FinalSteps
  <1> QED BY <1>8, AdoptKeeps

LEMMA AdoptRecoveredKeeps ==
    ASSUME AgentInv, TypeOK', NoTrace', NEW k \in LaunchKeys, AdoptRecovered(k)
    PROVE  AgentInv'
  <1>1. /\ phase = "recovering" /\ saga[k].step \in CommittedSteps
        /\ cstate' = [cstate EXCEPT ![saga[k].child] = AdoptState(k)]
        /\ CloseSaga(k, "done", "ok") \/ CloseSaga(k, "failed", "refused")
        /\ UNCHANGED <<phase, entry, jobs, workers, overdue, row, result, pane, wt, outbox, said>>
    BY DEF AdoptRecovered, processVars, hostVars
  <1>2. SagaAgrees(k) /\ TypeOK
    BY DEF AgentInv
  <1>3. PICK c \in Children : c = saga[k].child
    BY <1>1, <1>2 DEF SagaAgrees, CommittedSteps
  <1>4. AdoptState(k) \in {"ready", "unusable", "stalled"}
    BY DEF AdoptState
  <1>5. cstate'[c] \notin {"none", "done", "stopped"}
        /\ \A d \in Children : d # c => cstate'[d] = cstate[d]
    BY <1>1, <1>2, <1>3, <1>4 DEF TypeOK
  <1>6. Adopts(k, c)
    BY <1>1, <1>3, <1>5 DEF Adopts, FinalSteps
  <1> QED BY <1>6, AdoptKeeps
\* A launch that got nowhere is closed.  A worktree goes only with a create
\* that has no row yet.
LEMMA ReconcilePendingKeeps ==
    ASSUME AgentInv, TypeOK', NoTrace', NEW k \in LaunchKeys, ReconcilePending(k)
    PROVE  AgentInv'
  <1>1. /\ phase = "recovering" /\ saga[k].step \in PendingSteps
        /\ IF saga[k].mux THEN TryKill(k) ELSE pane' = pane
        /\ Reclaim(saga[k].child, saga[k].claimed)
        /\ CloseSaga(k, "failed", "refused")
        /\ UNCHANGED <<phase, entry, jobs, workers, overdue, cstate, row, result, outbox, said>>
    BY DEF ReconcilePending, processVars
  <1>2. SagaAgrees(k) /\ TypeOK /\ saga[k].step # "none"
    BY <1>1 DEF AgentInv, PendingSteps
  <1>3. PICK c \in Children : c = saga[k].child
    BY <1>2 DEF SagaAgrees
  <1>4. /\ saga'[k].step = "failed"
        /\ \A i \in LaunchKeys : saga'[i].child = saga[i].child /\ (i # k => saga'[i] = saga[i])
        /\ \A i \in LaunchKeys : SagaAgrees(i)'
    BY <1>1, <1>2, ClosesDo DEF FinalSteps
  <1>5. \A i \in LaunchKeys : pane'[i] \in {pane[i], "none"}
    BY <1>1, <1>2 DEF TryKill, Kill, TypeOK
  <1>6. /\ wt'[c] \in {wt[c], "absent"} /\ (~saga[k].claimed => wt'[c] = wt[c])
        /\ \A d \in Children : d # c => wt'[d] = wt[d]
    BY <1>1, <1>2, <1>3, ReclaimDoes
  <1>7. ChildAgrees(c)
    BY DEF AgentInv
  <1>8. saga[k].claimed => row[c] = NoKey
    BY <1>1, <1>2, <1>3, <1>7
    DEF SagaAgrees, ChildAgrees, RowAgrees, PendingSteps, CommittedSteps, FinalSteps
  <1>9. row[c] # NoKey => wt'[c] = wt[c] /\ wt[c] # "absent"
    <2>1. row[c] # NoKey /\ wt[c] = "absent" => k = c /\ saga[c].step \in FinalSteps
      BY <1>3, <1>7 DEF ChildAgrees, LostIsOver
    <2> QED BY <1>1, <1>6, <1>8, <2>1 DEF PendingSteps, FinalSteps
  <1>10. ~Launching(c)
    BY <1>1, <1>7 DEF ChildAgrees, LaunchAgrees
  <1>11. NoneRuns(c) => NoneRuns(c)'
    BY <1>4, <1>5 DEF NoneRuns
  <1>12. LaunchAgrees(c)' /\ WorkerAgrees(c)' /\ QuiesceAgrees(c)'
    BY <1>1, <1>7, <1>9, <1>10, <1>11
    DEF ChildAgrees, LaunchAgrees, WorkerAgrees, QuiesceAgrees, Launching, Quiescing
  <1>13. \A i \in LaunchKeys : saga'[i].step = saga[i].step
                               \/ (saga'[i].step \in FinalSteps /\ saga[i].step \in PendingSteps)
    BY <1>1, <1>4 DEF FinalSteps
  <1>14. RowAgrees(c)'
    <2>1. c \in LaunchKeys /\ (row[c] # NoKey => row[c] \in LaunchKeys)
      BY <1>2, KeySets DEF TypeOK
    <2>2. row[c] = NoKey => \A i \in LaunchKeys :
              saga'[i].child = c => saga'[i].step \notin CommittedSteps
      BY <1>4, <1>7, <1>13 DEF ChildAgrees, RowAgrees, FinalSteps, CommittedSteps
    <2>3. row[c] # NoKey => /\ saga'[row[c]].child = c
                            /\ saga'[row[c]].step \in CommittedSteps \cup FinalSteps
                            /\ saga'[c].step \in CommittedSteps \cup FinalSteps
      BY <1>4, <1>7, <1>13, <2>1 DEF ChildAgrees, RowAgrees
    <2> QED BY <1>1, <1>7, <2>2, <2>3 DEF ChildAgrees, RowAgrees
  <1>15. LostIsOver(c)' /\ OutboxAgrees(c)'
    BY <1>1, <1>7, <1>9 DEF ChildAgrees, LostIsOver, OutboxAgrees
  <1>16. VerdictAgrees(c)'
    <2>1. cstate[c] # "none" => row[c] # NoKey
      BY <1>7 DEF ChildAgrees, RowAgrees
    <2> QED BY <1>1, <1>7, <1>9, <1>11, <2>1 DEF ChildAgrees, VerdictAgrees, Busy
  <1>17. RunnersAgree(c)'
    BY <1>1, <1>4, <1>5, <1>7, <1>13 DEF ChildAgrees, RunnersAgree
  <1>18. ChildAgrees(c)'
    BY <1>12, <1>14, <1>15, <1>16, <1>17 DEF ChildAgrees
  <1>19. \A d \in Children : d # c => SameChild(d)
    BY <1>1, <1>6 DEF SameChild
  <1>20. \A i \in LaunchKeys : SameLaunch(i) \/ LaunchOf(i, c)
    <2>1. LaunchOf(k, c)
      BY <1>2, <1>3, <1>4 DEF LaunchOf, SagaAgrees
    <2>2. ASSUME NEW i \in LaunchKeys, i # k
          PROVE  SameLaunch(i)
      BY <1>1, <1>4, <1>5, <2>2 DEF SameLaunch
    <2> QED BY <2>1, <2>2
  <1>21. RunnersAreLaunched'
    BY <1>1, <1>2, <1>4, <1>5 DEF AgentInv, RunnersAreLaunched
  <1> QED BY <1>1, <1>4, <1>18, <1>19, <1>20, <1>21, AgentsKept

LEMMA ResumeQuiesceKeeps ==
    ASSUME AgentInv, TypeOK', NoTrace', NEW c \in Children, ResumeQuiesce(c)
    PROVE  AgentInv'
  <1>1. /\ phase = "recovering" /\ cstate[c] = "finishing" /\ ~Busy(c)
        /\ FinishRecovered(c, "failed")
        /\ UNCHANGED <<phase, entry, workers, overdue, journal, saga, row, result,
                       pane, wt, outbox, said>>
    BY DEF ResumeQuiesce, hostVars
  <1>2. ChildAgrees(c) /\ TypeOK
    BY DEF AgentInv
  <1>3. row[c] # NoKey /\ wt[c] # "absent"
    BY <1>1, <1>2 DEF ChildAgrees, RowAgrees, LostIsOver
  <1>4. /\ cstate'[c] = "finishing" /\ jobs'[c] = FinishJob("failed", {})
        /\ \A d \in Children : d # c => cstate'[d] = cstate[d] /\ jobs'[d] = jobs[d]
    BY <1>1, <1>2 DEF TypeOK, FinishRecovered
  <1>5. StartsNothing(c)
    BY <1>1, <1>4 DEF StartsNothing, SameChild
  <1>6. StopsFirst(FinishJob("failed", {}), c)
    BY FinishStopsFirst DEF Outcomes
  <1>7. StopsFirst(jobs[c], c)' /\ row'[c] # NoKey /\ phase' # "down"
    BY <1>1, <1>3, <1>4, <1>6 DEF StopsFirst
  <1>8. LaunchAgrees(c)' /\ WorkerAgrees(c)' /\ QuiesceAgrees(c)'
    BY <1>7, NextJobAgrees
  <1>9. RowAgrees(c)' /\ LostIsOver(c)'
    BY <1>1, <1>3, <1>4, <1>5, StaysOwned
  <1>10. RunnersAgree(c)' /\ VerdictAgrees(c)' /\ OutboxAgrees(c)'
    BY <1>1, <1>2, <1>3, <1>4 DEF ChildAgrees, RunnersAgree, VerdictAgrees, OutboxAgrees
  <1> QED BY <1>5, <1>8, <1>9, <1>10, NothingStarted DEF ChildAgrees

LEMMA AnswerAbandonedKeeps ==
    ASSUME AgentInv, TypeOK', NoTrace', AnswerAbandoned
    PROVE  AgentInv'
  <1>1. /\ phase = "recovering" /\ phase' = "serving"
        /\ UNCHANGED <<entry, jobs, workers, overdue, saga, cstate, row, result,
                       pane, wt, outbox, said>>
    BY DEF AnswerAbandoned, hostVars
  <1>2. \A i \in Keys : journal[i] # "none" => journal'[i] # "none"
    BY DEF AnswerAbandoned, Answered
  <1>3. \A i \in LaunchKeys : SagaAgrees(i)'
    BY <1>1, <1>2, KeySets DEF AgentInv, SagaAgrees
  <1>4. RunnersAreLaunched'
    BY <1>1 DEF AgentInv, RunnersAreLaunched
  <1>5. ASSUME NEW d \in Children
        PROVE  ChildAgrees(d)'
    <2>1. ChildAgrees(d)
      BY DEF AgentInv
    <2>2. ~Launching(d)
      BY <1>1, <2>1 DEF ChildAgrees, LaunchAgrees
    <2>3. LaunchAgrees(d)' /\ WorkerAgrees(d)'
      BY <1>1, <2>2 DEF LaunchAgrees, WorkerAgrees, Launching
    <2>4. QuiesceAgrees(d)' /\ RunnersAgree(d)'
      BY <1>1, <2>1 DEF ChildAgrees, QuiesceAgrees, RunnersAgree, Quiescing, NoneRuns
    <2>5. RowAgrees(d)' /\ LostIsOver(d)' /\ VerdictAgrees(d)' /\ OutboxAgrees(d)'
      BY <1>1, <2>1
      DEF ChildAgrees, RowAgrees, LostIsOver, VerdictAgrees, OutboxAgrees, NoneRuns, Busy
    <2> QED BY <2>3, <2>4, <2>5 DEF ChildAgrees
  <1> QED BY <1>3, <1>4, <1>5 DEF AgentInv
-----------------------------------------------------------------------------
(* The theorems *)

LEMMA InitAgents == Init => AgentInv
  <1> SUFFICES ASSUME Init
               PROVE  AgentInv
    OBVIOUS
  <1>1. TypeOK /\ NoTrace
    BY InitTypes, InitCarried DEF CarriedInv
  <1>2. \A k \in LaunchKeys : /\ saga[k].step = "none" /\ saga[k].child = NoKey
                              /\ ~saga[k].claimed /\ saga[k].outcome = "none"
                              /\ pane[k] = "none" /\ workers = {}
    BY DEF Init, NoSaga
  <1>3. NoKey \notin Children
    BY KeysAssumption, KeySets
  <1>4. RunnersAreLaunched /\ \A k \in LaunchKeys : SagaAgrees(k)
    BY <1>2 DEF RunnersAreLaunched, SagaAgrees
  <1>5. ASSUME NEW c \in Children
        PROVE  ChildAgrees(c)
    <2>1. /\ jobs[c] = Idle /\ row[c] = NoKey /\ cstate[c] = "none" /\ entry[c] = "none"
          /\ overdue = {} /\ outbox[c] = "empty"
      BY DEF Init
    <2>2. ~Launching(c) /\ ~Quiescing(c)
      BY <2>1 DEF Launching, Quiescing, Idle
    <2>3. LaunchAgrees(c) /\ WorkerAgrees(c) /\ QuiesceAgrees(c)
      BY <2>2 DEF LaunchAgrees, WorkerAgrees, QuiesceAgrees
    <2>4. RowAgrees(c) /\ LostIsOver(c) /\ RunnersAgree(c)
      BY <1>2, <1>3, <2>1 DEF RowAgrees, LostIsOver, RunnersAgree
    <2>5. VerdictAgrees(c) /\ OutboxAgrees(c)
      BY <2>1 DEF VerdictAgrees, OutboxAgrees
    <2> QED BY <2>3, <2>4, <2>5 DEF ChildAgrees
  <1> QED BY <1>1, <1>4, <1>5 DEF AgentInv

LEMMA AgentStep == KillsWork /\ AgentInv /\ [Next]_vars => AgentInv'
  <1> SUFFICES ASSUME KillsWork, AgentInv, [Next]_vars
               PROVE  AgentInv'
    OBVIOUS
  <1>0. TypeOK' /\ NoTrace'
    BY TypesStep, NoTraceStep DEF AgentInv
  <1>1. CASE Owner
    <2>1. ASSUME NEW k \in Keys, RefuseRequest(k)
          PROVE  AgentInv'
      BY <1>0, <2>1, AnsweredKeeps
    <2>2. ASSUME NEW c \in Children, BeginCreate(c)
          PROVE  AgentInv'
      BY <1>0, <2>2, BeginCreateKeeps
    <2>3. ASSUME NEW c \in Children, NEW k \in StopKeys,
                 StopAnswered(k, c) \/ StopJoins(k, c) \/ BeginStop(k, c)
          PROVE  AgentInv'
      BY <1>0, <2>3, KeySets, AnsweredKeeps, JoinKeeps, BeginStopKeeps
    <2>4. ASSUME NEW c \in Children, NEW k \in ResumeKeys, ResumeJoins(k, c) \/ BeginResume(k, c)
          PROVE  AgentInv'
      BY <1>0, <2>4, KeySets, JoinKeeps, BeginResumeKeeps
    <2> QED BY <1>1, <2>1, <2>2, <2>3, <2>4 DEF Owner
  <1>2. ASSUME NEW c \in Children, Launch(c)
        PROVE  AgentInv'
    BY <1>0, <1>2, LaunchStepKeeps, CommitKeeps, ReleaseGateKeeps, AwaitReadyKeeps,
       FailLaunchKeeps DEF Launch
  <1>3. ASSUME NEW c \in Children, Quiesce(c)
        PROVE  AgentInv'
    BY <1>0, <1>3, AckedKeeps, StopPaneKeeps, QuiesceGivesUp, VerifyKeeps, DecideKeeps
    DEF Quiesce
  <1>4. ASSUME NEW c \in Children, ServeResult(c) \/ Nudge(c)
        PROVE  AgentInv'
    BY <1>0, <1>4, StartFinishKeeps, AckedKeeps, HoldIntentKeeps, DropResultKeeps, NudgeKeeps
    DEF ServeResult
  <1>5. ASSUME NEW k \in LaunchKeys,
               WorktreeWorker(k) \/ PaneWorker(k) \/ Agent(k) \/ LeaseExpires(k)
        PROVE  AgentInv'
    <2>1. CASE WorktreeWorker(k) \/ PaneWorker(k)
      BY <1>0, <2>1, WorktreeWorkerKeeps, PaneWorkerKeeps
    <2>2. CASE Report(k) \/ PaneExits(k) \/ LeaseExpires(k)
      BY <1>0, <2>2, HostKeeps
    <2>3. CASE Work(k)
      BY <1>0, <2>3, WorkKeeps
    <2>4. ASSUME NEW o \in Outcomes, SendResult(k, o)
          PROVE  AgentInv'
      BY <1>0, <2>4, SendResultKeeps
    <2> QED BY <1>5, <2>1, <2>2, <2>3, <2>4 DEF Agent
  <1>6. CASE MuxDies \/ Crash \/ Start
    BY <1>0, <1>6, HostKeeps, CrashKeeps, StartKeeps
  <1>7. CASE Recover
    BY <1>0, <1>7, ReconcilePendingKeeps, AdoptFinishedKeeps, AdoptRecoveredKeeps,
       ResumeQuiesceKeeps, AnswerAbandonedKeeps DEF Recover
  <1>8. CASE UNCHANGED vars
    <2>1. UNCHANGED <<phase, entry, jobs, workers, overdue, journal, saga, cstate, row, result,
                      pane, wt, outbox, said>>
      BY <1>8 DEF vars, processVars, storeVars, hostVars
    <2>2. (\A d \in Children : SameChild(d)) /\ \A k \in LaunchKeys : SameLaunch(k)
      BY <2>1 DEF SameChild, SameLaunch
    <2> QED BY <1>0, <2>1, <2>2, NobodysStep
  <1> QED BY <1>1, <1>2, <1>3, <1>4, <1>5, <1>6, <1>7, <1>8 DEF Next, Advance

LEMMA OneAgentHolds == AgentInv => OneAgentPerWorktree
  <1> SUFFICES ASSUME AgentInv, NEW j \in LaunchKeys, NEW k \in LaunchKeys,
                      pane[j] = "running", pane[k] = "running", saga[j].child = saga[k].child
               PROVE  j = k
    BY DEF OneAgentPerWorktree
  <1> QED BY RunnerKnown

LEMMA RowsHold == AgentInv => AgentHasRows
  <1> SUFFICES ASSUME AgentInv, NEW k \in LaunchKeys, pane[k] = "running"
               PROVE  LET c == saga[k].child
                      IN  /\ c \in Children /\ Owned(c)
                          /\ row[c] = k
                          /\ saga[k].step \in {"released"} \cup FinalSteps
    BY DEF AgentHasRows
  <1> QED BY RunnerKnown DEF Owned

LEMMA WorktreesHold == AgentInv => AgentKeepsItsWorktree
  <1> SUFFICES ASSUME AgentInv, NEW k \in LaunchKeys, pane[k] = "running"
               PROVE  wt[saga[k].child] # "absent"
    BY DEF AgentKeepsItsWorktree
  <1> QED BY RunnerKnown

LEMMA VerdictsHold == AgentInv => VerdictIsTrue
  BY DEF AgentInv, ChildAgrees, VerdictAgrees, VerdictIsTrue, Launches, NoneRuns

\* Rows, jobs, panes and worktrees agree in every state, across crashes,
\* quick restarts, late workers and a multiplexer that dies, as long as the
\* multiplexer kills what it is told to kill and knows the panes it is asked
\* about.
THEOREM AgentInvariant ==
    ASSUME KillsWork
    PROVE  Spec => []AgentInv
  <1>1. AgentInv /\ [Next]_vars => AgentInv'
    BY AgentStep
  <1> QED BY InitAgents, <1>1, PTL DEF Spec

\* Two agents never run in the worktree of one child: a resume stops the pane
\* the row names first, a launch that fails kills its own, and a restart
\* neither starts one nor forgets one.
THEOREM OneAgent ==
    ASSUME KillsWork
    PROVE  Spec => []OneAgentPerWorktree
  BY AgentInvariant, OneAgentHolds, PTL

\* An agent only runs for a child that has its ownership and session rows, the
\* row names the agent's pane, and the saga is past its one transaction: the
\* gate of S8 is opened last, and what undoes a launch ends its agent first.
THEOREM AgentsHaveRows ==
    ASSUME KillsWork
    PROVE  Spec => []AgentHasRows
  BY AgentInvariant, RowsHold, PTL

\* No agent runs in a worktree that was removed: reclaiming one is left to a
\* create whose pane is gone, or was never released.
THEOREM AgentsKeepWorktrees ==
    ASSUME KillsWork
    PROVE  Spec => []AgentKeepsItsWorktree
  BY AgentInvariant, WorktreesHold, PTL

\* What a quiesce recorded of a worktree stays true while the child is `done'
\* or `stopped': nobody runs there any more, and `done' was the child's own word.
THEOREM VerdictsAreTrue ==
    ASSUME KillsWork
    PROVE  Spec => []VerdictIsTrue
  BY AgentInvariant, VerdictsHold, PTL

-----------------------------------------------------------------------------
(* Slots *)

\* One process that never dies, and children that answer when they are nudged.
OneLife == MaxCrashes = 0 /\ NudgesGiveUp = FALSE

\* A child in a live state holds a slot, and so does a first launch before S6.
Holds(c) ==
    \/ cstate[c] \in LiveStates
    \/ cstate[c] = "none" /\ saga[c].step \in PendingSteps

Holders == {c \in Children : Holds(c)}

\* Whatever is done for a child is done for one that holds a slot.
JobHolds(c) ==
    LET j == jobs[c]
    IN  /\ Launching(c) => saga[j.key].step # "none"
        /\ j.goal = "create" => /\ j.key = c /\ Holds(c)
                                /\ j.step \in LateSteps => cstate[c] \in LiveStates
        /\ j.goal = "resume" => j.key \in ResumeKeys /\ cstate[c] \in LiveStates
        /\ Quiescing(c) => cstate[c] \in LiveStates
        /\ entry[c] # "none" => cstate[c] \in LiveStates

\* A launch that has no child yet is the create of that child.
SagaOwned(k) ==
    saga[k].step # "none" =>
        /\ k \in CreateKeys => saga[k].child = k
        /\ k \in ResumeKeys => saga[k].child \in Children /\ cstate[saga[k].child] # "none"

LiveInv ==
    /\ TypeOK /\ NoTrace /\ phase = "serving"
    /\ \A k \in LaunchKeys : SagaOwned(k)
    /\ \A c \in Children : JobHolds(c)
    /\ \A c \in overdue : cstate[c] # "none"

\* A step that gives nobody a slot.
KeepsSlots == LiveInv' /\ Holders' \subseteq Holders /\ overdue' \subseteq overdue

\* A step that gives child c a slot, if it had none.
GivesSlot(c) ==
    /\ LiveInv' /\ Holders' \subseteq Holders \cup {c} /\ overdue' \subseteq overdue
    /\ c \in Holders => Holders' \subseteq Holders

CapInv ==
    /\ LiveInv /\ overdue = {}
    /\ IsFiniteSet(Holders) /\ Cardinality(Holders) <= MaxChildren

\* What SlotCap counts are the holders, each once.
LEMMA ReservedAreHolders ==
    ASSUME TypeOK, IsFiniteSet(Holders), \A k \in LaunchKeys : SagaOwned(k)
    PROVE  ReservedSlots = Cardinality(Holders)
  <1> DEFINE S == {c \in Children : cstate[c] \in LiveStates}
             T == {k \in LaunchKeys : saga[k].step \in PendingSteps /\ cstate[saga[k].child] = "none"}
  <1>1. Holders = S \cup T
    <2>1. ASSUME NEW k \in T
          PROVE  k \in Children /\ saga[k].child = k
      BY <2>1, KeySets DEF SagaOwned, PendingSteps, LaunchKeys
    <2>2. ASSUME NEW c \in Children, cstate[c] = "none", saga[c].step \in PendingSteps
          PROVE  c \in T
      BY <2>2, KeySets DEF SagaOwned, PendingSteps
    <2> QED BY <2>1, <2>2 DEF Holders, Holds
  <1>2. S \cap T = {}
    <2>1. ASSUME NEW k \in T
          PROVE  cstate[k] = "none"
      BY <2>1, KeySets DEF SagaOwned, PendingSteps, LaunchKeys
    <2> QED BY <2>1 DEF LiveStates
  <1>3. IsFiniteSet(S) /\ IsFiniteSet(T)
    BY <1>1, FS_Subset
  <1>4. Cardinality(S \cup T) = Cardinality(S) + Cardinality(T) - Cardinality(S \cap T)
    BY <1>3, FS_Union
  <1>5. Cardinality(S \cap T) = 0 /\ Cardinality(S) \in Nat /\ Cardinality(T) \in Nat
    BY <1>2, <1>3, FS_EmptySet, FS_CardinalityType
  <1>6. ReservedSlots = Cardinality(S) + Cardinality(T)
    BY DEF ReservedSlots
  <1> HIDE DEF S, T
  <1> QED BY <1>1, <1>4, <1>5, <1>6

\* What there is to show of a step about child c.
LEMMA LiveKept ==
    ASSUME LiveInv, TypeOK', NoTrace', phase' = phase, NEW c \in Children,
           \A d \in Children : d # c =>
              /\ jobs'[d] = jobs[d] /\ entry'[d] = entry[d] /\ cstate'[d] = cstate[d]
              /\ saga'[d].step = saga[d].step,
           overdue' \subseteq overdue,
           cstate[c] # "none" => cstate'[c] # "none",
           \A k \in LaunchKeys :
              \/ SagaOwned(k)' /\ saga'[k].step # "none"
              \/ saga'[k].child = saga[k].child /\ (saga'[k].step = "none" <=> saga[k].step = "none"),
           JobHolds(c)'
    PROVE  GivesSlot(c) /\ ((Holds(c)' => Holds(c)) => KeepsSlots)
  <1>1. TypeOK
    BY DEF LiveInv
  <1>2. \A d \in Children : d # c => Holds(d)' = Holds(d)
    BY DEF Holds
  <1>3. /\ Holders' \subseteq Holders \cup {c} /\ (Holds(c) => Holders' \subseteq Holders)
        /\ (Holds(c)' => Holds(c)) => Holders' \subseteq Holders
        /\ c \in Holders => Holds(c)
    BY <1>2 DEF Holders
  <1>4. ASSUME NEW k \in LaunchKeys
        PROVE  SagaOwned(k)'
    BY DEF LiveInv, SagaOwned
  <1>5. ASSUME NEW d \in Children, d # c
        PROVE  JobHolds(d)'
    <2>1. Launching(d) => jobs[d].key \in LaunchKeys
      BY <1>1, JobKinds, LaunchFields
    <2> QED BY <1>5, <2>1 DEF LiveInv, JobHolds, Launching, Quiescing, Holds
  <1>6. \A d \in overdue' : cstate'[d] # "none"
    BY <1>1 DEF LiveInv, TypeOK
  <1>7. LiveInv'
    BY <1>4, <1>5, <1>6 DEF LiveInv
  <1> QED BY <1>3, <1>7 DEF KeepsSlots, GivesSlot

\* A step that leaves every job at its step.
LEMMA LiveSame ==
    ASSUME LiveInv, TypeOK', NoTrace', phase' = phase, overdue' \subseteq overdue,
           \A d \in Children :
              /\ entry'[d] = entry[d] /\ cstate'[d] = cstate[d]
              /\ jobs'[d].goal = jobs[d].goal /\ jobs'[d].key = jobs[d].key
              /\ jobs'[d].step = jobs[d].step,
           \A k \in LaunchKeys : saga'[k].child = saga[k].child /\ saga'[k].step = saga[k].step
    PROVE  KeepsSlots
  <1>1. TypeOK /\ \A d \in Children : d \in LaunchKeys
    BY KeySets DEF LiveInv
  <1>2. \A d \in Children : Holds(d)' = Holds(d)
    BY <1>1 DEF Holds
  <1>3. Holders' = Holders
    BY <1>2 DEF Holders
  <1>4. ASSUME NEW k \in LaunchKeys
        PROVE  SagaOwned(k)'
    BY DEF LiveInv, SagaOwned
  <1>5. ASSUME NEW d \in Children
        PROVE  JobHolds(d)'
    <2>1. Launching(d) => jobs[d].key \in LaunchKeys
      BY <1>1, JobKinds, LaunchFields
    <2> QED BY <1>2, <2>1 DEF LiveInv, JobHolds, Launching, Quiescing
  <1>6. \A d \in overdue' : cstate'[d] # "none"
    BY <1>1 DEF LiveInv, TypeOK
  <1> QED BY <1>3, <1>4, <1>5, <1>6 DEF LiveInv, KeepsSlots

LEMMA LiveLaunch ==
    ASSUME LiveInv, NEW c \in Children, Launching(c) \/ jobs[c].step \in LaunchSteps
    PROVE  /\ Launching(c) /\ jobs[c] \in LaunchJobs /\ jobs[c].key \in LaunchKeys
           /\ jobs[c].step # "none" /\ Holds(c) /\ saga[jobs[c].key].step # "none"
           /\ \A d \in Children : d # c => d # jobs[c].key
           /\ jobs[c].goal = "create" => jobs[c].key = c
           /\ jobs[c].goal = "resume" => jobs[c].key # c /\ cstate[c] \in LiveStates
  <1>1. TypeOK /\ JobHolds(c)
    BY DEF LiveInv
  <1>2. jobs[c] \in LaunchJobs
    BY <1>1, JobKinds
  <1>3. Launching(c) /\ jobs[c].key \in LaunchKeys /\ jobs[c].step # "none"
        /\ jobs[c].goal \in {"create", "resume"}
    BY <1>2 DEF LaunchJobs, Launching, LaunchSteps
  <1>4. \A d \in Children : d \notin ResumeKeys
    BY KeySets, KeysAssumption
  <1> QED BY <1>1, <1>2, <1>3, <1>4 DEF JobHolds, Holds

\* A launch goes on: it has a slot already, as a create or as its child.
LEMMA LaunchLives ==
    ASSUME LiveInv, TypeOK', NoTrace', NEW c \in Children, jobs[c].step \in LaunchSteps,
           NEW s, Move(c, s), Wrote(jobs[c].key), saga'[jobs[c].key].step # "none",
           phase' = phase, overdue' \subseteq overdue,
           \A d \in Children : d # c => cstate'[d] = cstate[d] /\ entry'[d] = entry[d],
           \/ /\ cstate'[c] = cstate[c] /\ entry'[c] = entry[c]
              /\ \/ jobs[c].step \in LateSteps
                 \/ s \notin LateSteps /\ (saga'[jobs[c].key].step = saga[jobs[c].key].step
                                           \/ saga'[jobs[c].key].step \in PendingSteps)
           \/ cstate'[c] \in LiveStates
    PROVE  KeepsSlots
  <1> DEFINE k == jobs[c].key
  <1>1. /\ Launching(c) /\ k \in LaunchKeys /\ jobs[c].step # "none" /\ Holds(c)
        /\ saga[k].step # "none" /\ jobs[c].goal \in {"create", "resume"}
        /\ \A d \in Children : d # c => d # k
        /\ jobs[c].goal = "create" => k = c
        /\ jobs[c].goal = "resume" => k # c /\ cstate[c] \in LiveStates
        /\ JobHolds(c) /\ TypeOK
    BY LiveLaunch DEF LiveInv, Launching
  <1>2. /\ jobs'[c].goal = jobs[c].goal /\ jobs'[c].key = k /\ jobs'[c].step = s
        /\ \A d \in Children : d # c => jobs'[d] = jobs[d]
    BY <1>1, MoveDoes
  <1>3. \A i \in LaunchKeys : /\ saga'[i].child = saga[i].child
                              /\ saga'[i].step = "none" <=> saga[i].step = "none"
                              /\ i # k => saga'[i].step = saga[i].step
    BY <1>1 DEF Wrote
  <1>4. "none" \notin LiveStates
    BY DEF LiveStates
  <1>5. Holds(c)' /\ (s \in LateSteps /\ jobs[c].goal = "create" => cstate'[c] \in LiveStates)
        /\ (jobs[c].goal = "resume" => cstate'[c] \in LiveStates)
    BY <1>1, <1>4 DEF Holds, JobHolds
  <1>6. JobHolds(c)'
    <2>1. jobs'[c].goal = "create" => jobs'[c].key = c
      BY <1>1, <1>2
    <2>2. jobs'[c].goal = "resume" => jobs'[c].key \in ResumeKeys
      BY <1>1, <1>2 DEF JobHolds
    <2>3. entry'[c] # "none" => cstate'[c] \in LiveStates
      BY <1>1 DEF JobHolds
    <2>4. ~Quiescing(c)'
      BY <1>1, <1>2 DEF Quiescing
    <2> QED BY <1>1, <1>2, <1>5, <2>1, <2>2, <2>3, <2>4 DEF JobHolds
  <1>7. \A d \in Children : d # c => saga'[d].step = saga[d].step
    BY <1>1, <1>3, KeySets
  <1>8. cstate[c] # "none" => cstate'[c] # "none"
    BY <1>4
  <1> QED BY <1>1, <1>2, <1>3, <1>6, <1>7, <1>8, LiveKept

\* The steps of a launch up to the report of its agent.
LEMMA LaunchStepLives ==
    ASSUME LiveInv, TypeOK', NoTrace', NEW c \in Children,
           StartWorktree(c) \/ ReuseWorktree(c) \/ TakeWorktree(c) \/ MintDirs(c)
           \/ StartPane(c) \/ TakePane(c) \/ Commit(c) \/ AwaitEgress(c) \/ ReleaseGate(c)
    PROVE  KeepsSlots
  <1> DEFINE k == jobs[c].key
  <1>1. jobs[c].step \in LaunchSteps
    BY DEF StartWorktree, ReuseWorktree, TakeWorktree, MintDirs, StartPane, TakePane, Commit,
           AwaitEgress, ReleaseGate, At, LaunchSteps
  <1>2. TypeOK /\ k \in LaunchKeys /\ saga[k].step # "none"
    BY <1>1, LiveLaunch DEF LiveInv
  <1>3. phase' = phase /\ overdue' \subseteq overdue
    BY DEF StartWorktree, ReuseWorktree, TakeWorktree, MintDirs, StartPane, TakePane, Commit,
           AwaitEgress, ReleaseGate
  <1>4. CASE StartWorktree(c) \/ MintDirs(c) \/ StartPane(c)
    <2>1. \/ Record(k, "worktree") /\ Move(c, "worktree_running")
          \/ Record(k, "dirs") /\ Move(c, "dirs")
          \/ Record(k, "pane") /\ Move(c, "pane_running")
      BY <1>4 DEF StartWorktree, MintDirs, StartPane
    <2>2. UNCHANGED <<entry, cstate>>
      BY <1>4 DEF StartWorktree, MintDirs, StartPane
    <2>3. Wrote(k) /\ saga'[k].step \in PendingSteps
      BY <1>2, <2>1, RecordWrites DEF PendingSteps
    <2>4. \E s : Move(c, s) /\ s \notin LateSteps
      BY <2>1 DEF LateSteps
    <2> QED BY <1>1, <1>3, <2>2, <2>3, <2>4, LaunchLives DEF PendingSteps
  <1>5. CASE ReuseWorktree(c) \/ TakeWorktree(c) \/ TakePane(c)
    <2>1. /\ \/ saga' = saga
             \/ saga' = [saga EXCEPT ![k].claimed = TRUE, ![k].leased = TRUE]
             \/ saga' = [saga EXCEPT ![k].mux = TRUE, ![k].leased = TRUE]
          /\ (Move(c, "worktree") \/ Move(c, "pane"))
          /\ UNCHANGED <<entry, cstate>>
      BY <1>5 DEF ReuseWorktree, TakeWorktree, TakePane, storeVars
    <2>2. saga' = saga => Wrote(k) /\ saga'[k].step = saga[k].step
      BY DEF Wrote
    <2>3. Wrote(k) /\ saga'[k].step = saga[k].step
      BY <1>2, <2>1, <2>2, TakeWrites
    <2>4. \E s : Move(c, s) /\ s \notin LateSteps
      BY <2>1 DEF LateSteps
    <2> QED BY <1>1, <1>2, <1>3, <2>1, <2>3, <2>4, LaunchLives
  <1>6. CASE Commit(c)
    <2>1. /\ Record(k, "committed") /\ Move(c, "committed")
          /\ cstate' = [cstate EXCEPT ![c] = "starting"] /\ entry' = [entry EXCEPT ![c] = "live"]
      BY <1>6 DEF Commit
    <2>2. Wrote(k) /\ saga'[k].step = "committed"
      BY <1>2, <2>1, RecordWrites
    <2>3. cstate'[c] \in LiveStates
          /\ \A d \in Children : d # c => cstate'[d] = cstate[d] /\ entry'[d] = entry[d]
      BY <1>2, <2>1 DEF TypeOK, LiveStates
    <2> QED BY <1>1, <1>3, <2>1, <2>2, <2>3, LaunchLives
  <1>7. CASE AwaitEgress(c) \/ ReleaseGate(c)
    <2>1. \/ Record(k, "egress_live") /\ Move(c, "egress_live")
          \/ Record(k, "released") /\ Move(c, "released")
      BY <1>7 DEF AwaitEgress, ReleaseGate
    <2>2. jobs[c].step \in LateSteps /\ UNCHANGED <<entry, cstate>>
      BY <1>7 DEF AwaitEgress, ReleaseGate, At, LateSteps
    <2>3. Wrote(k) /\ saga'[k].step # "none"
      BY <1>2, <2>1, RecordWrites
    <2> QED BY <1>1, <1>3, <2>1, <2>2, <2>3, LaunchLives
  <1> QED BY <1>4, <1>5, <1>6, <1>7

\* What a launch leaves is a quiesce of a live child, or nothing.
LEMMA EndLaunchHolds ==
    ASSUME TypeOK, NEW c \in Children, Launching(c), NEW s, NEW a, EndLaunch(c, s, a)
    PROVE  /\ jobs'[c].goal \in {"none", "stop", "finish"}
           /\ s \in LiveStates => cstate'[c] \in LiveStates
           /\ s \notin LiveStates => jobs'[c] = Idle /\ cstate'[c] = s
           /\ \A d \in Children : d # c => jobs'[d] = jobs[d] /\ cstate'[d] = cstate[d]
  <1> DEFINE j == jobs[c]
             next == HeldJob(c, s)
             f == FinishJob(j.intent, j.stops)
             g == [StopJob(j.stops) EXCEPT !.step = IF j.intent = "none" THEN "grace" ELSE "acked"]
  <1>1. /\ jobs'[c] = next /\ cstate'[c] = (IF next.step = "acked" THEN "finishing" ELSE s)
        /\ \A d \in Children : d # c => jobs'[d] = jobs[d] /\ cstate'[d] = cstate[d]
    BY DEF EndLaunch, TypeOK
  <1>2. next \in {Idle, f, g} /\ (s \notin LiveStates => next = Idle)
    BY DEF HeldJob
  <1>3. Idle.goal = "none" /\ Idle.step = "none" /\ f.goal = "finish" /\ g.goal = "stop"
    BY DEF Idle, FinishJob, StopJob
  <1>4. "finishing" \in LiveStates
    BY DEF LiveStates
  <1> HIDE DEF next, f, g
  <1> QED BY <1>1, <1>2, <1>3, <1>4

\* A step about a child in a live state that starts no launch.
LEMMA StaysLive ==
    ASSUME LiveInv, TypeOK', NoTrace', phase' = phase, overdue' \subseteq overdue, NEW c \in Children,
           Holds(c), cstate[c] # "none" => cstate'[c] # "none",
           \A d \in Children : d # c =>
              jobs'[d] = jobs[d] /\ entry'[d] = entry[d] /\ cstate'[d] = cstate[d],
           jobs'[c].goal \in {"none", "stop", "finish"},
           cstate'[c] \in LiveStates \/ (jobs'[c].goal = "none" /\ entry'[c] = "none"),
           \A k \in LaunchKeys : /\ saga'[k].child = saga[k].child
                                 /\ saga'[k].step = "none" <=> saga[k].step = "none",
           \A d \in Children : d # c => saga'[d].step = saga[d].step
    PROVE  KeepsSlots
  <1>1. JobHolds(c)'
    BY DEF JobHolds, Launching, Quiescing
  <1> QED BY <1>1, LiveKept

LEMMA LaunchEndLives ==
    ASSUME LiveInv, TypeOK', NoTrace', NEW c \in Children, AwaitReady(c) \/ FailLaunch(c)
    PROVE  KeepsSlots
  <1> DEFINE k == jobs[c].key
  <1>1. Launching(c) \/ jobs[c].step \in LaunchSteps
    BY DEF AwaitReady, FailLaunch, At, LaunchSteps
  <1>2. /\ Launching(c) /\ k \in LaunchKeys /\ Holds(c) /\ saga[k].step # "none" /\ TypeOK
        /\ \A d \in Children : d # c => d # k
    BY <1>1, LiveLaunch DEF LiveInv
  <1>3. phase' = phase /\ overdue' \subseteq overdue
    BY DEF AwaitReady, FailLaunch, LiveInv
  <1>4. CASE AwaitReady(c)
    <2>1. Record(k, "done") /\ EndLaunch(c, "ready", "ok") /\ entry' = entry
      BY <1>4 DEF AwaitReady
    <2>2. Wrote(k) /\ saga'[k].step = "done"
      BY <1>2, <2>1, RecordWrites
    <2>3. /\ jobs'[c].goal \in {"none", "stop", "finish"} /\ cstate'[c] \in LiveStates
          /\ \A d \in Children : d # c => jobs'[d] = jobs[d] /\ cstate'[d] = cstate[d]
      BY <1>2, <2>1, EndLaunchHolds DEF LiveStates
    <2>4. cstate'[c] # "none"
      BY <2>3 DEF LiveStates
    <2>5. \A i \in LaunchKeys : /\ saga'[i].child = saga[i].child
                                /\ saga'[i].step = "none" <=> saga[i].step = "none"
      BY <1>2, <2>2 DEF Wrote
    <2>6. \A d \in Children : d # c => saga'[d].step = saga[d].step
      BY <1>2, <2>2, KeySets DEF Wrote
    <2> QED BY <1>2, <1>3, <2>1, <2>3, <2>4, <2>5, <2>6, StaysLive
  <1>5. CASE FailLaunch(c)
    <2> DEFINE s == IF Owned(c) THEN "failed" ELSE "none"
    <2>1. /\ \E m : saga' = [saga EXCEPT ![k].step = "failed", ![k].claimed = m, ![k].leased = TRUE]
          /\ EndLaunch(c, s, "refused") /\ entry' = [entry EXCEPT ![c] = "none"]
      BY <1>5 DEF FailLaunch
    <2>2. Wrote(k) /\ saga'[k].step = "failed"
      BY <1>2, <2>1, FailWrites
    <2>3. s \notin LiveStates /\ (cstate[c] # "none" => s # "none")
      BY DEF LiveStates, Owned
    <2> HIDE DEF s
    <2>4. /\ jobs'[c] = Idle /\ cstate'[c] = s
          /\ \A d \in Children : d # c => jobs'[d] = jobs[d] /\ cstate'[d] = cstate[d]
      BY <1>2, <2>1, <2>3, EndLaunchHolds
    <2>5. entry'[c] = "none" /\ \A d \in Children : d # c => entry'[d] = entry[d]
      BY <1>2, <2>1 DEF TypeOK
    <2>6. \A i \in LaunchKeys : /\ saga'[i].child = saga[i].child
                                /\ saga'[i].step = "none" <=> saga[i].step = "none"
      BY <1>2, <2>2 DEF Wrote
    <2>7. \A d \in Children : d # c => saga'[d].step = saga[d].step
      BY <1>2, <2>2, KeySets DEF Wrote
    <2>8. jobs'[c].goal = "none"
      BY <2>4 DEF Idle
    <2> QED BY <1>2, <1>3, <2>3, <2>4, <2>5, <2>6, <2>7, <2>8, StaysLive
  <1> QED BY <1>4, <1>5

\* A quiesce is of a child that has not released its slot.
LEMMA LiveQuiesce ==
    ASSUME LiveInv, NEW c \in Children, Quiescing(c) \/ jobs[c].step \in QuiesceSteps
    PROVE  /\ Quiescing(c) /\ jobs[c] \in QuiesceJobs /\ jobs[c].step # "none"
           /\ jobs[c].goal \in {"stop", "finish"} /\ cstate[c] \in LiveStates /\ Holds(c)
           /\ JobHolds(c) /\ TypeOK
  <1>1. TypeOK /\ JobHolds(c)
    BY DEF LiveInv
  <1>2. jobs[c] \in QuiesceJobs
    BY <1>1, JobKinds
  <1>3. Quiescing(c) /\ jobs[c].step # "none" /\ jobs[c].goal \in {"stop", "finish"}
    BY <1>2 DEF QuiesceJobs, QuiesceSteps, Quiescing
  <1> QED BY <1>1, <1>2, <1>3 DEF JobHolds, Holds

LEMMA QuiesceLives ==
    ASSUME LiveInv, TypeOK', NoTrace', NEW c \in Children, Quiesce(c) \/ EndGrace(c)
    PROVE  KeepsSlots
  <1>1. jobs[c].step \in QuiesceSteps
    BY DEF Quiesce, EndGrace, GraceExpires, StopPane, StopFails, VerifyWorktree, DecideOutcome,
           DecideUnrecorded, QuiesceLost, At, QuiesceSteps
  <1>2. /\ Quiescing(c) /\ jobs[c] \in QuiesceJobs /\ jobs[c].step # "none" /\ TypeOK
        /\ jobs[c].goal \in {"stop", "finish"} /\ cstate[c] \in LiveStates /\ Holds(c)
    BY <1>1, LiveQuiesce
  <1>3. /\ phase' = phase /\ overdue' \subseteq overdue /\ saga' = saga
    BY DEF Quiesce, EndGrace, GraceExpires, StopPane, StopFails, VerifyWorktree, DecideOutcome,
           DecideUnrecorded, QuiesceLost, TakeResult, storeVars, LiveInv
  <1>4. CASE GraceExpires(c) \/ EndGrace(c)
    <2>1. Move(c, "acked") /\ cstate' = [cstate EXCEPT ![c] = "finishing"] /\ entry' = entry
      BY <1>4 DEF GraceExpires, EndGrace
    <2>2. /\ jobs'[c].goal = jobs[c].goal
          /\ \A d \in Children : d # c => jobs'[d] = jobs[d] /\ cstate'[d] = cstate[d]
          /\ cstate'[c] = "finishing"
      BY <1>2, <2>1, MoveDoes DEF TypeOK
    <2> QED BY <1>2, <1>3, <2>1, <2>2, StaysLive DEF LiveStates
  <1>5. CASE StopPane(c)
    <2>1. Move(c, "verify_running") /\ cstate' = cstate /\ entry' = entry
      BY <1>5 DEF StopPane, storeVars
    <2>2. /\ jobs'[c].goal = jobs[c].goal /\ \A d \in Children : d # c => jobs'[d] = jobs[d]
      BY <1>2, <2>1, MoveDoes
    <2> QED BY <1>2, <1>3, <2>1, <2>2, StaysLive DEF LiveStates
  <1>6. CASE VerifyWorktree(c)
    <2> DEFINE r == IF wt[c] = "clean" THEN "clean" ELSE "dirty"
               h == [jobs[c] EXCEPT !.res = r]
    <2>1. jobs' = [jobs EXCEPT ![c].res = r] /\ cstate' = cstate /\ entry' = entry
      BY <1>6 DEF VerifyWorktree, storeVars
    <2>2. jobs'[c] = h /\ \A d \in Children : d # c => jobs'[d] = jobs[d]
      BY <1>2, <2>1 DEF TypeOK
    <2>3. h.goal = jobs[c].goal
      BY <1>2, JobWrites
    <2> HIDE DEF r, h
    <2> QED BY <1>2, <1>3, <2>1, <2>2, <2>3, StaysLive DEF LiveStates
  <1>7. CASE StopFails(c) \/ DecideUnrecorded(c) \/ QuiesceLost(c)
    <2>1. /\ EndQuiesce(c, "refused") /\ entry' = entry
          /\ cstate' = cstate \/ cstate' = [cstate EXCEPT ![c] = "stop_failed"]
      BY <1>7 DEF StopFails, DecideUnrecorded, QuiesceLost
    <2>2. jobs'[c].goal = "none" /\ \A d \in Children : d # c => jobs'[d] = jobs[d]
      BY <1>2, <2>1, EndQuiesceDoes DEF Idle
    <2>3. cstate'[c] \in LiveStates /\ \A d \in Children : d # c => cstate'[d] = cstate[d]
      BY <1>2, <2>1 DEF TypeOK, LiveStates
    <2> QED BY <1>2, <1>3, <2>1, <2>2, <2>3, StaysLive DEF LiveStates
  <1>8. CASE DecideOutcome(c)
    <2> DEFINE s == IF Verdict(c).dirty THEN "dirty" ELSE jobs[c].clean
    <2>1. /\ EndQuiesce(c, "ok") /\ cstate' = [cstate EXCEPT ![c] = s]
          /\ entry' = [entry EXCEPT ![c] = IF s \in TerminalStates THEN "none" ELSE @]
      BY <1>8 DEF DecideOutcome
    <2>2. s \in TerminalStates \cup {"dirty"}
      BY <1>2, QuiesceFields
    <2> HIDE DEF s
    <2>3. jobs'[c].goal = "none" /\ \A d \in Children : d # c => jobs'[d] = jobs[d]
      BY <1>2, <2>1, EndQuiesceDoes DEF Idle
    <2>4. /\ cstate'[c] = s /\ (s \in TerminalStates => entry'[c] = "none")
          /\ \A d \in Children : d # c => cstate'[d] = cstate[d] /\ entry'[d] = entry[d]
      BY <1>2, <2>1 DEF TypeOK
    <2>5. "none" # s /\ (s \in LiveStates \/ s \in TerminalStates)
      BY <2>2 DEF LiveStates, TerminalStates
    <2> QED BY <1>2, <1>3, <2>3, <2>4, <2>5, StaysLive
  <1> QED BY <1>4, <1>5, <1>6, <1>7, <1>8 DEF Quiesce

\* The child's own result, whatever it is taken for.
LEMMA ResultLives ==
    ASSUME LiveInv, TypeOK', NoTrace', NEW c \in Children,
           StartFinish(c) \/ HoldIntent(c) \/ DropResult(c)
    PROVE  KeepsSlots
  <1>1. /\ phase' = phase /\ overdue' \subseteq overdue /\ entry' = entry /\ entry[c] # "none" /\ TypeOK
    BY DEF StartFinish, HoldIntent, DropResult, TakeResult, Served, LiveInv
  <1>2. CASE StartFinish(c)
    <2>1. /\ cstate' = [cstate EXCEPT ![c] = "finishing"] /\ saga' = saga
          /\ jobs' = [jobs EXCEPT ![c] = FinishJob(outbox[c], {})]
      BY <1>2 DEF StartFinish
    <2>2. /\ jobs'[c].goal = "finish" /\ cstate'[c] = "finishing"
          /\ \A d \in Children : d # c => jobs'[d] = jobs[d] /\ cstate'[d] = cstate[d]
      BY <1>1, <2>1 DEF TypeOK, FinishJob, Idle
    <2>3. Holds(c)
      BY <1>1 DEF LiveInv, JobHolds, Holds
    <2> QED BY <1>1, <2>1, <2>2, <2>3, StaysLive DEF LiveStates
  <1>3. CASE HoldIntent(c)
    <2> DEFINE b == (jobs[c].stops = {})
               h == [jobs[c] EXCEPT !.intent = outbox[c], !.first = b]
    <2>1. /\ Launching(c) /\ cstate' = cstate
          /\ jobs' = [jobs EXCEPT ![c].intent = outbox[c], ![c].first = b]
          /\ saga' = [saga EXCEPT ![jobs[c].key].outcome = outbox[c], ![jobs[c].key].leased = TRUE]
      BY <1>3 DEF HoldIntent
    <2>2. jobs[c].key \in LaunchKeys /\ jobs[c] \in LaunchJobs
      BY <2>1, LiveLaunch
    <2>3. Wrote(jobs[c].key) /\ saga'[jobs[c].key].step = saga[jobs[c].key].step
      BY <1>1, <2>1, <2>2, HoldWrites
    <2>4. jobs'[c] = h /\ \A d \in Children : d # c => jobs'[d] = jobs[d]
      BY <1>1, <2>1 DEF TypeOK
    <2>5. h.goal = jobs[c].goal /\ h.step = jobs[c].step /\ h.key = jobs[c].key
      BY <2>2, JobWrites
    <2> HIDE DEF b, h
    <2> QED BY <1>1, <2>1, <2>3, <2>4, <2>5, LiveSame DEF Wrote
  <1>4. CASE DropResult(c)
    <2>1. UNCHANGED <<jobs, cstate, saga>>
      BY <1>4 DEF DropResult, storeVars
    <2> QED BY <1>1, <2>1, LiveSame
  <1> QED BY <1>2, <1>3, <1>4

-----------------------------------------------------------------------------
(* Requests that need a slot *)

LEMMA JoinLives ==
    ASSUME LiveInv, TypeOK', NoTrace', NEW c \in Children, NEW k \in Keys,
           StopJoins(k, c) \/ ResumeJoins(k, c)
    PROVE  KeepsSlots
  <1>1. UNCHANGED <<phase, entry, overdue, saga, cstate>> /\ overdue' \subseteq overdue /\ TypeOK
    BY DEF StopJoins, ResumeJoins, LiveInv
  <1>2. \A d \in Children : /\ jobs'[d].goal = jobs[d].goal /\ jobs'[d].key = jobs[d].key
                            /\ jobs'[d].step = jobs[d].step
    BY <1>1, JoinDoes
  <1> QED BY <1>1, <1>2, LiveSame

LEMMA BeginStopLives ==
    ASSUME LiveInv, TypeOK', NoTrace', NEW c \in Children, NEW k \in StopKeys, BeginStop(k, c)
    PROVE  KeepsSlots
  <1>1. /\ UNCHANGED <<phase, entry, overdue, saga, cstate>> /\ overdue' \subseteq overdue /\ TypeOK
        /\ jobs' = [jobs EXCEPT ![c] = StopJob({k})]
        /\ cstate[c] \notin TerminalStates \cup {"none"}
    BY DEF BeginStop, LiveInv, Owned
  <1>2. cstate[c] \in LiveStates /\ Holds(c)
    BY <1>1 DEF TypeOK, ChildStates, Holds
  <1>3. jobs'[c].goal = "stop" /\ \A d \in Children : d # c => jobs'[d] = jobs[d]
    BY <1>1 DEF TypeOK, StopJob, Idle
  <1> QED BY <1>1, <1>2, <1>3, StaysLive

LEMMA BeginCreateLives ==
    ASSUME LiveInv, TypeOK', NoTrace', NEW c \in Children, BeginCreate(c)
    PROVE  GivesSlot(c) /\ ReservedSlots < MaxChildren
  <1>1. /\ journal[c] = "none" /\ ReservedSlots < MaxChildren
        /\ saga' = [saga EXCEPT ![c] = NewSaga(c)]
        /\ jobs' = [jobs EXCEPT ![c] = LaunchJob("create", c)]
        /\ UNCHANGED <<phase, entry, overdue, cstate>> /\ overdue' \subseteq overdue
    BY DEF BeginCreate, Fresh, LiveInv
  <1>2. TypeOK /\ c \in LaunchKeys /\ c \notin ResumeKeys
    BY KeySets, KeysAssumption DEF LiveInv
  <1>3. entry[c] = "none" /\ cstate[c] = "none"
    BY <1>1 DEF LiveInv, NoTrace
  <1>4. /\ saga'[c].step = "named" /\ saga'[c].child = c
        /\ \A i \in LaunchKeys : i # c => saga'[i] = saga[i]
    BY <1>1, <1>2, NewSagaFields DEF TypeOK
  <1>5. /\ jobs'[c].goal = "create" /\ jobs'[c].step = "named" /\ jobs'[c].key = c
        /\ \A d \in Children : d # c => jobs'[d] = jobs[d]
    <2>1. jobs'[c] = LaunchJob("create", c) /\ \A d \in Children : d # c => jobs'[d] = jobs[d]
      BY <1>1, <1>2 DEF TypeOK
    <2> QED BY <2>1, NewLaunch
  <1>6. JobHolds(c)'
    BY <1>1, <1>3, <1>4, <1>5
    DEF JobHolds, Holds, Launching, Quiescing, PendingSteps, LateSteps
  <1>7. SagaOwned(c)' /\ saga'[c].step # "none"
    BY <1>2, <1>4 DEF SagaOwned
  <1>8. \A d \in Children : d # c => saga'[d].step = saga[d].step
    BY <1>4, KeySets
  <1>9. \A i \in LaunchKeys : \/ SagaOwned(i)' /\ saga'[i].step # "none"
                              \/ saga'[i] = saga[i]
    BY <1>4, <1>7
  <1> QED BY <1>1, <1>3, <1>5, <1>6, <1>8, <1>9, LiveKept

LEMMA BeginResumeLives ==
    ASSUME LiveInv, TypeOK', NoTrace', NEW c \in Children, NEW k \in ResumeKeys, BeginResume(k, c)
    PROVE  GivesSlot(c) /\ (Holds(c) \/ ReservedSlots < MaxChildren)
  <1>1. /\ cstate[c] \in ResumableStates
        /\ cstate[c] \in LiveStates \/ ReservedSlots < MaxChildren
        /\ saga' = [saga EXCEPT ![k] = NewSaga(c)]
        /\ cstate' = [cstate EXCEPT ![c] = "starting"]
        /\ jobs' = [jobs EXCEPT ![c] = LaunchJob("resume", k)]
        /\ entry' = [entry EXCEPT ![c] = "none"]
        /\ UNCHANGED <<phase, overdue>> /\ overdue' \subseteq overdue
    BY DEF BeginResume, RetireForResume, LiveInv
  <1>2. TypeOK /\ k \in LaunchKeys /\ k \notin CreateKeys
    BY KeySets, KeysAssumption DEF LiveInv
  <1>3. ReservedSlots < MaxChildren \/ Holds(c)
    BY <1>1 DEF Holds
  <1>4. /\ saga'[k].step = "named" /\ saga'[k].child = c
        /\ \A i \in LaunchKeys : i # k => saga'[i] = saga[i]
    BY <1>1, <1>2, NewSagaFields DEF TypeOK
  <1>5. /\ jobs'[c].goal = "resume" /\ jobs'[c].step = "named" /\ jobs'[c].key = k
        /\ \A d \in Children : d # c => jobs'[d] = jobs[d]
    <2>1. jobs'[c] = LaunchJob("resume", k) /\ \A d \in Children : d # c => jobs'[d] = jobs[d]
      BY <1>1, <1>2 DEF TypeOK
    <2> QED BY <2>1, NewLaunch
  <1>6. /\ cstate'[c] = "starting" /\ entry'[c] = "none"
        /\ \A d \in Children : d # c => cstate'[d] = cstate[d] /\ entry'[d] = entry[d]
    BY <1>1, <1>2 DEF TypeOK
  <1>7. JobHolds(c)'
    BY <1>4, <1>5, <1>6 DEF JobHolds, Launching, Quiescing, LiveStates
  <1>8. SagaOwned(k)' /\ saga'[k].step # "none"
    BY <1>2, <1>4, <1>6 DEF SagaOwned
  <1>9. \A d \in Children : d # c => saga'[d].step = saga[d].step
    BY <1>2, <1>4, KeySets
  <1>10. \A i \in LaunchKeys : \/ SagaOwned(i)' /\ saga'[i].step # "none"
                               \/ saga'[i] = saga[i]
    BY <1>4, <1>8
  <1>11. cstate[c] # "none" => cstate'[c] # "none"
    BY <1>6
  <1> QED BY <1>1, <1>3, <1>5, <1>6, <1>7, <1>9, <1>10, <1>11, LiveKept

-----------------------------------------------------------------------------
(* The invariant, and what follows from it *)

\* Steps of the host, and answers, change nothing of what is counted.
LEMMA OtherLives ==
    ASSUME LiveInv, TypeOK', NoTrace', UNCHANGED <<phase, entry, overdue, jobs, cstate>>,
           \A i \in LaunchKeys : saga'[i].child = saga[i].child /\ saga'[i].step = saga[i].step
    PROVE  KeepsSlots
  BY LiveSame

\* An agent is nudged, or taken for stalled: never one that has no row yet.
LEMMA NudgeLives ==
    ASSUME LiveInv, TypeOK', NoTrace', NEW c \in Children, Nudge(c)
    PROVE  LiveInv' /\ (Holds(c) => Holders' \subseteq Holders)
  <1>1. UNCHANGED <<phase, entry, jobs, saga>> /\ TypeOK
    BY DEF Nudge, NudgesUnanswered, ReportStalled, storeVars, LiveInv
  <1>2. CASE NudgesUnanswered(c)
    <2>1. cstate' = cstate /\ overdue' = overdue \cup {c} /\ entry[c] # "none"
      BY <1>2 DEF NudgesUnanswered, Revalidates, storeVars
    <2>2. cstate[c] # "none"
      BY <2>1 DEF LiveInv, JobHolds, LiveStates
    <2>3. Holders' = Holders
      BY <1>1, <2>1 DEF Holders, Holds
    <2>4. \A d \in Children : JobHolds(d)'
      BY <1>1, <2>1 DEF LiveInv, JobHolds, Launching, Quiescing, Holds
    <2>5. \A k \in LaunchKeys : SagaOwned(k)'
      BY <1>1, <2>1 DEF LiveInv, SagaOwned
    <2> QED BY <1>1, <2>1, <2>2, <2>3, <2>4, <2>5 DEF LiveInv
  <1>3. CASE ReportStalled(c)
    <2>1. c \in overdue /\ cstate' = [cstate EXCEPT ![c] = "stalled"] /\ overdue' \subseteq overdue
      BY <1>3 DEF ReportStalled
    <2>2. cstate'[c] = "stalled" /\ \A d \in Children : d # c => cstate'[d] = cstate[d]
      BY <1>1, <2>1 DEF TypeOK
    <2>3. JobHolds(c)'
      BY <1>1, <2>2 DEF LiveInv, JobHolds, Launching, Quiescing, Holds, LiveStates
    <2>4. GivesSlot(c)
      BY <1>1, <2>1, <2>2, <2>3, LiveKept
    <2> QED BY <2>4 DEF GivesSlot, Holders
  <1> QED BY <1>2, <1>3 DEF Nudge

LEMMA WorkerLives ==
    ASSUME LiveInv, TypeOK', NoTrace', NEW k \in LaunchKeys, WorktreeWorker(k) \/ PaneWorker(k)
    PROVE  KeepsSlots
  <1>1. UNCHANGED <<phase, entry, overdue, cstate, saga>> /\ overdue' \subseteq overdue /\ TypeOK
    BY DEF WorktreeWorker, PaneWorker, storeVars, LiveInv
  <1>2. PICK step, r : Deliver(k, step, r)
    BY DEF WorktreeWorker, PaneWorker
  <1>3. \A d \in Children : /\ jobs'[d].goal = jobs[d].goal /\ jobs'[d].key = jobs[d].key
                            /\ jobs'[d].step = jobs[d].step
    BY <1>1, <1>2, DeliverDoes
  <1> QED BY <1>1, <1>3, LiveSame

\* While the process lives, a step gives nobody a slot, or it is a request
\* that was looked at for one, or the report that a child stalled.
LEMMA LiveStep ==
    ASSUME MaxCrashes = 0, LiveInv, [Next]_vars
    PROVE  \/ KeepsSlots
           \/ \E c \in Children : /\ GivesSlot(c)
                                  /\ Holds(c) \/ ReservedSlots < MaxChildren
           \/ LiveInv' /\ \E c \in Children : Nudge(c)
  <1>0. TypeOK /\ TypeOK' /\ NoTrace' /\ phase = "serving"
    BY TypesStep, NoTraceStep DEF LiveInv
  <1>1. CASE Owner
    <2>1. ASSUME NEW k \in Keys, RefuseRequest(k)
          PROVE  KeepsSlots
      BY <1>0, <2>1, OtherLives DEF RefuseRequest, processVars
    <2>2. ASSUME NEW c \in Children, BeginCreate(c)
          PROVE  GivesSlot(c) /\ ReservedSlots < MaxChildren
      BY <1>0, <2>2, BeginCreateLives
    <2>3. ASSUME NEW c \in Children, NEW k \in StopKeys, StopAnswered(k, c)
          PROVE  KeepsSlots
      BY <1>0, <2>3, OtherLives DEF StopAnswered, processVars
    <2>4. ASSUME NEW c \in Children, NEW k \in StopKeys, StopJoins(k, c) \/ BeginStop(k, c)
          PROVE  KeepsSlots
      BY <1>0, <2>4, KeySets, JoinLives, BeginStopLives
    <2>5. ASSUME NEW c \in Children, NEW k \in ResumeKeys, ResumeJoins(k, c) \/ BeginResume(k, c)
          PROVE  KeepsSlots \/ (GivesSlot(c) /\ (Holds(c) \/ ReservedSlots < MaxChildren))
      BY <1>0, <2>5, KeySets, JoinLives, BeginResumeLives
    <2> QED BY <1>1, <2>1, <2>2, <2>3, <2>4, <2>5 DEF Owner
  <1>2. ASSUME NEW c \in Children, Advance(c)
        PROVE  KeepsSlots
    BY <1>0, <1>2, LaunchStepLives, LaunchEndLives, QuiesceLives DEF Advance, Launch
  <1>3. ASSUME NEW c \in Children, ServeResult(c)
        PROVE  KeepsSlots
    BY <1>0, <1>3, QuiesceLives, ResultLives DEF ServeResult
  <1>4. ASSUME NEW c \in Children, Nudge(c)
        PROVE  LiveInv'
    BY <1>0, <1>4, NudgeLives
  <1>5. ASSUME NEW k \in LaunchKeys, WorktreeWorker(k) \/ PaneWorker(k)
        PROVE  KeepsSlots
    BY <1>0, <1>5, WorkerLives
  <1>6. ASSUME NEW k \in LaunchKeys, Agent(k)
        PROVE  KeepsSlots
    BY <1>0, <1>6, OtherLives
    DEF Agent, Report, Work, PaneExits, SendResult, processVars, storeVars
  <1>7. ASSUME NEW k \in LaunchKeys, LeaseExpires(k)
        PROVE  KeepsSlots
    BY <1>0, <1>7, LeaseWrites, OtherLives DEF LeaseExpires, processVars
  <1>8. CASE MuxDies \/ UNCHANGED vars
    BY <1>0, <1>8, OtherLives DEF MuxDies, vars, processVars, storeVars
  <1>9. ~Crash /\ ~Start /\ ~Recover
    <2>1. crashes = 0
      BY <1>0 DEF TypeOK
    <2> QED BY <1>0, <2>1
            DEF Crash, Start, Recover, ReconcilePending, AdoptFinished, AdoptRecovered,
                ResumeQuiesce, AnswerAbandoned
  <1> QED BY <1>1, <1>2, <1>3, <1>4, <1>5, <1>6, <1>7, <1>8, <1>9 DEF Next

LEMMA LiveInvStep == MaxCrashes = 0 /\ LiveInv /\ [Next]_vars => LiveInv'
  BY LiveStep DEF KeepsSlots, GivesSlot

LEMMA InitLive == Init => LiveInv /\ Holders = {} /\ overdue = {}
  <1> SUFFICES ASSUME Init
               PROVE  LiveInv /\ Holders = {} /\ overdue = {}
    OBVIOUS
  <1>1. TypeOK /\ NoTrace /\ phase = "serving" /\ overdue = {}
    BY InitTypes, InitCarried DEF CarriedInv, Init
  <1>2. \A k \in LaunchKeys : saga[k].step = "none"
    BY DEF Init, NoSaga
  <1>3. \A c \in Children : jobs[c] = Idle /\ cstate[c] = "none" /\ entry[c] = "none"
    BY DEF Init
  <1>4. (\A k \in LaunchKeys : SagaOwned(k)) /\ \A c \in Children : JobHolds(c)
    BY <1>2, <1>3 DEF SagaOwned, JobHolds, Launching, Quiescing, Idle
  <1>5. Holders = {}
    BY <1>2, <1>3, KeySets DEF Holders, Holds, LiveStates, PendingSteps
  <1> QED BY <1>1, <1>4, <1>5 DEF LiveInv

\* One more holder, where one more fits.
LEMMA SlotGiven ==
    ASSUME CapInv, NEW c \in Children, GivesSlot(c), Holds(c) \/ ReservedSlots < MaxChildren
    PROVE  IsFiniteSet(Holders') /\ Cardinality(Holders') <= MaxChildren
  <1>1. TypeOK /\ IsFiniteSet(Holders) /\ Cardinality(Holders) <= MaxChildren
        /\ MaxChildren \in Nat /\ Cardinality(Holders) \in Nat
    BY BoundsAssumption, FS_CardinalityType DEF CapInv, LiveInv
  <1>2. ReservedSlots = Cardinality(Holders)
    BY <1>1, ReservedAreHolders DEF CapInv, LiveInv
  <1>3. CASE c \in Holders
    <2>1. IsFiniteSet(Holders') /\ Cardinality(Holders') <= Cardinality(Holders)
      BY <1>1, <1>3, FS_Subset DEF GivesSlot
    <2>2. Cardinality(Holders') \in Nat
      BY <2>1, FS_CardinalityType
    <2> QED BY <1>1, <2>1, <2>2
  <1>4. CASE c \notin Holders
    <2>1. IsFiniteSet(Holders \cup {c}) /\ Cardinality(Holders \cup {c}) = Cardinality(Holders) + 1
      BY <1>1, <1>4, FS_AddElement
    <2>2. IsFiniteSet(Holders') /\ Cardinality(Holders') <= Cardinality(Holders \cup {c})
      BY <2>1, FS_Subset DEF GivesSlot
    <2>3. Cardinality(Holders') \in Nat
      BY <2>2, FS_CardinalityType
    <2>4. ~Holds(c)
      BY <1>4 DEF Holders
    <2> QED BY <1>1, <1>2, <2>1, <2>2, <2>3, <2>4
  <1> QED BY <1>3, <1>4

LEMMA CapStep == OneLife /\ CapInv /\ [Next]_vars => CapInv'
  <1> SUFFICES ASSUME OneLife, CapInv, [Next]_vars
               PROVE  CapInv'
    OBVIOUS
  <1>1. ~\E c \in Children : Nudge(c)
    BY DEF CapInv, OneLife, Nudge, NudgesUnanswered, ReportStalled
  <1>2. CASE KeepsSlots
    <2>1. IsFiniteSet(Holders') /\ Cardinality(Holders') <= Cardinality(Holders)
      BY <1>2, FS_Subset DEF CapInv, KeepsSlots
    <2>2. Cardinality(Holders') \in Nat /\ Cardinality(Holders) \in Nat /\ MaxChildren \in Nat
      BY <2>1, FS_CardinalityType, BoundsAssumption DEF CapInv
    <2> QED BY <1>2, <2>1, <2>2 DEF CapInv, KeepsSlots
  <1>3. ASSUME NEW c \in Children, GivesSlot(c), Holds(c) \/ ReservedSlots < MaxChildren
        PROVE  CapInv'
    BY <1>3, SlotGiven DEF CapInv, GivesSlot
  <1> QED BY <1>1, <1>2, <1>3, LiveStep DEF OneLife, CapInv

LEMMA CapHolds == CapInv => SlotCap
  BY ReservedAreHolders DEF CapInv, LiveInv, SlotCap

LEMMA InitCaps == Init => CapInv
  BY InitLive, FS_EmptySet, BoundsAssumption DEF CapInv

\* The limit on children: never more of them than max_children hold a slot, the
\* admitted launches that have no child yet among them.
THEOREM SlotsAreCapped ==
    ASSUME OneLife
    PROVE  Spec => []SlotCap
  <1>1. CapInv /\ [Next]_vars => CapInv'
    BY CapStep
  <1> QED BY InitCaps, CapHolds, <1>1, PTL DEF Spec

-----------------------------------------------------------------------------
(* A child that released its slot *)

\* Nothing is listed for it, and nothing is done for it.
LEMMA TerminalIsIdle ==
    ASSUME LiveInv, NEW c \in Children, cstate[c] \in TerminalStates
    PROVE  /\ ~Launching(c) /\ ~Quiescing(c) /\ jobs[c].step = "none"
           /\ entry[c] = "none" /\ TypeOK
  <1>1. TypeOK /\ JobHolds(c)
    BY DEF LiveInv
  <1>2. cstate[c] \notin LiveStates /\ cstate[c] # "none"
    BY DEF LiveStates, TerminalStates
  <1>3. ~Launching(c)
    <2>1. jobs[c] \in LaunchJobs => jobs[c].goal \in {"create", "resume"}
      BY DEF LaunchJobs
    <2> QED BY <1>1, <1>2, <2>1 DEF JobHolds, Holds, Launching
  <1>4. ~Quiescing(c) /\ entry[c] = "none"
    BY <1>1, <1>2 DEF JobHolds
  <1>5. jobs[c] = Idle
    <2>1. /\ jobs[c] \in LaunchJobs => Launching(c)
          /\ jobs[c] \in QuiesceJobs => Quiescing(c)
      BY DEF LaunchJobs, QuiesceJobs, Launching, Quiescing
    <2> QED BY <1>1, <1>3, <1>4, <2>1 DEF TypeOK, Jobs
  <1> QED BY <1>1, <1>3, <1>4, <1>5 DEF Idle

LEMMA EndedStays ==
    ASSUME MaxCrashes = 0, LiveInv, [Next]_vars, NEW c \in Children, cstate[c] \in EndStates
    PROVE  cstate'[c] = cstate[c] \/ cstate'[c] = "starting" \/ ReportStalled(c)
  <1>1. /\ ~Launching(c) /\ ~Quiescing(c) /\ jobs[c].step = "none"
        /\ entry[c] = "none" /\ TypeOK /\ phase = "serving"
    BY TerminalIsIdle DEF LiveInv, EndStates
  <1>2. ASSUME NEW d \in Children, Advance(d)
        PROVE  cstate'[c] = cstate[c]
    <2>1. d # c
      BY <1>1, <1>2
      DEF Advance, Launch, Quiesce, StartWorktree, ReuseWorktree, TakeWorktree, MintDirs,
          StartPane, TakePane, Commit, AwaitEgress, ReleaseGate, AwaitReady, FailLaunch,
          GraceExpires, StopPane, StopFails, VerifyWorktree, DecideOutcome, DecideUnrecorded,
          QuiesceLost, At
    <2>2. \/ cstate' = cstate
          \/ \E s : cstate' = [cstate EXCEPT ![d] = s]
      BY <1>2
      DEF Advance, Launch, Quiesce, StartWorktree, ReuseWorktree, TakeWorktree, MintDirs,
          StartPane, TakePane, Commit, AwaitEgress, ReleaseGate, AwaitReady, FailLaunch,
          GraceExpires, StopPane, StopFails, VerifyWorktree, DecideOutcome, DecideUnrecorded,
          QuiesceLost, EndLaunch, storeVars
    <2> QED BY <1>1, <2>1, <2>2 DEF TypeOK
  <1>3. ASSUME NEW d \in Children, ServeResult(d)
        PROVE  cstate'[c] = cstate[c]
    <2>1. d # c
      BY <1>1, <1>3
      DEF ServeResult, StartFinish, EndGrace, HoldIntent, DropResult, TakeResult, Served
    <2>2. cstate' = cstate \/ cstate' = [cstate EXCEPT ![d] = "finishing"]
      BY <1>3 DEF ServeResult, StartFinish, EndGrace, HoldIntent, DropResult, storeVars
    <2> QED BY <1>1, <2>1, <2>2 DEF TypeOK
  <1>4. CASE Owner
    <2>1. \/ cstate' = cstate
          \/ \E d \in Children : cstate' = [cstate EXCEPT ![d] = "starting"]
      BY <1>4
      DEF Owner, RefuseRequest, BeginCreate, StopAnswered, StopJoins, BeginStop, ResumeJoins,
          BeginResume, storeVars
    <2> QED BY <1>1, <2>1 DEF TypeOK
  <1>5. CASE \E d \in Children : Nudge(d)
    <2>1. PICK d \in Children : Nudge(d)
      BY <1>5
    <2>2. \/ cstate' = cstate
          \/ ReportStalled(d) /\ cstate' = [cstate EXCEPT ![d] = "stalled"]
      BY <2>1 DEF Nudge, NudgesUnanswered, ReportStalled, storeVars
    <2>3. cstate'[c] = cstate[c] \/ (d = c /\ ReportStalled(d))
      BY <1>1, <2>2 DEF TypeOK
    <2> QED BY <2>3
  <1>6. CASE \/ \E k \in LaunchKeys : \/ WorktreeWorker(k) \/ PaneWorker(k)
                                      \/ Agent(k) \/ LeaseExpires(k)
             \/ MuxDies \/ UNCHANGED vars
    BY <1>6 DEF WorktreeWorker, PaneWorker, Agent, Report, Work, PaneExits, SendResult,
                LeaseExpires, MuxDies, vars, storeVars
  <1>7. ~Crash /\ ~Start /\ ~Recover
    <2>1. crashes = 0
      BY <1>1 DEF TypeOK
    <2> QED BY <1>1, <2>1
            DEF Crash, Start, Recover, ReconcilePending, AdoptFinished, AdoptRecovered,
                ResumeQuiesce, AnswerAbandoned
  <1> QED BY <1>2, <1>3, <1>4, <1>5, <1>6, <1>7 DEF Next

\* In one life of friring nothing that is still under way for an ended child
\* brings it back, however its owner, its agent, the workers and the nudges
\* interleave: it is not listed, so it has no request queue; no job drives it;
\* what was decided of it was decided while it held its slot.  The stall report
\* is the one writer left besides a resume.
THEOREM EndedIsOver ==
    ASSUME MaxCrashes = 0
    PROVE  Spec => EndedStaysEnded
  <1>1. LiveInv /\ [Next]_vars =>
            [\A c \in Children : cstate[c] \in EndStates =>
                cstate'[c] \in EndStates \cup {"starting"} \/ ReportStalled(c)]_vars
    BY EndedStays
  <1>2. LiveInv /\ [Next]_vars => LiveInv'
    BY LiveInvStep
  <1>3. Init => LiveInv
    BY InitLive
  <1> QED BY <1>1, <1>2, <1>3, PTL DEF Spec, EndedStaysEnded

-----------------------------------------------------------------------------
(* A stop that was answered *)

LEMMA StopStops ==
    ASSUME MaxCrashes = 0, KillsWork, AgentInv, LiveInv, HeldInv, [Next]_vars,
           NEW k \in StopKeys, journal[k] # "ok", journal'[k] = "ok"
    PROVE  \A j \in LaunchKeys : saga[j].child = asked'[k] => pane'[j] # "running"
  <1>1. /\ TypeOK /\ phase = "serving" /\ k \in Keys /\ k \notin LaunchKeys
    BY KeySets, KeysAssumption DEF LiveInv
  <1>2. ASSUME NEW c \in Children, StopAnswered(k, c)
        PROVE  \A j \in LaunchKeys : saga[j].child = asked'[k] => pane'[j] # "running"
    <2>1. asked'[k] = c /\ pane' = pane /\ cstate[c] \in TerminalStates
      BY <1>1, <1>2 DEF StopAnswered, TypeOK
    <2>2. entry[c] = "none" /\ ChildAgrees(c)
      BY <2>1, TerminalIsIdle DEF AgentInv
    <2> QED BY <1>1, <2>1, <2>2 DEF ChildAgrees, RunnersAgree
  <1>3. ASSUME NEW c \in Children, Launch(c)
        PROVE  \A j \in LaunchKeys : saga[j].child = asked'[k] => pane'[j] # "running"
    <2>1. FailLaunch(c) \/ AwaitReady(c)
      BY <1>1, <1>3
      DEF Launch, StartWorktree, ReuseWorktree, TakeWorktree, MintDirs, StartPane,
          TakePane, Commit, AwaitEgress, ReleaseGate, storeVars
    <2>2. Launching(c)
      <3>1. Launching(c) \/ jobs[c].step \in LaunchSteps
        BY <2>1 DEF FailLaunch, AwaitReady, At, LaunchSteps
      <3> QED BY <1>1, <3>1, LaunchLaunches
    <2>3. \E s : \E a \in {"ok", "refused"} :
             EndLaunch(c, s, a) /\ (FailLaunch(c) \/ s = "ready")
      BY <2>1 DEF FailLaunch, AwaitReady
    <2>4. k \in jobs[c].stops /\ FailLaunch(c)
      BY <1>1, <2>2, <2>3, EndLaunchHeld DEF LiveStates
    <2>5. asked'[k] = c
      BY <2>4 DEF HeldInv, HeldBy, JobKeys, FailLaunch
    <2> QED BY <2>4, <2>5, UnwindStops
  <1>4. ASSUME NEW c \in Children, Quiesce(c)
        PROVE  \A j \in LaunchKeys : saga[j].child = asked'[k] => pane'[j] # "running"
    <2>1. DecideOutcome(c)
      BY <1>1, <1>4
      DEF Quiesce, GraceExpires, StopPane, StopFails, VerifyWorktree, DecideUnrecorded,
          QuiesceLost, EndQuiesce, Answered, storeVars
    <2>2. /\ k \in jobs[c].keys /\ asked' = asked /\ pane' = pane
          /\ jobs[c].step = "verify_running"
      BY <1>1, <2>1 DEF DecideOutcome, EndQuiesce, Answered, At, hostVars
    <2>3. asked'[k] = c
      BY <2>2 DEF HeldInv, HeldBy, JobKeys
    <2>4. Quiescing(c) /\ ChildAgrees(c)
      BY <2>2, QuiesceKnown DEF QuiesceSteps
    <2> QED BY <2>2, <2>3, <2>4 DEF ChildAgrees, QuiesceAgrees, NoneRuns
  <1>5. CASE Owner
    <2>1. \/ \E i \in StopKeys, c \in Children : StopAnswered(i, c)
          \/ \E i \in Keys : \E a \in {"accepted", "refused"} :
                journal' = [journal EXCEPT ![i] = a]
      BY <1>5, KeySets
      DEF Owner, RefuseRequest, BeginCreate, StopJoins, BeginStop, ResumeJoins, BeginResume, Accept
    <2>2. \E c \in Children : StopAnswered(k, c)
      BY <1>1, <2>1 DEF StopAnswered, TypeOK
    <2> QED BY <1>2, <2>2
  <1>6. CASE \/ \E c \in Children : ServeResult(c) \/ Nudge(c)
             \/ \E i \in LaunchKeys : \/ WorktreeWorker(i) \/ PaneWorker(i)
                                      \/ Agent(i) \/ LeaseExpires(i)
             \/ MuxDies \/ UNCHANGED vars
    BY <1>6
    DEF ServeResult, StartFinish, EndGrace, HoldIntent, DropResult, Nudge, NudgesUnanswered,
        ReportStalled, WorktreeWorker, PaneWorker, Agent, Report, Work, PaneExits, SendResult,
        LeaseExpires, MuxDies, vars, storeVars
  <1>7. ~Crash /\ ~Start /\ ~Recover
    <2>1. crashes = 0
      BY <1>1 DEF TypeOK
    <2> QED BY <1>1, <2>1
            DEF Crash, Start, Recover, ReconcilePending, AdoptFinished, AdoptRecovered,
                ResumeQuiesce, AnswerAbandoned
  <1> QED BY <1>3, <1>4, <1>5, <1>6, <1>7 DEF Next, Advance

\* A `stop' is answered ok when nothing runs in the child any more: the
\* quiesce verified it with the pane gone, a launch that failed killed its own
\* pane, or the child had ended before.
THEOREM StopsStop ==
    ASSUME MaxCrashes = 0, KillsWork
    PROVE  Spec => StopMeansStopped
  <1> DEFINE Inv == AgentInv /\ LiveInv /\ HeldInv
  <1>1. Inv /\ [Next]_vars =>
            [\A k \in StopKeys : journal[k] # "ok" /\ journal'[k] = "ok" =>
                \A j \in LaunchKeys : saga[j].child = asked'[k] => pane'[j] # "running"]_vars
    BY StopStops
  <1>2. Inv /\ [Next]_vars => Inv'
    BY AgentStep, LiveInvStep, HeldStep
  <1>3. Init => Inv
    BY InitAgents, InitLive, InitHeld
  <1> QED BY <1>1, <1>2, <1>3, PTL DEF Spec, StopMeansStopped

=============================================================================
