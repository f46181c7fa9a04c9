---------------------------- MODULE WorktreeClaim ----------------------------
(***************************************************************************)
(* The branch and the directory of a bridge child (git/mod.rs, the worker  *)
(* and the unwind of app/bridge_saga.rs, its recovery).  A launch names a  *)
(* branch, and the branch a directory; two names may share one.  `git      *)
(* branch' claims the first, `git worktree add' the second, and what a     *)
(* launch that failed made is reclaimed by one git command after another,  *)
(* while other friring processes, their recoveries, the agents and the     *)
(* operator's own sessions go on in the same repository.                   *)
(***************************************************************************)
EXTENDS Naturals, FiniteSets

CONSTANTS
    Launches,     \* create requests, each with its saga
    Branches, Paths,
    Procs,        \* friring processes
    Other,        \* whoever else makes worktrees: ordinary sessions
    None,
    MaxCrashes,   \* bound: processes that die
    CrashInReclaim, \* one may die between two commands of a reclaim
    KillMayFail,  \* an unwind's kill may leave the agent running
    OthersAttach, \* ordinary sessions check out branches that are there
    Cleans,       \* the operator does not wait for recovery to tidy up
    StartTogether \* two processes may recover at a time

Makers == Launches \cup {Other}

ASSUME ClaimAssumption ==
    /\ Other \notin Launches /\ None \notin Makers \cup Branches \cup Procs
    /\ MaxCrashes \in Nat
    /\ {CrashInReclaim, KillMayFail, OthersAttach, Cleans, StartTogether} \subseteq BOOLEAN

VARIABLES
    branch,   \* launch |-> the branch its request names
    path,     \* branch |-> its directory (worktree_segments)
    \* --- the repository ---
    ref,      \* branch |-> who cut it, and whether it has commits of its own
    dir,      \* path |-> the worktree there
    \* --- the database ---
    saga,     \* launch |-> child_sagas row
    \* --- the processes ---
    up,
    home,     \* launch |-> the process that took its request
    job,      \* launch |-> the step of its ChildJob there, or "none"
    worker,   \* launch |-> the thread in claim_child_worktree
    found,    \* process |-> sagas its recovery read and has not reconciled
    hand,     \* process |-> the reclaim it is in
    \* --- the rest ---
    agents,   \* launches whose agent runs
    late,     \* launches given up before their worker was done
    crashes

plan  == <<branch, path>>
repo  == <<ref, dir>>
procs == <<up, home, job, worker, found, hand>>
vars  == <<plan, repo, saga, procs, agents, late, crashes>>

NoRef == [by |-> None, ahead |-> FALSE]
NoDir == [by |-> None, on |-> None, dirty |-> FALSE]
Idle  == [of |-> None, pc |-> "idle", based |-> FALSE]

\* `based': base_head is recorded.  `step' stands for what recovery does about
\* it: nothing external yet, something to reclaim, a child, or finished.
NoSaga == [step |-> "none", claimed |-> FALSE, based |-> FALSE]
Unfinished(s) == s.step \in {"begun", "worktree", "committed"}

Dir(l)        == path[branch[l]]
CheckedOut(b) == \E p \in Paths : dir[p].on = b
Serves(i)     == up[i] /\ hand[i] = Idle /\ found[i] = {}
At(l, step)   == job[l] = step /\ Serves(home[l])
Recovers(i)   == found[i] # {} \/ (hand[i] # Idle /\ job[hand[i].of] = "none")

-----------------------------------------------------------------------------
(* The launch *)

\* The checks of begin_create: no such directory, no launch of this process on
\* its way there.
Begin(l, i) ==
    /\ Serves(i) /\ saga[l].step = "none"
    /\ dir[Dir(l)] = NoDir
    /\ \A m \in Launches : home[m] = i /\ job[m] # "none" => Dir(m) # Dir(l)
    /\ saga' = [saga EXCEPT ![l].step = "begun"]
    /\ home' = [home EXCEPT ![l] = i]
    /\ job' = [job EXCEPT ![l] = "begun"]
    /\ UNCHANGED <<plan, repo, up, worker, found, hand, agents, late, crashes>>

\* job_start_worktree: the directory is recorded before there is one.
StartWorktree(l) ==
    /\ At(l, "begun")
    /\ saga' = [saga EXCEPT ![l].step = "worktree"]
    /\ job' = [job EXCEPT ![l] = "running"]
    /\ worker' = [worker EXCEPT ![l] = "branch"]
    /\ UNCHANGED <<plan, home, repo, up, found, hand, agents, late, crashes>>

\* git branch <branch> <base>.
CutBranch(l) ==
    /\ worker[l] = "branch"
    /\ IF ref[branch[l]] = NoRef
       THEN /\ ref' = [ref EXCEPT ![branch[l]].by = l]
            /\ worker' = [worker EXCEPT ![l] = "add"]
       ELSE worker' = [worker EXCEPT ![l] = "unowned"] /\ UNCHANGED ref
    /\ UNCHANGED <<plan, home, dir, saga, up, job, found, hand, agents, late, crashes>>

\* git worktree add <path> <branch>: it may be refused, and it may say that it
\* failed after it made the worktree (a post-checkout hook).
AddWorktree(l) ==
    /\ worker[l] = "add"
    /\ \/ /\ ref[branch[l]] # NoRef /\ dir[Dir(l)] = NoDir /\ ~CheckedOut(branch[l])
          /\ dir' = [dir EXCEPT ![Dir(l)] = [by |-> l, on |-> branch[l], dirty |-> FALSE]]
          /\ \E said \in {"made", "owned"} : worker' = [worker EXCEPT ![l] = said]
       \/ worker' = [worker EXCEPT ![l] = "owned"] /\ UNCHANGED dir
    /\ UNCHANGED <<plan, home, ref, saga, up, job, found, hand, agents, late, crashes>>

\* fail_child_job of a launch that claimed nothing: nothing in the repository
\* is its own.
GiveUp(l) ==
    /\ saga' = [saga EXCEPT ![l].step = "failed"]
    /\ job' = [job EXCEPT ![l] = "none"]
    /\ UNCHANGED hand

\* ... of one that did: unwind_child_launch.
Unwind(l, based) ==
    /\ hand' = [hand EXCEPT ![home[l]] = [of |-> l, pc |-> "ask", based |-> based]]
    /\ UNCHANGED job

\* Mutant: a launch that made no worktree reclaims the one it recorded.
TakeWorktreeOwning(l) ==
    /\ At(l, "running")
    /\ worker[l] \in {"made", "owned", "unowned"}
    /\ worker' = [worker EXCEPT ![l] = "none"]
    /\ \/ /\ worker[l] = "made"
          /\ saga' = [saga EXCEPT ![l].claimed = TRUE, ![l].based = TRUE]
          /\ job' = [job EXCEPT ![l] = "made"]
          /\ UNCHANGED hand
       \/ /\ worker[l] # "made"
          /\ saga' = [saga EXCEPT ![l].claimed = TRUE]
          /\ Unwind(l, FALSE)
    /\ UNCHANGED <<plan, home, repo, up, found, agents, late, crashes>>

\* poll_child_job: the worker's answer.
TakeWorktree(l) ==
    /\ At(l, "running")
    /\ worker' = [worker EXCEPT ![l] = "none"]
    /\ \/ /\ worker[l] = "made"
          /\ saga' = [saga EXCEPT ![l].claimed = TRUE, ![l].based = TRUE]
          /\ job' = [job EXCEPT ![l] = "made"]
          /\ UNCHANGED hand
       \/ /\ worker[l] = "owned"
          /\ saga' = [saga EXCEPT ![l].claimed = TRUE]
          /\ Unwind(l, FALSE)
       \/ worker[l] = "unowned" /\ GiveUp(l)
    /\ UNCHANGED <<plan, home, repo, up, found, agents, late, crashes>>

\* BLOCKING_STEP_TIMEOUT: the thread goes on without its job.
TimeOut(l) ==
    /\ At(l, "running") /\ worker[l] \in {"branch", "add"}
    /\ GiveUp(l)
    /\ late' = late \cup {l}
    /\ UNCHANGED <<plan, home, repo, up, worker, found, agents, crashes>>

\* S6 to S8: the child is recorded, and its agent let go.
Commit(l) ==
    /\ At(l, "made")
    /\ saga' = [saga EXCEPT ![l].step = "committed"]
    /\ job' = [job EXCEPT ![l] = "live"]
    /\ agents' = agents \cup {l}
    /\ UNCHANGED <<plan, home, repo, up, worker, found, hand, late, crashes>>

LaunchDone(l) ==
    /\ At(l, "live")
    /\ saga' = [saga EXCEPT ![l].step = "done"]
    /\ job' = [job EXCEPT ![l] = "none"]
    /\ UNCHANGED <<plan, home, repo, up, worker, found, hand, agents, late, crashes>>

\* Any later step fails: the pane goes, as far as the kill went.
LaunchFails(l) ==
    /\ (At(l, "made") \/ At(l, "live"))
    /\ agents' \in {agents \ {l}} \cup (IF KillMayFail THEN {agents} ELSE {})
    /\ Unwind(l, TRUE)
    /\ UNCHANGED <<plan, home, repo, saga, up, worker, found, late, crashes>>

-----------------------------------------------------------------------------
(* reclaim_child_worktree, on the tick of process i *)

Launch(i)  == hand[i].of
Branch(i)  == branch[Launch(i)]
Place(i)   == path[Branch(i)]
Doing(i, pc) == up[i] /\ hand[i].pc = pc
Go(i, pc) == hand' = [hand EXCEPT ![i].pc = pc]
Elsewhere  == UNCHANGED <<plan, home, saga, up, job, worker, found, agents, late, crashes>>

\* Mutant: the directory is taken for the launch's because the branch is.
AskNobody(i) ==
    /\ Doing(i, "ask")
    /\ Go(i, IF dir[Place(i)] # NoDir THEN "verify" ELSE "branch")
    /\ UNCHANGED repo /\ Elsewhere

\* worktree_is_on: which branch git says the directory is on.
AskBranch(i) ==
    /\ Doing(i, "ask")
    /\ Go(i, IF dir[Place(i)].on = Branch(i) THEN "verify" ELSE "branch")
    /\ UNCHANGED repo /\ Elsewhere

\* Mutant: a directory of this launch holds nothing anybody wants.
VerifyNothing(i) ==
    /\ Doing(i, "verify")
    /\ Go(i, "remove")
    /\ UNCHANGED repo /\ Elsewhere

\* verify_worktree: a directory that is gone reads as dirty.
Verify(i) ==
    LET d == dir[Place(i)]
    IN  /\ Doing(i, "verify")
        /\ Go(i, IF d = NoDir \/ d.dirty THEN "end" ELSE "remove")
        /\ UNCHANGED repo /\ Elsewhere

\* git worktree remove --force.
Remove(i) ==
    /\ Doing(i, "remove")
    /\ dir' = [dir EXCEPT ![Place(i)] = NoDir]
    /\ Go(i, IF dir[Place(i)] = NoDir THEN "end" ELSE "branch")
    /\ UNCHANGED ref /\ Elsewhere

\* Mutant: a branch without a recorded base is left.
LeaveBaseless(i) ==
    /\ Doing(i, "branch")
    /\ Go(i, IF hand[i].based /\ ~ref[Branch(i)].ahead THEN "delete" ELSE "end")
    /\ UNCHANGED repo /\ Elsewhere

\* reclaim_child_branch: with a recorded base the commits are counted.
CountAhead(i) ==
    LET r == ref[Branch(i)]
    IN  /\ Doing(i, "branch")
        /\ Go(i, IF hand[i].based /\ (r = NoRef \/ r.ahead) THEN "end" ELSE "delete")
        /\ UNCHANGED repo /\ Elsewhere

\* git branch -d: not a branch that is checked out, nor one with commits
\* nothing else has.
DeleteBranch(i) ==
    LET b == Branch(i)
    IN  /\ Doing(i, "delete")
        /\ ref' = IF CheckedOut(b) \/ ref[b].ahead THEN ref ELSE [ref EXCEPT ![b] = NoRef]
        /\ Go(i, "end")
        /\ UNCHANGED dir /\ Elsewhere

EndReclaim(i) ==
    LET l == Launch(i)
    IN  /\ Doing(i, "end")
        /\ saga' = [saga EXCEPT ![l].step = "failed"]
        /\ job' = IF home[l] = i THEN [job EXCEPT ![l] = "none"] ELSE job
        /\ hand' = [hand EXCEPT ![i] = Idle]
        /\ UNCHANGED <<plan, home, repo, up, worker, found, agents, late, crashes>>

Reclaim(i) ==
    \/ AskBranch(i) \/ Verify(i) \/ Remove(i) \/ CountAhead(i) \/ DeleteBranch(i) \/ EndReclaim(i)

-----------------------------------------------------------------------------
(* Crash and recovery *)

Crash(i) ==
    /\ up[i] /\ crashes < MaxCrashes
    /\ hand[i] = Idle \/ CrashInReclaim
    /\ crashes' = crashes + 1
    /\ up' = [up EXCEPT ![i] = FALSE]
    /\ hand' = [hand EXCEPT ![i] = Idle] /\ found' = [found EXCEPT ![i] = {}]
    /\ job' = [l \in Launches |-> IF home[l] = i THEN "none" ELSE job[l]]
    /\ worker' = [l \in Launches |-> IF home[l] = i THEN "none" ELSE worker[l]]
    /\ UNCHANGED <<plan, home, repo, saga, agents, late>>

\* unfinished_child_sagas: copies of the rows nobody drives, those whose lease
\* has run out.
Start(i) ==
    /\ ~up[i]
    /\ StartTogether \/ \A j \in Procs : ~Recovers(j)
    /\ up' = [up EXCEPT ![i] = TRUE]
    /\ \E expired \in SUBSET {l \in Launches : Unfinished(saga[l]) /\ job[l] = "none"} :
          found' = [found EXCEPT ![i] = {[of |-> l, row |-> saga[l]] : l \in expired}]
    /\ UNCHANGED <<plan, home, repo, saga, job, worker, hand, agents, late, crashes>>

\* Mutant: the directory is reclaimed because the saga recorded it.
ReconcilePlanned(i) ==
    /\ up[i] /\ hand[i] = Idle
    /\ \E f \in found[i] :
          /\ found' = [found EXCEPT ![i] = @ \ {f}]
          /\ \/ /\ f.row.step = "committed"
                /\ saga' = [saga EXCEPT ![f.of].step = "done"] /\ UNCHANGED hand
             \/ /\ f.row.step = "worktree"
                /\ hand' = [hand EXCEPT ![i] = [of |-> f.of, pc |-> "ask", based |-> f.row.based]]
                /\ UNCHANGED saga
             \/ /\ f.row.step = "begun"
                /\ saga' = [saga EXCEPT ![f.of].step = "failed"] /\ UNCHANGED hand
    /\ UNCHANGED <<plan, home, repo, up, job, worker, agents, late, crashes>>

\* reconcile_child_saga: a child is adopted; below that what the launch
\* claimed is reclaimed, and what it did not is left alone.
Reconcile(i) ==
    /\ up[i] /\ hand[i] = Idle
    /\ \E f \in found[i] :
          /\ found' = [found EXCEPT ![i] = @ \ {f}]
          /\ \/ /\ f.row.step = "committed"
                /\ saga' = [saga EXCEPT ![f.of].step = "done"] /\ UNCHANGED hand
             \/ /\ f.row.step = "worktree" /\ f.row.claimed
                /\ hand' = [hand EXCEPT ![i] = [of |-> f.of, pc |-> "ask", based |-> f.row.based]]
                /\ UNCHANGED saga
             \/ /\ f.row.step # "committed" /\ ~f.row.claimed
                /\ saga' = [saga EXCEPT ![f.of].step = "failed"] /\ UNCHANGED hand
    /\ UNCHANGED <<plan, home, repo, up, job, worker, agents, late, crashes>>

-----------------------------------------------------------------------------
(* Agents, ordinary sessions and the operator *)

Rest == UNCHANGED <<plan, saga, procs, late, crashes>>

\* Somebody edits, or commits, in a worktree of its own.
Work(p) ==
    /\ dir[p].by \in agents \cup {Other}
    /\ \/ dir' = [dir EXCEPT ![p].dirty = TRUE] /\ UNCHANGED ref
       \/ /\ dir' = [dir EXCEPT ![p].dirty = FALSE]
          /\ ref' = [ref EXCEPT ![dir[p].on].ahead = TRUE]
    /\ UNCHANGED agents /\ Rest

\* create_or_attach_worktree: the same layout, for an ordinary session.
OtherSession(b) ==
    /\ dir[path[b]] = NoDir /\ ~CheckedOut(b)
    /\ OthersAttach \/ ref[b] = NoRef
    /\ dir' = [dir EXCEPT ![path[b]] = [by |-> Other, on |-> b, dirty |-> FALSE]]
    /\ ref' = IF ref[b] = NoRef THEN [ref EXCEPT ![b].by = Other] ELSE ref
    /\ UNCHANGED agents /\ Rest

\* The operator tidies up after a launch that failed.
CleanUp(l) ==
    /\ saga[l].step = "failed" \/ (Cleans /\ job[l] = "none")
    /\ l \notin agents /\ dir[Dir(l)].by = l
    /\ dir' = [dir EXCEPT ![Dir(l)] = NoDir]
    /\ ref' = [ref EXCEPT ![branch[l]] = NoRef]
    /\ UNCHANGED agents /\ Rest

-----------------------------------------------------------------------------
Init ==
    /\ branch \in [Launches -> Branches] /\ path \in [Branches -> Paths]
    /\ ref = [b \in Branches |-> NoRef] /\ dir = [p \in Paths |-> NoDir]
    /\ saga = [l \in Launches |-> NoSaga] /\ job = [l \in Launches |-> "none"]
    /\ home = [l \in Launches |-> None] /\ worker = [l \in Launches |-> "none"]
    /\ up = [i \in Procs |-> TRUE]
    /\ found = [i \in Procs |-> {}] /\ hand = [i \in Procs |-> Idle]
    /\ agents = {} /\ late = {} /\ crashes = 0

Drive(l) ==
    \/ StartWorktree(l) \/ CutBranch(l) \/ AddWorktree(l) \/ TakeWorktree(l) \/ TimeOut(l)
    \/ Commit(l) \/ LaunchDone(l) \/ LaunchFails(l)

Next ==
    \/ \E l \in Launches : Drive(l) \/ CleanUp(l) \/ \E i \in Procs : Begin(l, i)
    \/ \E i \in Procs : Reclaim(i) \/ Crash(i) \/ Start(i) \/ Reconcile(i)
    \/ \E p \in Paths : Work(p)
    \/ \E b \in Branches : OtherSession(b)

Spec == Init /\ [][Next]_vars

-----------------------------------------------------------------------------
(* Properties *)

\* Every variable has its type, and a reclaim is of a launch that claimed.
TypeOK ==
    /\ branch \in [Launches -> Branches] /\ path \in [Branches -> Paths]
    /\ ref \in [Branches -> [by : Makers \cup {None}, ahead : BOOLEAN]]
    /\ dir \in [Paths -> [by : Makers, on : Branches, dirty : BOOLEAN] \cup {NoDir}]
    /\ saga \in [Launches -> [step : {"none", "begun", "worktree", "committed", "done", "failed"},
                              claimed : BOOLEAN, based : BOOLEAN]]
    /\ home \in [Launches -> Procs \cup {None}]
    /\ job \in [Launches -> {"none", "begun", "running", "made", "live"}]
    /\ worker \in [Launches -> {"none", "branch", "add", "made", "owned", "unowned"}]
    /\ up \in [Procs -> BOOLEAN]
    /\ found \in [Procs -> SUBSET [of : Launches,
                                   row : [step : {"begun", "worktree", "committed"},
                                          claimed : BOOLEAN, based : BOOLEAN]]]
    /\ hand \in [Procs -> [of : Launches, based : BOOLEAN,
                           pc : {"ask", "verify", "remove", "branch", "delete", "end"}] \cup {Idle}]
    /\ \A i \in Procs : hand[i] # Idle => saga[Launch(i)].claimed
    /\ agents \subseteq Launches /\ late \subseteq Launches /\ crashes \in 0..MaxCrashes

\* A failed launch is no evidence that the work in it is worthless: no reclaim
\* removes a worktree with uncommitted work or a branch with commits.
WorkIsKept ==
    [][\A i \in Procs : Reclaim(i) =>
          /\ \A p \in Paths : dir[p].dirty => dir'[p] = dir[p]
          /\ \A b \in Branches : ref[b].ahead => ref'[b] = ref[b]]_vars

\* A reclaim removes what its own launch made, and nothing else: not the
\* winner's directory, not a later launch's, not an ordinary session's.
OnlyItsOwn ==
    [][\A i \in Procs : Reclaim(i) =>
          /\ \A p \in Paths : dir'[p] # dir[p] => dir[p].by = Launch(i)
          /\ \A b \in Branches : ref'[b] # ref[b] => ref[b].by = Launch(i)]_vars

\* A child that was launched has the directory to itself, on its own branch,
\* unless somebody removed it by hand.
ChildHasItsWorktree ==
    \A l \in Launches :
        saga[l].step \in {"committed", "done"} /\ (\A i \in Procs : Launch(i) # l)
            => dir[Dir(l)].by = l /\ dir[Dir(l)].on = branch[l]

\* A launch that fails leaves nothing behind but work: a branch and a directory
\* per failed attempt would shut every later create out of its name.
NothingLeaks ==
    \A l \in Launches :
        saga[l].step = "failed" /\ l \notin late /\ crashes = 0 =>
            /\ \A p \in Paths : dir[p].by = l => dir[p].dirty
            /\ \A b \in Branches : ref[b].by = l => ref[b].ahead \/ CheckedOut(b)

=============================================================================
