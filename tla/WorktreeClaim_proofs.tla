-------------------------- MODULE WorktreeClaim_proofs --------------------------
(***************************************************************************)
(* What holds of WorktreeClaim for every number of launches, branches,     *)
(* directories and processes: its types and, where nothing but one         *)
(* recovery at a time reaches into the repository (OneAtATime), that a     *)
(* child keeps its worktree, that a reclaim takes no work and nothing that *)
(* is not its own, and that a launch that fails leaves nothing behind.     *)
(***************************************************************************)
EXTENDS WorktreeClaim, TLAPS

\* The assumptions the run makes as well.
OneAtATime ==
    /\ CrashInReclaim = FALSE /\ KillMayFail = FALSE /\ OthersAttach = FALSE
    /\ Cleans = FALSE /\ StartTogether = FALSE

-----------------------------------------------------------------------------
(* The types *)

Refs   == [by : Makers \cup {None}, ahead : BOOLEAN]
Dirs   == [by : Makers, on : Branches, dirty : BOOLEAN] \cup {NoDir}
Steps  == {"none", "begun", "worktree", "committed", "done", "failed"}
Sagas  == [step : Steps, claimed : BOOLEAN, based : BOOLEAN]
Rows   == [step : {"begun", "worktree", "committed"}, claimed : BOOLEAN, based : BOOLEAN]
Founds == [of : Launches, row : Rows]
Hands  == [of : Launches, based : BOOLEAN,
           pc : {"ask", "verify", "remove", "branch", "delete", "end"}] \cup {Idle}

\* A claim is never taken back, and a process that has a job for a launch took
\* its request.
TypeInv ==
    /\ TypeOK
    /\ \A l \in Launches : job[l] # "none" => home[l] \in Procs
    /\ \A l \in Launches : job[l] \in {"made", "live"} => saga[l].claimed
    /\ \A i \in Procs : \A f \in found[i] : f.row.claimed => saga[f.of].claimed

-----------------------------------------------------------------------------
(* The invariant *)

\* A directory is where its branch puts it, and whoever made it cut the
\* branch; a launch cuts no branch but the one it names.
RepoAgrees ==
    /\ \A p \in Paths : dir[p] # NoDir =>
          p = path[dir[p].on] /\ dir[p].by = ref[dir[p].on].by
    /\ \A b \in Branches, l \in Launches : ref[b].by = l => b = branch[l]

\* What a launch has in the repository, and the work in it.
Owns(l)   == ref[branch[l]].by = l
Has(l)    == dir[Dir(l)].by = l
Ahead(l)  == ref[branch[l]].ahead
Soiled(l) == dir[Dir(l)].dirty

Reclaimed(l) == \E i \in Procs : Launch(i) = l

\* The job, the saga and the worker of a launch go together.
StepsAgree(l) ==
    /\ job[l] = "begun"   => saga[l].step = "begun"
    /\ job[l] = "running" => saga[l].step = "worktree"
    /\ job[l] = "made"    => saga[l].step = "worktree" /\ saga[l].claimed
    /\ job[l] = "live"    => saga[l].step = "committed"
    /\ saga[l].step \in {"none", "begun"} => ~saga[l].claimed
    /\ saga[l].step \in {"committed", "done"} => saga[l].claimed
    /\ worker[l] # "none" =>
          job[l] = "running" \/ (job[l] = "none" /\ saga[l].step = "failed" /\ l \in late)
    /\ l \in agents => saga[l].step \in {"committed", "done"} /\ ~Reclaimed(l)

\* The branch a launch may reclaim is its own, and so is its directory.
ClaimIsOwn(l) ==
    /\ worker[l] \in {"branch", "unowned"} => ~Owns(l)
    /\ saga[l].step \in {"none", "begun"} => ~Owns(l)
    /\ worker[l] = "add" => Owns(l) /\ ~Has(l)
    /\ job[l] = "running" /\ worker[l] \in {"made", "owned"} => Owns(l)
    /\ job[l] = "running" /\ worker[l] = "made" => Has(l)
    /\ ~Reclaimed(l) =>
          /\ saga[l].claimed /\ saga[l].step \in {"worktree", "committed", "done"} => Owns(l)
          /\ job[l] = "made" \/ saga[l].step \in {"committed", "done"} => Has(l)

\* Only work is left of a launch.
OnlyWorkLeft(l) ==
    /\ Has(l) => Soiled(l)
    /\ Owns(l) => Ahead(l) \/ Has(l)

LeavesWork(l) == saga[l].step = "failed" /\ l \notin late /\ crashes = 0 => OnlyWorkLeft(l)

\* A reclaim is of a launch nobody drives, and each of its commands is about
\* to reach what that launch made.
ReclaimIsSafe(i) ==
    LET l == Launch(i)
    IN  hand[i] # Idle =>
          /\ up[i] /\ worker[l] = "none" /\ l \notin agents
          /\ saga[l].claimed /\ saga[l].step \in {"worktree", "committed"}
          /\ job[l] # "none" => home[l] = i
          /\ hand[i].pc # "end" => Owns(l)
          /\ hand[i].pc \in {"verify", "remove"} => Has(l)
          /\ hand[i].pc = "remove" => ~Soiled(l)
          /\ hand[i].pc \in {"branch", "delete"} => ~Has(l)
          /\ hand[i].pc = "end" => OnlyWorkLeft(l)

\* What a recovery has read is still so, and nobody else acts on it.
FoundIsTrue(i) ==
    \A f \in found[i] :
        /\ saga[f.of] = f.row /\ job[f.of] = "none" /\ worker[f.of] = "none"
        /\ ~Reclaimed(f.of)

OneRecovers == \A i, j \in Procs : Recovers(i) /\ Recovers(j) => i = j

DownIsIdle(i) ==
    ~up[i] => /\ hand[i] = Idle /\ found[i] = {} /\ crashes > 0
              /\ \A l \in Launches : home[l] = i => job[l] = "none" /\ worker[l] = "none"

ClaimInv ==
    /\ TypeInv /\ RepoAgrees /\ OneRecovers
    /\ \A l \in Launches : StepsAgree(l) /\ ClaimIsOwn(l) /\ LeavesWork(l)
    /\ \A i \in Procs : ReclaimIsSafe(i) /\ FoundIsTrue(i) /\ DownIsIdle(i)
    /\ \A i \in Procs : found[i] # {} => crashes > 0

-----------------------------------------------------------------------------
(* Values *)

LEMMA Nothing ==
    /\ None \notin Launches /\ None # Other /\ None \notin Branches /\ Other \notin Launches
    /\ NoRef \in Refs /\ NoRef.by = None /\ NoRef.ahead = FALSE
    /\ NoDir.by = None /\ NoDir.on = None /\ NoDir.dirty = FALSE /\ NoDir \in Dirs
    /\ NoSaga \in Sagas /\ NoSaga.step = "none" /\ NoSaga.claimed = FALSE
    /\ Idle.of = None /\ Idle.pc = "idle" /\ Idle \in Hands
  <1>1. None \notin Launches /\ None # Other /\ None \notin Branches /\ Other \notin Launches
    BY ClaimAssumption DEF Makers
  <1>2. NoRef \in [by : {None}, ahead : {FALSE}]
    BY DEF NoRef
  <1>3. NoDir \in [by : {None}, on : {None}, dirty : {FALSE}]
    BY DEF NoDir
  <1>4. NoSaga \in [step : {"none"}, claimed : {FALSE}, based : {FALSE}]
    BY DEF NoSaga
  <1>5. Idle \in [of : {None}, pc : {"idle"}, based : {FALSE}]
    BY DEF Idle
  <1> QED BY <1>1, <1>2, <1>3, <1>4, <1>5 DEF Refs, Dirs, Sagas, Steps, Hands

LEMMA DirFacts ==
    \A d \in Dirs : /\ d # NoDir => d.by \in Makers /\ d.on \in Branches /\ d.dirty \in BOOLEAN
                    /\ d.by # None => d # NoDir
                    /\ d.on # None => d # NoDir
  BY Nothing DEF Dirs

LEMMA HandFacts ==
    \A h \in Hands : /\ h # Idle <=> h.of \in Launches
                     /\ h # Idle <=> h.pc # "idle"
                     /\ h # Idle <=> h.pc \in {"ask", "verify", "remove", "branch", "delete", "end"}
                     /\ h.of # None => h.of \in Launches
                     /\ h = Idle => h.of = None
  BY Nothing DEF Hands

LEMMA Typed ==
    ASSUME TypeOK
    PROVE  /\ branch \in [Launches -> Branches] /\ path \in [Branches -> Paths]
           /\ ref \in [Branches -> Refs] /\ dir \in [Paths -> Dirs]
           /\ saga \in [Launches -> Sagas] /\ home \in [Launches -> Procs \cup {None}]
           /\ job \in [Launches -> {"none", "begun", "running", "made", "live"}]
           /\ worker \in [Launches -> {"none", "branch", "add", "made", "owned", "unowned"}]
           /\ up \in [Procs -> BOOLEAN] /\ found \in [Procs -> SUBSET Founds]
           /\ hand \in [Procs -> Hands] /\ crashes \in Nat
           /\ \A l \in Launches : Dir(l) \in Paths /\ branch[l] \in Branches
           /\ \A i \in Procs : hand[i] # Idle => Launch(i) \in Launches
  <1>1. hand \in [Procs -> Hands] /\ crashes \in Nat
    BY ClaimAssumption DEF TypeOK, Hands
  <1>2. \A i \in Procs : hand[i] # Idle => Launch(i) \in Launches
    BY <1>1, HandFacts DEF Launch
  <1>3. branch \in [Launches -> Branches] /\ path \in [Branches -> Paths]
    BY DEF TypeOK
  <1>4. \A l \in Launches : Dir(l) \in Paths /\ branch[l] \in Branches
    BY <1>3 DEF Dir
  <1> QED BY <1>1, <1>2, <1>3, <1>4 DEF TypeOK, Refs, Dirs, Sagas, Steps, Rows, Founds

\* What a step does to the row of l, and to no other.
SagaIs(l, step, claimed) ==
    /\ saga' \in [Launches -> Sagas]
    /\ saga'[l].step = step /\ saga'[l].claimed = claimed
    /\ \A m \in Launches \ {l} : saga'[m] = saga[m]

LEMMA SagaStep ==
    ASSUME TypeOK, NEW l \in Launches, NEW step \in Steps,
           saga' = [saga EXCEPT ![l].step = step]
    PROVE  SagaIs(l, step, saga[l].claimed)
  <1> DEFINE s == [saga[l] EXCEPT !.step = step]
  <1>1. saga[l] \in Sagas /\ saga \in [Launches -> Sagas]
    BY Typed
  <1>2. s \in Sagas /\ s.step = step /\ s.claimed = saga[l].claimed
    BY <1>1 DEF Sagas
  <1>3. saga' = [saga EXCEPT ![l] = s]
    BY <1>1
  <1> HIDE DEF s
  <1> QED BY <1>1, <1>2, <1>3 DEF SagaIs

LEMMA SagaClaim ==
    ASSUME TypeOK, NEW l \in Launches,
           \/ saga' = [saga EXCEPT ![l].claimed = TRUE, ![l].based = TRUE]
           \/ saga' = [saga EXCEPT ![l].claimed = TRUE]
    PROVE  SagaIs(l, saga[l].step, TRUE)
  <1>1. saga[l] \in Sagas /\ saga \in [Launches -> Sagas]
    BY Typed
  <1>2. CASE saga' = [saga EXCEPT ![l].claimed = TRUE, ![l].based = TRUE]
    <2> DEFINE s == [saga[l] EXCEPT !.claimed = TRUE, !.based = TRUE]
    <2>1. s \in Sagas /\ s.step = saga[l].step /\ s.claimed = TRUE
      BY <1>1 DEF Sagas
    <2>2. saga' = [saga EXCEPT ![l] = s]
      BY <1>1, <1>2
    <2> HIDE DEF s
    <2> QED BY <1>1, <2>1, <2>2 DEF SagaIs
  <1>3. CASE saga' = [saga EXCEPT ![l].claimed = TRUE]
    <2> DEFINE s == [saga[l] EXCEPT !.claimed = TRUE]
    <2>1. s \in Sagas /\ s.step = saga[l].step /\ s.claimed = TRUE
      BY <1>1 DEF Sagas
    <2>2. saga' = [saga EXCEPT ![l] = s]
      BY <1>1, <1>3
    <2> HIDE DEF s
    <2> QED BY <1>1, <2>1, <2>2 DEF SagaIs
  <1> QED BY <1>2, <1>3

\* What a step does to the reclaim of i, and to no other.
HandIs(i, of, pc) ==
    /\ hand' \in [Procs -> Hands]
    /\ hand'[i].of = of /\ hand'[i].pc = pc
    /\ \A j \in Procs \ {i} : hand'[j] = hand[j]

LEMMA HandStarts ==
    ASSUME TypeOK, NEW i \in Procs, NEW l \in Launches, NEW based \in BOOLEAN,
           hand' = [hand EXCEPT ![i] = [of |-> l, pc |-> "ask", based |-> based]]
    PROVE  HandIs(i, l, "ask")
  <1> DEFINE h == [of |-> l, pc |-> "ask", based |-> based]
  <1>1. h \in Hands /\ h.of = l /\ h.pc = "ask"
    BY DEF Hands
  <1>2. hand' = [hand EXCEPT ![i] = h]
    OBVIOUS
  <1> HIDE DEF h
  <1> QED BY <1>1, <1>2, Typed DEF HandIs

LEMMA HandGoes ==
    ASSUME TypeOK, NEW i \in Procs, hand[i] # Idle,
           NEW pc \in {"ask", "verify", "remove", "branch", "delete", "end"}, Go(i, pc)
    PROVE  HandIs(i, hand[i].of, pc)
  <1> DEFINE h == [hand[i] EXCEPT !.pc = pc]
  <1>1. hand[i] \in Hands \ {Idle} /\ hand \in [Procs -> Hands]
    BY Typed
  <1>2. h \in Hands /\ h.of = hand[i].of /\ h.pc = pc
    BY <1>1 DEF Hands
  <1>3. hand' = [hand EXCEPT ![i] = h]
    BY <1>1 DEF Go
  <1> HIDE DEF h
  <1> QED BY <1>1, <1>2, <1>3 DEF HandIs

LEMMA HandEnds ==
    ASSUME TypeOK, NEW i \in Procs, hand' = [hand EXCEPT ![i] = Idle]
    PROVE  HandIs(i, None, "idle") /\ hand'[i] = Idle
  BY Typed, Nothing DEF HandIs

\* Which directory or branch a step changes, and what is there then.
DirIs(p, by, on, dirty) ==
    /\ dir' \in [Paths -> Dirs]
    /\ dir'[p].by = by /\ dir'[p].on = on /\ dir'[p].dirty = dirty
    /\ \A q \in Paths \ {p} : dir'[q] = dir[q]

RefIs(b, by, ahead) ==
    /\ ref' \in [Branches -> Refs]
    /\ ref'[b].by = by /\ ref'[b].ahead = ahead
    /\ \A c \in Branches \ {b} : ref'[c] = ref[c]

LEMMA DirMade ==
    ASSUME TypeOK, NEW p \in Paths, NEW by \in Makers, NEW on \in Branches,
           dir' = [dir EXCEPT ![p] = [by |-> by, on |-> on, dirty |-> FALSE]]
    PROVE  DirIs(p, by, on, FALSE)
  <1> DEFINE d == [by |-> by, on |-> on, dirty |-> FALSE]
  <1>1. d \in Dirs /\ d.by = by /\ d.on = on /\ d.dirty = FALSE
    BY DEF Dirs
  <1>2. dir' = [dir EXCEPT ![p] = d]
    OBVIOUS
  <1>3. dir \in [Paths -> Dirs]
    BY Typed
  <1> HIDE DEF d
  <1> QED BY <1>1, <1>2, <1>3 DEF DirIs

LEMMA DirGone ==
    ASSUME TypeOK, NEW p \in Paths, dir' = [dir EXCEPT ![p] = NoDir]
    PROVE  DirIs(p, None, None, FALSE) /\ dir'[p] = NoDir
  BY Typed, Nothing DEF DirIs

LEMMA DirSoiled ==
    ASSUME TypeOK, NEW p \in Paths, dir[p] # NoDir, NEW dirty \in BOOLEAN,
           dir' = [dir EXCEPT ![p].dirty = dirty]
    PROVE  DirIs(p, dir[p].by, dir[p].on, dirty)
  <1> DEFINE d == [dir[p] EXCEPT !.dirty = dirty]
  <1>1. dir[p] \in Dirs \ {NoDir} /\ dir \in [Paths -> Dirs]
    BY Typed
  <1>2. d \in Dirs /\ d.by = dir[p].by /\ d.on = dir[p].on /\ d.dirty = dirty
    BY <1>1 DEF Dirs
  <1>3. dir' = [dir EXCEPT ![p] = d]
    BY <1>1
  <1> HIDE DEF d
  <1> QED BY <1>1, <1>2, <1>3 DEF DirIs

LEMMA RefCut ==
    ASSUME TypeOK, NEW b \in Branches, NEW by \in Makers,
           ref' = [ref EXCEPT ![b].by = by]
    PROVE  RefIs(b, by, ref[b].ahead)
  <1> DEFINE r == [ref[b] EXCEPT !.by = by]
  <1>1. ref[b] \in Refs /\ ref \in [Branches -> Refs]
    BY Typed
  <1>2. r \in Refs /\ r.by = by /\ r.ahead = ref[b].ahead
    BY <1>1 DEF Refs
  <1>3. ref' = [ref EXCEPT ![b] = r]
    BY <1>1
  <1> HIDE DEF r
  <1> QED BY <1>1, <1>2, <1>3 DEF RefIs

LEMMA RefAhead ==
    ASSUME TypeOK, NEW b \in Branches, ref' = [ref EXCEPT ![b].ahead = TRUE]
    PROVE  RefIs(b, ref[b].by, TRUE)
  <1> DEFINE r == [ref[b] EXCEPT !.ahead = TRUE]
  <1>1. ref[b] \in Refs /\ ref \in [Branches -> Refs]
    BY Typed
  <1>2. r \in Refs /\ r.by = ref[b].by /\ r.ahead = TRUE
    BY <1>1 DEF Refs
  <1>3. ref' = [ref EXCEPT ![b] = r]
    BY <1>1
  <1> HIDE DEF r
  <1> QED BY <1>1, <1>2, <1>3 DEF RefIs

LEMMA RefGone ==
    ASSUME TypeOK, NEW b \in Branches, ref' = [ref EXCEPT ![b] = NoRef]
    PROVE  RefIs(b, None, FALSE)
  BY Typed, Nothing DEF RefIs

-----------------------------------------------------------------------------
(* What each action does *)

JobIs(l, step) ==
    /\ job' \in [Launches -> {"none", "begun", "running", "made", "live"}]
    /\ job'[l] = step /\ \A m \in Launches \ {l} : job'[m] = job[m]

WorkerIs(l, step) ==
    /\ worker' \in [Launches -> {"none", "branch", "add", "made", "owned", "unowned"}]
    /\ worker'[l] = step /\ \A m \in Launches \ {l} : worker'[m] = worker[m]

LEMMA JobStep ==
    ASSUME TypeOK, NEW l \in Launches, NEW step \in {"none", "begun", "running", "made", "live"},
           job' = [job EXCEPT ![l] = step]
    PROVE  JobIs(l, step)
  BY Typed DEF JobIs

LEMMA WorkerStep ==
    ASSUME TypeOK, NEW l \in Launches,
           NEW step \in {"none", "branch", "add", "made", "owned", "unowned"},
           worker' = [worker EXCEPT ![l] = step]
    PROVE  WorkerIs(l, step)
  BY Typed DEF WorkerIs

Plan == UNCHANGED <<branch, path>>

LEMMA BeginDoes ==
    ASSUME TypeOK, NEW l \in Launches, NEW i \in Procs, Begin(l, i)
    PROVE  /\ Serves(i) /\ saga[l].step = "none" /\ dir[Dir(l)] = NoDir
           /\ SagaIs(l, "begun", saga[l].claimed) /\ JobIs(l, "begun")
           /\ home' \in [Launches -> Procs \cup {None}] /\ home'[l] = i
           /\ \A m \in Launches \ {l} : home'[m] = home[m]
           /\ Plan /\ UNCHANGED <<ref, dir, up, worker, found, hand, agents, late, crashes>>
  BY Typed, SagaStep, JobStep DEF Begin, Steps, Plan, plan, repo

LEMMA StartWorktreeDoes ==
    ASSUME TypeOK, NEW l \in Launches, StartWorktree(l)
    PROVE  /\ At(l, "begun") /\ SagaIs(l, "worktree", saga[l].claimed) /\ JobIs(l, "running")
           /\ WorkerIs(l, "branch")
           /\ Plan /\ UNCHANGED <<home, ref, dir, up, found, hand, agents, late, crashes>>
  BY SagaStep, JobStep, WorkerStep DEF StartWorktree, Steps, Plan, plan, repo

LEMMA CutBranchDoes ==
    ASSUME TypeOK, NEW l \in Launches, CutBranch(l)
    PROVE  /\ worker[l] = "branch"
           /\ \/ ref[branch[l]] = NoRef /\ RefIs(branch[l], l, FALSE) /\ WorkerIs(l, "add")
              \/ ref[branch[l]] # NoRef /\ WorkerIs(l, "unowned") /\ ref' = ref
           /\ Plan
           /\ UNCHANGED <<home, dir, saga, up, job, found, hand, agents, late, crashes>>
  <1>1. branch[l] \in Branches /\ l \in Makers
    BY Typed DEF Makers
  <1>2. CASE ref[branch[l]] = NoRef
    BY <1>1, <1>2, RefCut, WorkerStep, Nothing DEF CutBranch, Plan, plan
  <1>3. CASE ref[branch[l]] # NoRef
    BY <1>3, WorkerStep DEF CutBranch, Plan, plan
  <1> QED BY <1>2, <1>3

LEMMA AddWorktreeDoes ==
    ASSUME TypeOK, NEW l \in Launches, AddWorktree(l)
    PROVE  /\ worker[l] = "add"
           /\ \/ /\ ref[branch[l]] # NoRef /\ dir[Dir(l)] = NoDir /\ ~CheckedOut(branch[l])
                 /\ DirIs(Dir(l), l, branch[l], FALSE)
                 /\ WorkerIs(l, "made") \/ WorkerIs(l, "owned")
              \/ WorkerIs(l, "owned") /\ dir' = dir
           /\ Plan
           /\ UNCHANGED <<home, ref, saga, up, job, found, hand, agents, late, crashes>>
  <1>1. branch[l] \in Branches /\ Dir(l) \in Paths /\ l \in Makers
    BY Typed DEF Makers
  <1>2. CASE /\ ref[branch[l]] # NoRef /\ dir[Dir(l)] = NoDir /\ ~CheckedOut(branch[l])
             /\ dir' = [dir EXCEPT ![Dir(l)] = [by |-> l, on |-> branch[l], dirty |-> FALSE]]
             /\ \E said \in {"made", "owned"} : worker' = [worker EXCEPT ![l] = said]
    <2>1. DirIs(Dir(l), l, branch[l], FALSE)
      BY <1>1, <1>2, DirMade
    <2>2. WorkerIs(l, "made") \/ WorkerIs(l, "owned")
      BY <1>2, WorkerStep
    <2> QED BY <1>2, <2>1, <2>2 DEF AddWorktree, Plan, plan
  <1>3. CASE worker' = [worker EXCEPT ![l] = "owned"] /\ UNCHANGED dir
    BY <1>3, WorkerStep DEF AddWorktree, Plan, plan
  <1> QED BY <1>2, <1>3 DEF AddWorktree

\* The launch gives up, or its process begins to reclaim what it claimed.
GivesUp(l) ==
    SagaIs(l, "failed", saga[l].claimed) /\ JobIs(l, "none") /\ UNCHANGED hand

Unwinds(l) == HandIs(home[l], l, "ask") /\ UNCHANGED job

LEMMA GiveUpDoes ==
    ASSUME TypeOK, NEW l \in Launches, GiveUp(l) PROVE GivesUp(l)
  BY SagaStep, JobStep DEF GiveUp, GivesUp, Steps

LEMMA UnwindDoes ==
    ASSUME TypeOK, NEW l \in Launches, NEW based \in BOOLEAN, Unwind(l, based), home[l] \in Procs
    PROVE  Unwinds(l)
  BY HandStarts DEF Unwind, Unwinds

LEMMA TakeWorktreeDoes ==
    ASSUME TypeOK, NEW l \in Launches, TakeWorktree(l), home[l] \in Procs
    PROVE  /\ At(l, "running") /\ WorkerIs(l, "none")
           /\ \/ /\ worker[l] = "made" /\ SagaIs(l, saga[l].step, TRUE) /\ JobIs(l, "made")
                 /\ hand' = hand
              \/ worker[l] = "owned" /\ SagaIs(l, saga[l].step, TRUE) /\ Unwinds(l)
              \/ worker[l] = "unowned" /\ GivesUp(l)
           /\ Plan /\ UNCHANGED <<home, ref, dir, up, found, agents, late, crashes>>
  BY WorkerStep, SagaClaim, JobStep, UnwindDoes, GiveUpDoes DEF TakeWorktree, Plan, plan, repo

LEMMA TimeOutDoes ==
    ASSUME TypeOK, NEW l \in Launches, TimeOut(l)
    PROVE  /\ At(l, "running") /\ worker[l] \in {"branch", "add"} /\ GivesUp(l)
           /\ late' = late \cup {l}
           /\ Plan /\ UNCHANGED <<home, ref, dir, up, worker, found, agents, crashes>>
  BY GiveUpDoes DEF TimeOut, Plan, plan, repo

LEMMA CommitDoes ==
    ASSUME TypeOK, NEW l \in Launches, Commit(l)
    PROVE  /\ At(l, "made") /\ SagaIs(l, "committed", saga[l].claimed) /\ JobIs(l, "live")
           /\ agents' = agents \cup {l}
           /\ Plan /\ UNCHANGED <<home, ref, dir, up, worker, found, hand, late, crashes>>
  BY SagaStep, JobStep DEF Commit, Steps, Plan, plan, repo

LEMMA LaunchDoneDoes ==
    ASSUME TypeOK, NEW l \in Launches, LaunchDone(l)
    PROVE  /\ At(l, "live") /\ SagaIs(l, "done", saga[l].claimed) /\ JobIs(l, "none")
           /\ Plan /\ UNCHANGED <<home, ref, dir, up, worker, found, hand, agents, late, crashes>>
  BY SagaStep, JobStep DEF LaunchDone, Steps, Plan, plan, repo

LEMMA LaunchFailsDoes ==
    ASSUME TypeOK, NEW l \in Launches, LaunchFails(l), home[l] \in Procs
    PROVE  /\ At(l, "made") \/ At(l, "live")
           /\ Unwinds(l)
           /\ agents' \subseteq agents /\ (KillMayFail = FALSE => agents' = agents \ {l})
           /\ Plan /\ UNCHANGED <<home, ref, dir, saga, up, worker, found, late, crashes>>
  BY UnwindDoes DEF LaunchFails, Plan, plan, repo

LEMMA AskBranchDoes ==
    ASSUME TypeOK, NEW i \in Procs, AskBranch(i)
    PROVE  /\ up[i] /\ hand[i].pc = "ask" /\ Launch(i) \in Launches
           /\ \/ dir[Dir(Launch(i))].on = branch[Launch(i)] /\ HandIs(i, Launch(i), "verify")
              \/ dir[Dir(Launch(i))].on # branch[Launch(i)] /\ HandIs(i, Launch(i), "branch")
           /\ Plan
           /\ UNCHANGED <<ref, dir, home, saga, up, job, worker, found, agents, late, crashes>>
  <1>1. hand[i] # Idle /\ Launch(i) \in Launches
    BY Typed, HandFacts DEF AskBranch, Doing
  <1> QED BY <1>1, HandGoes
          DEF AskBranch, Doing, Branch, Place, Dir, Launch, Elsewhere, Plan, plan, repo

LEMMA VerifyDoes ==
    ASSUME TypeOK, NEW i \in Procs, Verify(i)
    PROVE  /\ up[i] /\ hand[i].pc = "verify" /\ Launch(i) \in Launches
           /\ \/ /\ dir[Dir(Launch(i))] = NoDir \/ dir[Dir(Launch(i))].dirty
                 /\ HandIs(i, Launch(i), "end")
              \/ ~dir[Dir(Launch(i))].dirty /\ HandIs(i, Launch(i), "remove")
           /\ Plan
           /\ UNCHANGED <<ref, dir, home, saga, up, job, worker, found, agents, late, crashes>>
  <1>1. hand[i] # Idle /\ Launch(i) \in Launches
    BY Typed, HandFacts DEF Verify, Doing
  <1> QED BY <1>1, HandGoes
          DEF Verify, Doing, Branch, Place, Dir, Launch, Elsewhere, Plan, plan, repo

LEMMA RemoveDoes ==
    ASSUME TypeOK, NEW i \in Procs, Remove(i)
    PROVE  /\ up[i] /\ hand[i].pc = "remove" /\ Launch(i) \in Launches
           /\ DirIs(Dir(Launch(i)), None, None, FALSE) /\ dir'[Dir(Launch(i))] = NoDir
           /\ \/ dir[Dir(Launch(i))] = NoDir /\ HandIs(i, Launch(i), "end")
              \/ HandIs(i, Launch(i), "branch")
           /\ Plan
           /\ UNCHANGED <<ref, home, saga, up, job, worker, found, agents, late, crashes>>
  <1>1. hand[i] # Idle /\ Launch(i) \in Launches /\ Dir(Launch(i)) \in Paths
    BY Typed, HandFacts DEF Remove, Doing
  <1>2. dir' = [dir EXCEPT ![Dir(Launch(i))] = NoDir]
    BY DEF Remove, Branch, Place, Dir
  <1>3. DirIs(Dir(Launch(i)), None, None, FALSE) /\ dir'[Dir(Launch(i))] = NoDir
    BY <1>1, <1>2, DirGone
  <1> QED BY <1>1, <1>3, HandGoes
          DEF Remove, Doing, Branch, Place, Dir, Launch, Elsewhere, Plan, plan

LEMMA CountAheadDoes ==
    ASSUME TypeOK, NEW i \in Procs, CountAhead(i)
    PROVE  /\ up[i] /\ hand[i].pc = "branch" /\ Launch(i) \in Launches
           /\ \/ /\ ref[branch[Launch(i)]] = NoRef \/ ref[branch[Launch(i)]].ahead
                 /\ HandIs(i, Launch(i), "end")
              \/ HandIs(i, Launch(i), "delete")
           /\ Plan
           /\ UNCHANGED <<ref, dir, home, saga, up, job, worker, found, agents, late, crashes>>
  <1>1. hand[i] # Idle /\ Launch(i) \in Launches
    BY Typed, HandFacts DEF CountAhead, Doing
  <1> QED BY <1>1, HandGoes
          DEF CountAhead, Doing, Branch, Launch, Elsewhere, Plan, plan, repo

LEMMA DeleteBranchDoes ==
    ASSUME TypeOK, NEW i \in Procs, DeleteBranch(i)
    PROVE  /\ up[i] /\ hand[i].pc = "delete" /\ Launch(i) \in Launches
           /\ HandIs(i, Launch(i), "end")
           /\ \/ /\ CheckedOut(branch[Launch(i)]) \/ ref[branch[Launch(i)]].ahead
                 /\ ref' = ref
              \/ /\ ~CheckedOut(branch[Launch(i)]) /\ ~ref[branch[Launch(i)]].ahead
                 /\ RefIs(branch[Launch(i)], None, FALSE)
           /\ Plan
           /\ UNCHANGED <<dir, home, saga, up, job, worker, found, agents, late, crashes>>
  <1>1. hand[i] # Idle /\ Launch(i) \in Launches /\ branch[Launch(i)] \in Branches
    BY Typed, HandFacts DEF DeleteBranch, Doing
  <1>2. HandIs(i, Launch(i), "end")
    BY <1>1, HandGoes DEF DeleteBranch, Launch
  <1>3. CASE CheckedOut(branch[Launch(i)]) \/ ref[branch[Launch(i)]].ahead
    BY <1>1, <1>2, <1>3 DEF DeleteBranch, Doing, Branch, Elsewhere, Plan, plan
  <1>4. CASE ~(CheckedOut(branch[Launch(i)]) \/ ref[branch[Launch(i)]].ahead)
    <2>1. ref' = [ref EXCEPT ![branch[Launch(i)]] = NoRef]
      BY <1>4 DEF DeleteBranch, Branch
    <2> QED BY <1>1, <1>2, <1>4, <2>1, RefGone DEF DeleteBranch, Doing, Elsewhere, Plan, plan
  <1> QED BY <1>3, <1>4

LEMMA EndReclaimDoes ==
    ASSUME TypeOK, NEW i \in Procs, EndReclaim(i)
    PROVE  /\ up[i] /\ hand[i].pc = "end" /\ Launch(i) \in Launches
           /\ SagaIs(Launch(i), "failed", saga[Launch(i)].claimed)
           /\ IF home[Launch(i)] = i THEN JobIs(Launch(i), "none") ELSE job' = job
           /\ HandIs(i, None, "idle") /\ hand'[i] = Idle
           /\ Plan /\ UNCHANGED <<home, ref, dir, up, worker, found, agents, late, crashes>>
  <1>1. Launch(i) \in Launches
    BY Typed, HandFacts DEF EndReclaim, Doing
  <1> QED BY <1>1, SagaStep, JobStep, HandEnds DEF EndReclaim, Doing, Steps, Plan, plan, repo

LEMMA CrashDoes ==
    ASSUME TypeOK, NEW i \in Procs, Crash(i)
    PROVE  /\ up[i] /\ (CrashInReclaim = FALSE => hand[i] = Idle)
           /\ crashes' = crashes + 1 /\ crashes' \in 0..MaxCrashes
           /\ up' \in [Procs -> BOOLEAN] /\ ~up'[i] /\ \A j \in Procs \ {i} : up'[j] = up[j]
           /\ HandIs(i, None, "idle") /\ hand'[i] = Idle
           /\ found' \in [Procs -> SUBSET Founds] /\ found'[i] = {}
           /\ \A j \in Procs \ {i} : found'[j] = found[j]
           /\ job' \in [Launches -> {"none", "begun", "running", "made", "live"}]
           /\ worker' \in [Launches -> {"none", "branch", "add", "made", "owned", "unowned"}]
           /\ \A l \in Launches :
                 IF home[l] = i THEN job'[l] = "none" /\ worker'[l] = "none"
                 ELSE job'[l] = job[l] /\ worker'[l] = worker[l]
           /\ Plan /\ UNCHANGED <<home, ref, dir, saga, agents, late>>
  <1>1. crashes' \in 0..MaxCrashes
    BY ClaimAssumption DEF Crash, TypeOK
  <1>2. HandIs(i, None, "idle") /\ hand'[i] = Idle
    BY HandEnds DEF Crash
  <1>3. /\ up' \in [Procs -> BOOLEAN] /\ ~up'[i] /\ \A j \in Procs \ {i} : up'[j] = up[j]
        /\ found' \in [Procs -> SUBSET Founds] /\ found'[i] = {}
        /\ \A j \in Procs \ {i} : found'[j] = found[j]
    BY Typed DEF Crash
  <1>4. /\ job' \in [Launches -> {"none", "begun", "running", "made", "live"}]
        /\ worker' \in [Launches -> {"none", "branch", "add", "made", "owned", "unowned"}]
        /\ \A l \in Launches :
              IF home[l] = i THEN job'[l] = "none" /\ worker'[l] = "none"
              ELSE job'[l] = job[l] /\ worker'[l] = worker[l]
    BY Typed DEF Crash
  <1> QED BY <1>1, <1>2, <1>3, <1>4 DEF Crash, Plan, plan, repo

LEMMA StartDoes ==
    ASSUME TypeOK, NEW i \in Procs, Start(i)
    PROVE  /\ ~up[i] /\ (StartTogether = FALSE => \A j \in Procs : ~Recovers(j))
           /\ up' \in [Procs -> BOOLEAN] /\ up'[i] /\ \A j \in Procs \ {i} : up'[j] = up[j]
           /\ found' \in [Procs -> SUBSET Founds]
           /\ \A j \in Procs \ {i} : found'[j] = found[j]
           /\ \A f \in found'[i] : job[f.of] = "none" /\ saga[f.of] = f.row /\ f.of \in Launches
           /\ Plan /\ UNCHANGED <<home, ref, dir, saga, job, worker, hand, agents, late, crashes>>
  <1>1. PICK expired \in SUBSET {l \in Launches : Unfinished(saga[l]) /\ job[l] = "none"} :
           found' = [found EXCEPT ![i] = {[of |-> l, row |-> saga[l]] : l \in expired}]
    BY DEF Start
  <1> DEFINE read == {[of |-> l, row |-> saga[l]] : l \in expired}
  <1>2. ASSUME NEW l \in expired
        PROVE  /\ [of |-> l, row |-> saga[l]] \in Founds
               /\ [of |-> l, row |-> saga[l]].of = l /\ [of |-> l, row |-> saga[l]].row = saga[l]
               /\ l \in Launches /\ job[l] = "none"
    <2>1. l \in Launches /\ saga[l] \in Sagas /\ Unfinished(saga[l]) /\ job[l] = "none"
      BY Typed
    <2>2. saga[l] \in Rows
      BY <2>1 DEF Sagas, Rows, Unfinished
    <2> QED BY <2>1, <2>2 DEF Founds
  <1>3. /\ read \in SUBSET Founds
        /\ \A f \in read : job[f.of] = "none" /\ saga[f.of] = f.row /\ f.of \in Launches
    BY <1>2
  <1> HIDE DEF read
  <1>4. /\ found' \in [Procs -> SUBSET Founds] /\ found'[i] = read
        /\ \A j \in Procs \ {i} : found'[j] = found[j]
    <2>1. found' = [found EXCEPT ![i] = read]
      BY <1>1 DEF read
    <2> QED BY <1>3, <2>1, Typed
  <1>5. up' \in [Procs -> BOOLEAN] /\ up'[i] /\ \A j \in Procs \ {i} : up'[j] = up[j]
    BY Typed DEF Start
  <1> QED BY <1>3, <1>4, <1>5 DEF Start, Plan, plan, repo

LEMMA ReconcileDoes ==
    ASSUME TypeOK, NEW i \in Procs, Reconcile(i)
    PROVE  /\ up[i] /\ hand[i] = Idle
           /\ \E f \in found[i] :
                 /\ f.of \in Launches
                 /\ found' \in [Procs -> SUBSET Founds] /\ found'[i] = found[i] \ {f}
                 /\ \A j \in Procs \ {i} : found'[j] = found[j]
                 /\ \/ /\ f.row.step = "committed" /\ SagaIs(f.of, "done", saga[f.of].claimed)
                       /\ hand' = hand
                    \/ /\ f.row.step = "worktree" /\ f.row.claimed
                       /\ HandIs(i, f.of, "ask") /\ saga' = saga
                    \/ /\ f.row.step # "committed" /\ ~f.row.claimed
                       /\ SagaIs(f.of, "failed", saga[f.of].claimed) /\ hand' = hand
           /\ Plan /\ UNCHANGED <<home, ref, dir, up, job, worker, agents, late, crashes>>
  <1>1. PICK f \in found[i] :
           /\ found' = [found EXCEPT ![i] = @ \ {f}]
           /\ \/ /\ f.row.step = "committed"
                 /\ saga' = [saga EXCEPT ![f.of].step = "done"] /\ UNCHANGED hand
              \/ /\ f.row.step = "worktree" /\ f.row.claimed
                 /\ hand' = [hand EXCEPT ![i] = [of |-> f.of, pc |-> "ask", based |-> f.row.based]]
                 /\ UNCHANGED saga
              \/ /\ f.row.step # "committed" /\ ~f.row.claimed
                 /\ saga' = [saga EXCEPT ![f.of].step = "failed"] /\ UNCHANGED hand
    BY Zenon DEF Reconcile
  <1>2. f \in Founds /\ f.of \in Launches /\ f.row.based \in BOOLEAN
    <2>1. f \in Founds
      BY Typed
    <2> QED BY <2>1 DEF Founds, Rows
  <1>3. /\ found' \in [Procs -> SUBSET Founds] /\ found'[i] = found[i] \ {f}
        /\ \A j \in Procs \ {i} : found'[j] = found[j]
    BY <1>1, Typed
  <1>4. \/ /\ f.row.step = "committed" /\ SagaIs(f.of, "done", saga[f.of].claimed)
           /\ hand' = hand
        \/ /\ f.row.step = "worktree" /\ f.row.claimed
           /\ HandIs(i, f.of, "ask") /\ saga' = saga
        \/ /\ f.row.step # "committed" /\ ~f.row.claimed
           /\ SagaIs(f.of, "failed", saga[f.of].claimed) /\ hand' = hand
    <2>1. CASE f.row.step = "committed" /\ saga' = [saga EXCEPT ![f.of].step = "done"] /\ hand' = hand
      BY <1>2, <2>1, SagaStep DEF Steps
    <2>2. CASE /\ f.row.step = "worktree" /\ f.row.claimed /\ saga' = saga
               /\ hand' = [hand EXCEPT ![i] = [of |-> f.of, pc |-> "ask", based |-> f.row.based]]
      BY <1>2, <2>2, HandStarts
    <2>3. CASE /\ f.row.step # "committed" /\ ~f.row.claimed /\ hand' = hand
               /\ saga' = [saga EXCEPT ![f.of].step = "failed"]
      BY <1>2, <2>3, SagaStep DEF Steps
    <2> QED BY <1>1, <2>1, <2>2, <2>3
  <1> QED BY <1>2, <1>3, <1>4 DEF Reconcile, Plan, plan, repo

Outside ==
    Plan /\ UNCHANGED <<home, saga, up, job, worker, found, hand, agents, late, crashes>>

LEMMA WorkDoes ==
    ASSUME TypeOK, NEW p \in Paths, Work(p)
    PROVE  /\ dir[p].by \in agents \cup {Other} /\ dir[p].on \in Branches
           /\ \/ DirIs(p, dir[p].by, dir[p].on, TRUE) /\ ref' = ref
              \/ /\ DirIs(p, dir[p].by, dir[p].on, FALSE)
                 /\ RefIs(dir[p].on, ref[dir[p].on].by, TRUE)
           /\ Outside
  <1>1. dir[p].by \in agents \cup {Other} /\ dir[p] # NoDir
    BY Nothing DEF Work, TypeOK
  <1>2. dir[p].on \in Branches
    BY <1>1, Typed, DirFacts
  <1>3. Outside
    BY DEF Work, Rest, Outside, Plan, plan, procs
  <1>4. CASE dir' = [dir EXCEPT ![p].dirty = TRUE] /\ ref' = ref
    BY <1>1, <1>2, <1>3, <1>4, DirSoiled
  <1>5. CASE dir' = [dir EXCEPT ![p].dirty = FALSE] /\ ref' = [ref EXCEPT ![dir[p].on].ahead = TRUE]
    BY <1>1, <1>2, <1>3, <1>5, DirSoiled, RefAhead
  <1> QED BY <1>4, <1>5 DEF Work

LEMMA OtherSessionDoes ==
    ASSUME TypeOK, NEW b \in Branches, OtherSession(b)
    PROVE  /\ dir[path[b]] = NoDir /\ ~CheckedOut(b) /\ (OthersAttach = FALSE => ref[b] = NoRef)
           /\ path[b] \in Paths /\ DirIs(path[b], Other, b, FALSE)
           /\ \/ ref[b] = NoRef /\ RefIs(b, Other, FALSE)
              \/ ref[b] # NoRef /\ ref' = ref
           /\ Outside
  <1>1. Other \in Makers /\ path[b] \in Paths
    BY Typed DEF Makers
  <1>2. DirIs(path[b], Other, b, FALSE)
    BY <1>1, DirMade DEF OtherSession
  <1>3. Outside
    BY DEF OtherSession, Rest, Outside, Plan, plan, procs
  <1>4. \/ ref[b] = NoRef /\ RefIs(b, Other, FALSE)
        \/ ref[b] # NoRef /\ ref' = ref
    BY <1>1, RefCut, Nothing DEF OtherSession
  <1> QED BY <1>1, <1>2, <1>3, <1>4 DEF OtherSession

LEMMA CleanUpDoes ==
    ASSUME TypeOK, NEW l \in Launches, CleanUp(l)
    PROVE  /\ Cleans = FALSE => saga[l].step = "failed"
           /\ l \notin agents /\ dir[Dir(l)].by = l
           /\ DirIs(Dir(l), None, None, FALSE) /\ dir'[Dir(l)] = NoDir
           /\ RefIs(branch[l], None, FALSE)
           /\ Outside
  BY Typed, DirGone, RefGone DEF CleanUp, Rest, Outside, Plan, plan, procs

-----------------------------------------------------------------------------
(* Types *)

\* The types, put together again.
LEMMA TypesFrom ==
    ASSUME branch' \in [Launches -> Branches], path' \in [Branches -> Paths],
           ref' \in [Branches -> Refs], dir' \in [Paths -> Dirs],
           saga' \in [Launches -> Sagas], home' \in [Launches -> Procs \cup {None}],
           job' \in [Launches -> {"none", "begun", "running", "made", "live"}],
           worker' \in [Launches -> {"none", "branch", "add", "made", "owned", "unowned"}],
           up' \in [Procs -> BOOLEAN], found' \in [Procs -> SUBSET Founds],
           hand' \in [Procs -> Hands],
           agents' \subseteq Launches, late' \subseteq Launches, crashes' \in 0..MaxCrashes,
           \A m \in Launches : job'[m] # "none" => home'[m] \in Procs,
           \A m \in Launches : job'[m] \in {"made", "live"} => saga'[m].claimed,
           \A j \in Procs : hand'[j] # Idle => saga'[hand'[j].of].claimed,
           \A j \in Procs : \A f \in found'[j] : f.row.claimed => saga'[f.of].claimed
    PROVE  TypeInv'
  <1>1. TypeOK'
    BY DEF TypeOK, Launch, Refs, Dirs, Sagas, Steps, Rows, Founds, Hands
  <1> QED BY <1>1 DEF TypeInv

\* What a reclaim is of, and what was found, is a launch.
LEMMA WhoseTheyAre ==
    ASSUME TypeOK
    PROVE  /\ \A j \in Procs : hand[j] # Idle =>
                 hand[j].of \in Launches /\ saga[hand[j].of].claimed
           /\ \A j \in Procs : \A f \in found[j] : f.of \in Launches
  BY Typed DEF TypeOK, Launch, Founds

LEMMA BeginTypes ==
    ASSUME TypeInv, NEW l \in Launches, NEW i \in Procs, Begin(l, i) PROVE TypeInv'
  <1>t. TypeOK
    BY DEF TypeInv
  <1>1. /\ ref' \in [Branches -> Refs] /\ dir' \in [Paths -> Dirs]
        /\ up' \in [Procs -> BOOLEAN] /\ found' \in [Procs -> SUBSET Founds]
        /\ saga' \in [Launches -> Sagas] /\ home' \in [Launches -> Procs \cup {None}]
        /\ job' \in [Launches -> {"none", "begun", "running", "made", "live"}]
        /\ worker' \in [Launches -> {"none", "branch", "add", "made", "owned", "unowned"}]
        /\ hand' \in [Procs -> Hands]
    BY <1>t, BeginDoes, Typed DEF SagaIs, JobIs, Plan, Serves
  <1>2. /\ branch' \in [Launches -> Branches] /\ path' \in [Branches -> Paths]
        /\ agents' \subseteq Launches /\ late' \subseteq Launches /\ crashes' \in 0..MaxCrashes
    BY <1>t, BeginDoes DEF TypeOK, SagaIs, JobIs, Plan, Serves
  <1>3. \A m \in Launches : saga[m].claimed => saga'[m].claimed
    BY <1>t, BeginDoes DEF SagaIs, JobIs, Plan, Serves
  <1>4. /\ \A m \in Launches : job'[m] # "none" => home'[m] \in Procs
        /\ \A m \in Launches : job'[m] \in {"made", "live"} => saga'[m].claimed
    BY <1>t, <1>3, BeginDoes DEF TypeInv, SagaIs, JobIs, Plan, Serves
  <1>5. \A j \in Procs : hand'[j] # Idle => saga'[hand'[j].of].claimed
    BY <1>t, <1>3, BeginDoes, WhoseTheyAre, HandFacts, Typed DEF TypeInv, SagaIs, JobIs, Plan, Serves
  <1>6. \A j \in Procs : \A f \in found'[j] : f.row.claimed => saga'[f.of].claimed
    BY <1>t, <1>3, BeginDoes, WhoseTheyAre DEF TypeInv, SagaIs, JobIs, Plan, Serves
  <1> QED BY <1>1, <1>2, <1>4, <1>5, <1>6, TypesFrom

LEMMA StartWorktreeTypes ==
    ASSUME TypeInv, NEW l \in Launches, StartWorktree(l) PROVE TypeInv'
  <1>t. TypeOK
    BY DEF TypeInv
  <1>1. /\ ref' \in [Branches -> Refs] /\ dir' \in [Paths -> Dirs]
        /\ up' \in [Procs -> BOOLEAN] /\ found' \in [Procs -> SUBSET Founds]
        /\ saga' \in [Launches -> Sagas] /\ home' \in [Launches -> Procs \cup {None}]
        /\ job' \in [Launches -> {"none", "begun", "running", "made", "live"}]
        /\ worker' \in [Launches -> {"none", "branch", "add", "made", "owned", "unowned"}]
        /\ hand' \in [Procs -> Hands]
    BY <1>t, StartWorktreeDoes, Typed DEF SagaIs, JobIs, WorkerIs, Plan, At
  <1>2. /\ branch' \in [Launches -> Branches] /\ path' \in [Branches -> Paths]
        /\ agents' \subseteq Launches /\ late' \subseteq Launches /\ crashes' \in 0..MaxCrashes
    BY <1>t, StartWorktreeDoes DEF TypeOK, SagaIs, JobIs, WorkerIs, Plan, At
  <1>3. \A m \in Launches : saga[m].claimed => saga'[m].claimed
    BY <1>t, StartWorktreeDoes DEF SagaIs, JobIs, WorkerIs, Plan, At
  <1>4. /\ \A m \in Launches : job'[m] # "none" => home'[m] \in Procs
        /\ \A m \in Launches : job'[m] \in {"made", "live"} => saga'[m].claimed
    BY <1>t, <1>3, StartWorktreeDoes DEF TypeInv, SagaIs, JobIs, WorkerIs, Plan, At
  <1>5. \A j \in Procs : hand'[j] # Idle => saga'[hand'[j].of].claimed
    BY <1>t, <1>3, StartWorktreeDoes, WhoseTheyAre, HandFacts, Typed DEF TypeInv, SagaIs, JobIs, WorkerIs, Plan, At
  <1>6. \A j \in Procs : \A f \in found'[j] : f.row.claimed => saga'[f.of].claimed
    BY <1>t, <1>3, StartWorktreeDoes, WhoseTheyAre DEF TypeInv, SagaIs, JobIs, WorkerIs, Plan, At
  <1> QED BY <1>1, <1>2, <1>4, <1>5, <1>6, TypesFrom

LEMMA CutBranchTypes ==
    ASSUME TypeInv, NEW l \in Launches, CutBranch(l) PROVE TypeInv'
  <1>t. TypeOK
    BY DEF TypeInv
  <1>1. /\ ref' \in [Branches -> Refs] /\ dir' \in [Paths -> Dirs]
        /\ up' \in [Procs -> BOOLEAN] /\ found' \in [Procs -> SUBSET Founds]
        /\ saga' \in [Launches -> Sagas] /\ home' \in [Launches -> Procs \cup {None}]
        /\ job' \in [Launches -> {"none", "begun", "running", "made", "live"}]
        /\ worker' \in [Launches -> {"none", "branch", "add", "made", "owned", "unowned"}]
        /\ hand' \in [Procs -> Hands]
    BY <1>t, CutBranchDoes, Typed DEF RefIs, WorkerIs, Plan
  <1>2. /\ branch' \in [Launches -> Branches] /\ path' \in [Branches -> Paths]
        /\ agents' \subseteq Launches /\ late' \subseteq Launches /\ crashes' \in 0..MaxCrashes
    BY <1>t, CutBranchDoes DEF TypeOK, RefIs, WorkerIs, Plan
  <1>3. \A m \in Launches : saga[m].claimed => saga'[m].claimed
    BY <1>t, CutBranchDoes DEF RefIs, WorkerIs, Plan
  <1>4. /\ \A m \in Launches : job'[m] # "none" => home'[m] \in Procs
        /\ \A m \in Launches : job'[m] \in {"made", "live"} => saga'[m].claimed
    BY <1>t, <1>3, CutBranchDoes DEF TypeInv, RefIs, WorkerIs, Plan
  <1>5. \A j \in Procs : hand'[j] # Idle => saga'[hand'[j].of].claimed
    BY <1>t, <1>3, CutBranchDoes, WhoseTheyAre, HandFacts, Typed DEF TypeInv, RefIs, WorkerIs, Plan
  <1>6. \A j \in Procs : \A f \in found'[j] : f.row.claimed => saga'[f.of].claimed
    BY <1>t, <1>3, CutBranchDoes, WhoseTheyAre DEF TypeInv, RefIs, WorkerIs, Plan
  <1> QED BY <1>1, <1>2, <1>4, <1>5, <1>6, TypesFrom

LEMMA AddWorktreeTypes ==
    ASSUME TypeInv, NEW l \in Launches, AddWorktree(l) PROVE TypeInv'
  <1>t. TypeOK
    BY DEF TypeInv
  <1>1. /\ ref' \in [Branches -> Refs] /\ dir' \in [Paths -> Dirs]
        /\ up' \in [Procs -> BOOLEAN] /\ found' \in [Procs -> SUBSET Founds]
        /\ saga' \in [Launches -> Sagas] /\ home' \in [Launches -> Procs \cup {None}]
        /\ job' \in [Launches -> {"none", "begun", "running", "made", "live"}]
        /\ worker' \in [Launches -> {"none", "branch", "add", "made", "owned", "unowned"}]
        /\ hand' \in [Procs -> Hands]
    BY <1>t, AddWorktreeDoes, Typed DEF DirIs, WorkerIs, Plan
  <1>2. /\ branch' \in [Launches -> Branches] /\ path' \in [Branches -> Paths]
        /\ agents' \subseteq Launches /\ late' \subseteq Launches /\ crashes' \in 0..MaxCrashes
    BY <1>t, AddWorktreeDoes DEF TypeOK, DirIs, WorkerIs, Plan
  <1>3. \A m \in Launches : saga[m].claimed => saga'[m].claimed
    BY <1>t, AddWorktreeDoes DEF DirIs, WorkerIs, Plan
  <1>4. /\ \A m \in Launches : job'[m] # "none" => home'[m] \in Procs
        /\ \A m \in Launches : job'[m] \in {"made", "live"} => saga'[m].claimed
    BY <1>t, <1>3, AddWorktreeDoes DEF TypeInv, DirIs, WorkerIs, Plan
  <1>5. \A j \in Procs : hand'[j] # Idle => saga'[hand'[j].of].claimed
    BY <1>t, <1>3, AddWorktreeDoes, WhoseTheyAre, HandFacts, Typed DEF TypeInv, DirIs, WorkerIs, Plan
  <1>6. \A j \in Procs : \A f \in found'[j] : f.row.claimed => saga'[f.of].claimed
    BY <1>t, <1>3, AddWorktreeDoes, WhoseTheyAre DEF TypeInv, DirIs, WorkerIs, Plan
  <1> QED BY <1>1, <1>2, <1>4, <1>5, <1>6, TypesFrom

LEMMA TakeWorktreeTypes ==
    ASSUME TypeInv, NEW l \in Launches, TakeWorktree(l) PROVE TypeInv'
  <1>t. TypeOK
    BY DEF TypeInv
  <1>h. home[l] \in Procs
    BY <1>t, Typed DEF TypeInv, TakeWorktree, At
  <1>g. hand' = hand \/ HandIs(home[l], l, "ask")
    BY <1>t, <1>h, TakeWorktreeDoes DEF GivesUp, Unwinds
  <1>1. /\ ref' \in [Branches -> Refs] /\ dir' \in [Paths -> Dirs]
        /\ up' \in [Procs -> BOOLEAN] /\ found' \in [Procs -> SUBSET Founds]
        /\ saga' \in [Launches -> Sagas] /\ home' \in [Launches -> Procs \cup {None}]
        /\ job' \in [Launches -> {"none", "begun", "running", "made", "live"}]
        /\ worker' \in [Launches -> {"none", "branch", "add", "made", "owned", "unowned"}]
    BY <1>t, <1>h, TakeWorktreeDoes, Typed DEF SagaIs, JobIs, WorkerIs, GivesUp, Unwinds
  <1>2. /\ branch' \in [Launches -> Branches] /\ path' \in [Branches -> Paths]
        /\ agents' \subseteq Launches /\ late' \subseteq Launches /\ crashes' \in 0..MaxCrashes
    BY <1>t, <1>h, TakeWorktreeDoes DEF TypeOK, SagaIs, JobIs, HandIs, WorkerIs, GivesUp, Unwinds, Plan, At
  <1>3. \A m \in Launches : saga[m].claimed => saga'[m].claimed
    BY <1>t, <1>h, TakeWorktreeDoes DEF SagaIs, JobIs, HandIs, WorkerIs, GivesUp, Unwinds, Plan, At
  <1>4. /\ \A m \in Launches : job'[m] # "none" => home'[m] \in Procs
        /\ \A m \in Launches : job'[m] \in {"made", "live"} => saga'[m].claimed
    BY <1>t, <1>3, <1>h, TakeWorktreeDoes DEF TypeInv, SagaIs, JobIs, HandIs, WorkerIs, GivesUp, Unwinds, Plan, At
  <1>7. hand' \in [Procs -> Hands]
    BY <1>t, <1>g, Typed DEF HandIs
  <1>5. ASSUME NEW j \in Procs, hand'[j] # Idle PROVE saga'[hand'[j].of].claimed
    <2>1. CASE hand'[j] = hand[j]
      BY <1>t, <1>3, <1>5, <2>1, WhoseTheyAre
    <2>2. CASE hand'[j] # hand[j]
      <3>1. hand'[j].of = l /\ hand' # hand
        BY <1>h, <1>g, <2>2 DEF HandIs
      <3>2. saga'[l].claimed
        BY <1>t, <1>h, <2>2, <3>1, TakeWorktreeDoes DEF GivesUp, SagaIs
      <3> QED BY <3>1, <3>2
    <2> QED BY <2>1, <2>2
  <1>6. \A j \in Procs : \A f \in found'[j] : f.row.claimed => saga'[f.of].claimed
    BY <1>t, <1>3, <1>h, TakeWorktreeDoes, WhoseTheyAre DEF TypeInv, SagaIs, JobIs, HandIs, WorkerIs, GivesUp, Unwinds, Plan, At
  <1> QED BY <1>1, <1>2, <1>4, <1>5, <1>6, <1>7, TypesFrom

LEMMA TimeOutTypes ==
    ASSUME TypeInv, NEW l \in Launches, TimeOut(l) PROVE TypeInv'
  <1>t. TypeOK
    BY DEF TypeInv
  <1>1. /\ ref' \in [Branches -> Refs] /\ dir' \in [Paths -> Dirs]
        /\ up' \in [Procs -> BOOLEAN] /\ found' \in [Procs -> SUBSET Founds]
        /\ saga' \in [Launches -> Sagas] /\ home' \in [Launches -> Procs \cup {None}]
        /\ job' \in [Launches -> {"none", "begun", "running", "made", "live"}]
        /\ worker' \in [Launches -> {"none", "branch", "add", "made", "owned", "unowned"}]
        /\ hand' \in [Procs -> Hands]
    BY <1>t, TimeOutDoes, Typed DEF SagaIs, JobIs, GivesUp, Plan, At
  <1>2. /\ branch' \in [Launches -> Branches] /\ path' \in [Branches -> Paths]
        /\ agents' \subseteq Launches /\ late' \subseteq Launches /\ crashes' \in 0..MaxCrashes
    BY <1>t, TimeOutDoes DEF TypeOK, SagaIs, JobIs, GivesUp, Plan, At
  <1>3. \A m \in Launches : saga[m].claimed => saga'[m].claimed
    BY <1>t, TimeOutDoes DEF SagaIs, JobIs, GivesUp, Plan, At
  <1>4. /\ \A m \in Launches : job'[m] # "none" => home'[m] \in Procs
        /\ \A m \in Launches : job'[m] \in {"made", "live"} => saga'[m].claimed
    BY <1>t, <1>3, TimeOutDoes DEF TypeInv, SagaIs, JobIs, GivesUp, Plan, At
  <1>5. \A j \in Procs : hand'[j] # Idle => saga'[hand'[j].of].claimed
    BY <1>t, <1>3, TimeOutDoes, WhoseTheyAre, HandFacts, Typed DEF TypeInv, SagaIs, JobIs, GivesUp, Plan, At
  <1>6. \A j \in Procs : \A f \in found'[j] : f.row.claimed => saga'[f.of].claimed
    BY <1>t, <1>3, TimeOutDoes, WhoseTheyAre DEF TypeInv, SagaIs, JobIs, GivesUp, Plan, At
  <1> QED BY <1>1, <1>2, <1>4, <1>5, <1>6, TypesFrom

LEMMA CommitTypes ==
    ASSUME TypeInv, NEW l \in Launches, Commit(l) PROVE TypeInv'
  <1>t. TypeOK
    BY DEF TypeInv
  <1>1. /\ ref' \in [Branches -> Refs] /\ dir' \in [Paths -> Dirs]
        /\ up' \in [Procs -> BOOLEAN] /\ found' \in [Procs -> SUBSET Founds]
        /\ saga' \in [Launches -> Sagas] /\ home' \in [Launches -> Procs \cup {None}]
        /\ job' \in [Launches -> {"none", "begun", "running", "made", "live"}]
        /\ worker' \in [Launches -> {"none", "branch", "add", "made", "owned", "unowned"}]
        /\ hand' \in [Procs -> Hands]
    BY <1>t, CommitDoes, Typed DEF SagaIs, JobIs, Plan, At
  <1>2. /\ branch' \in [Launches -> Branches] /\ path' \in [Branches -> Paths]
        /\ agents' \subseteq Launches /\ late' \subseteq Launches /\ crashes' \in 0..MaxCrashes
    BY <1>t, CommitDoes DEF TypeOK, SagaIs, JobIs, Plan, At
  <1>3. \A m \in Launches : saga[m].claimed => saga'[m].claimed
    BY <1>t, CommitDoes DEF SagaIs, JobIs, Plan, At
  <1>4. /\ \A m \in Launches : job'[m] # "none" => home'[m] \in Procs
        /\ \A m \in Launches : job'[m] \in {"made", "live"} => saga'[m].claimed
    BY <1>t, <1>3, CommitDoes DEF TypeInv, SagaIs, JobIs, Plan, At
  <1>5. \A j \in Procs : hand'[j] # Idle => saga'[hand'[j].of].claimed
    BY <1>t, <1>3, CommitDoes, WhoseTheyAre, HandFacts, Typed DEF TypeInv, SagaIs, JobIs, Plan, At
  <1>6. \A j \in Procs : \A f \in found'[j] : f.row.claimed => saga'[f.of].claimed
    BY <1>t, <1>3, CommitDoes, WhoseTheyAre DEF TypeInv, SagaIs, JobIs, Plan, At
  <1> QED BY <1>1, <1>2, <1>4, <1>5, <1>6, TypesFrom

LEMMA LaunchDoneTypes ==
    ASSUME TypeInv, NEW l \in Launches, LaunchDone(l) PROVE TypeInv'
  <1>t. TypeOK
    BY DEF TypeInv
  <1>1. /\ ref' \in [Branches -> Refs] /\ dir' \in [Paths -> Dirs]
        /\ up' \in [Procs -> BOOLEAN] /\ found' \in [Procs -> SUBSET Founds]
        /\ saga' \in [Launches -> Sagas] /\ home' \in [Launches -> Procs \cup {None}]
        /\ job' \in [Launches -> {"none", "begun", "running", "made", "live"}]
        /\ worker' \in [Launches -> {"none", "branch", "add", "made", "owned", "unowned"}]
        /\ hand' \in [Procs -> Hands]
    BY <1>t, LaunchDoneDoes, Typed DEF SagaIs, JobIs, Plan, At
  <1>2. /\ branch' \in [Launches -> Branches] /\ path' \in [Branches -> Paths]
        /\ agents' \subseteq Launches /\ late' \subseteq Launches /\ crashes' \in 0..MaxCrashes
    BY <1>t, LaunchDoneDoes DEF TypeOK, SagaIs, JobIs, Plan, At
  <1>3. \A m \in Launches : saga[m].claimed => saga'[m].claimed
    BY <1>t, LaunchDoneDoes DEF SagaIs, JobIs, Plan, At
  <1>4. /\ \A m \in Launches : job'[m] # "none" => home'[m] \in Procs
        /\ \A m \in Launches : job'[m] \in {"made", "live"} => saga'[m].claimed
    BY <1>t, <1>3, LaunchDoneDoes DEF TypeInv, SagaIs, JobIs, Plan, At
  <1>5. \A j \in Procs : hand'[j] # Idle => saga'[hand'[j].of].claimed
    BY <1>t, <1>3, LaunchDoneDoes, WhoseTheyAre, HandFacts, Typed DEF TypeInv, SagaIs, JobIs, Plan, At
  <1>6. \A j \in Procs : \A f \in found'[j] : f.row.claimed => saga'[f.of].claimed
    BY <1>t, <1>3, LaunchDoneDoes, WhoseTheyAre DEF TypeInv, SagaIs, JobIs, Plan, At
  <1> QED BY <1>1, <1>2, <1>4, <1>5, <1>6, TypesFrom

LEMMA LaunchFailsTypes ==
    ASSUME TypeInv, NEW l \in Launches, LaunchFails(l) PROVE TypeInv'
  <1>t. TypeOK
    BY DEF TypeInv
  <1>h. home[l] \in Procs
    BY <1>t, Typed DEF TypeInv, LaunchFails, At
  <1>g. hand' = hand \/ HandIs(home[l], l, "ask")
    BY <1>t, <1>h, LaunchFailsDoes DEF Unwinds
  <1>1. /\ ref' \in [Branches -> Refs] /\ dir' \in [Paths -> Dirs]
        /\ up' \in [Procs -> BOOLEAN] /\ found' \in [Procs -> SUBSET Founds]
        /\ saga' \in [Launches -> Sagas] /\ home' \in [Launches -> Procs \cup {None}]
        /\ job' \in [Launches -> {"none", "begun", "running", "made", "live"}]
        /\ worker' \in [Launches -> {"none", "branch", "add", "made", "owned", "unowned"}]
    BY <1>t, <1>h, LaunchFailsDoes, Typed DEF Unwinds
  <1>2. /\ branch' \in [Launches -> Branches] /\ path' \in [Branches -> Paths]
        /\ agents' \subseteq Launches /\ late' \subseteq Launches /\ crashes' \in 0..MaxCrashes
    BY <1>t, <1>h, LaunchFailsDoes DEF TypeOK, HandIs, Unwinds, Plan, At
  <1>3. \A m \in Launches : saga[m].claimed => saga'[m].claimed
    BY <1>t, <1>h, LaunchFailsDoes DEF HandIs, Unwinds, Plan, At
  <1>4. /\ \A m \in Launches : job'[m] # "none" => home'[m] \in Procs
        /\ \A m \in Launches : job'[m] \in {"made", "live"} => saga'[m].claimed
    BY <1>t, <1>3, <1>h, LaunchFailsDoes DEF TypeInv, HandIs, Unwinds, Plan, At
  <1>7. hand' \in [Procs -> Hands]
    BY <1>t, <1>g, Typed DEF HandIs
  <1>5. ASSUME NEW j \in Procs, hand'[j] # Idle PROVE saga'[hand'[j].of].claimed
    <2>1. CASE hand'[j] = hand[j]
      BY <1>t, <1>3, <1>5, <2>1, WhoseTheyAre
    <2>2. CASE hand'[j] # hand[j]
      <3>1. hand'[j].of = l /\ hand' # hand
        BY <1>h, <1>g, <2>2 DEF HandIs
      <3>2. saga'[l].claimed
        BY <1>t, <1>h, <2>2, <3>1, LaunchFailsDoes DEF GivesUp, SagaIs, TypeInv, At
      <3> QED BY <3>1, <3>2
    <2> QED BY <2>1, <2>2
  <1>6. \A j \in Procs : \A f \in found'[j] : f.row.claimed => saga'[f.of].claimed
    BY <1>t, <1>3, <1>h, LaunchFailsDoes, WhoseTheyAre DEF TypeInv, HandIs, Unwinds, Plan, At
  <1> QED BY <1>1, <1>2, <1>4, <1>5, <1>6, <1>7, TypesFrom

LEMMA CleanUpTypes ==
    ASSUME TypeInv, NEW l \in Launches, CleanUp(l) PROVE TypeInv'
  <1>t. TypeOK
    BY DEF TypeInv
  <1>1. /\ ref' \in [Branches -> Refs] /\ dir' \in [Paths -> Dirs]
        /\ up' \in [Procs -> BOOLEAN] /\ found' \in [Procs -> SUBSET Founds]
        /\ saga' \in [Launches -> Sagas] /\ home' \in [Launches -> Procs \cup {None}]
        /\ job' \in [Launches -> {"none", "begun", "running", "made", "live"}]
        /\ worker' \in [Launches -> {"none", "branch", "add", "made", "owned", "unowned"}]
        /\ hand' \in [Procs -> Hands]
    BY <1>t, CleanUpDoes, Typed DEF DirIs, RefIs, Outside, Plan
  <1>2. /\ branch' \in [Launches -> Branches] /\ path' \in [Branches -> Paths]
        /\ agents' \subseteq Launches /\ late' \subseteq Launches /\ crashes' \in 0..MaxCrashes
    BY <1>t, CleanUpDoes DEF TypeOK, DirIs, RefIs, Outside, Plan
  <1>3. \A m \in Launches : saga[m].claimed => saga'[m].claimed
    BY <1>t, CleanUpDoes DEF DirIs, RefIs, Outside, Plan
  <1>4. /\ \A m \in Launches : job'[m] # "none" => home'[m] \in Procs
        /\ \A m \in Launches : job'[m] \in {"made", "live"} => saga'[m].claimed
    BY <1>t, <1>3, CleanUpDoes DEF TypeInv, DirIs, RefIs, Outside, Plan
  <1>5. \A j \in Procs : hand'[j] # Idle => saga'[hand'[j].of].claimed
    BY <1>t, <1>3, CleanUpDoes, WhoseTheyAre, HandFacts, Typed DEF TypeInv, DirIs, RefIs, Outside, Plan
  <1>6. \A j \in Procs : \A f \in found'[j] : f.row.claimed => saga'[f.of].claimed
    BY <1>t, <1>3, CleanUpDoes, WhoseTheyAre DEF TypeInv, DirIs, RefIs, Outside, Plan
  <1> QED BY <1>1, <1>2, <1>4, <1>5, <1>6, TypesFrom

LEMMA AskBranchTypes ==
    ASSUME TypeInv, NEW i \in Procs, AskBranch(i) PROVE TypeInv'
  <1>t. TypeOK
    BY DEF TypeInv
  <1>1. /\ ref' \in [Branches -> Refs] /\ dir' \in [Paths -> Dirs]
        /\ up' \in [Procs -> BOOLEAN] /\ found' \in [Procs -> SUBSET Founds]
        /\ saga' \in [Launches -> Sagas] /\ home' \in [Launches -> Procs \cup {None}]
        /\ job' \in [Launches -> {"none", "begun", "running", "made", "live"}]
        /\ worker' \in [Launches -> {"none", "branch", "add", "made", "owned", "unowned"}]
        /\ hand' \in [Procs -> Hands]
    BY <1>t, AskBranchDoes, Typed DEF HandIs, Launch, Plan
  <1>2. /\ branch' \in [Launches -> Branches] /\ path' \in [Branches -> Paths]
        /\ agents' \subseteq Launches /\ late' \subseteq Launches /\ crashes' \in 0..MaxCrashes
    BY <1>t, AskBranchDoes DEF TypeOK, HandIs, Launch, Plan
  <1>3. \A m \in Launches : saga[m].claimed => saga'[m].claimed
    BY <1>t, AskBranchDoes DEF HandIs, Launch, Plan
  <1>4. /\ \A m \in Launches : job'[m] # "none" => home'[m] \in Procs
        /\ \A m \in Launches : job'[m] \in {"made", "live"} => saga'[m].claimed
    BY <1>t, <1>3, AskBranchDoes DEF TypeInv, HandIs, Launch, Plan
  <1>5. \A j \in Procs : hand'[j] # Idle => saga'[hand'[j].of].claimed
    BY <1>t, <1>3, AskBranchDoes, WhoseTheyAre, HandFacts, Typed DEF TypeInv, HandIs, Launch, Plan
  <1>6. \A j \in Procs : \A f \in found'[j] : f.row.claimed => saga'[f.of].claimed
    BY <1>t, <1>3, AskBranchDoes, WhoseTheyAre DEF TypeInv, HandIs, Launch, Plan
  <1> QED BY <1>1, <1>2, <1>4, <1>5, <1>6, TypesFrom

LEMMA VerifyTypes ==
    ASSUME TypeInv, NEW i \in Procs, Verify(i) PROVE TypeInv'
  <1>t. TypeOK
    BY DEF TypeInv
  <1>1. /\ ref' \in [Branches -> Refs] /\ dir' \in [Paths -> Dirs]
        /\ up' \in [Procs -> BOOLEAN] /\ found' \in [Procs -> SUBSET Founds]
        /\ saga' \in [Launches -> Sagas] /\ home' \in [Launches -> Procs \cup {None}]
        /\ job' \in [Launches -> {"none", "begun", "running", "made", "live"}]
        /\ worker' \in [Launches -> {"none", "branch", "add", "made", "owned", "unowned"}]
        /\ hand' \in [Procs -> Hands]
    BY <1>t, VerifyDoes, Typed DEF HandIs, Launch, Plan
  <1>2. /\ branch' \in [Launches -> Branches] /\ path' \in [Branches -> Paths]
        /\ agents' \subseteq Launches /\ late' \subseteq Launches /\ crashes' \in 0..MaxCrashes
    BY <1>t, VerifyDoes DEF TypeOK, HandIs, Launch, Plan
  <1>3. \A m \in Launches : saga[m].claimed => saga'[m].claimed
    BY <1>t, VerifyDoes DEF HandIs, Launch, Plan
  <1>4. /\ \A m \in Launches : job'[m] # "none" => home'[m] \in Procs
        /\ \A m \in Launches : job'[m] \in {"made", "live"} => saga'[m].claimed
    BY <1>t, <1>3, VerifyDoes DEF TypeInv, HandIs, Launch, Plan
  <1>5. \A j \in Procs : hand'[j] # Idle => saga'[hand'[j].of].claimed
    BY <1>t, <1>3, VerifyDoes, WhoseTheyAre, HandFacts, Typed DEF TypeInv, HandIs, Launch, Plan
  <1>6. \A j \in Procs : \A f \in found'[j] : f.row.claimed => saga'[f.of].claimed
    BY <1>t, <1>3, VerifyDoes, WhoseTheyAre DEF TypeInv, HandIs, Launch, Plan
  <1> QED BY <1>1, <1>2, <1>4, <1>5, <1>6, TypesFrom

LEMMA RemoveTypes ==
    ASSUME TypeInv, NEW i \in Procs, Remove(i) PROVE TypeInv'
  <1>t. TypeOK
    BY DEF TypeInv
  <1>1. /\ ref' \in [Branches -> Refs] /\ dir' \in [Paths -> Dirs]
        /\ up' \in [Procs -> BOOLEAN] /\ found' \in [Procs -> SUBSET Founds]
        /\ saga' \in [Launches -> Sagas] /\ home' \in [Launches -> Procs \cup {None}]
        /\ job' \in [Launches -> {"none", "begun", "running", "made", "live"}]
        /\ worker' \in [Launches -> {"none", "branch", "add", "made", "owned", "unowned"}]
        /\ hand' \in [Procs -> Hands]
    BY <1>t, RemoveDoes, Typed DEF HandIs, DirIs, Launch, Plan
  <1>2. /\ branch' \in [Launches -> Branches] /\ path' \in [Branches -> Paths]
        /\ agents' \subseteq Launches /\ late' \subseteq Launches /\ crashes' \in 0..MaxCrashes
    BY <1>t, RemoveDoes DEF TypeOK, HandIs, DirIs, Launch, Plan
  <1>3. \A m \in Launches : saga[m].claimed => saga'[m].claimed
    BY <1>t, RemoveDoes DEF HandIs, DirIs, Launch, Plan
  <1>4. /\ \A m \in Launches : job'[m] # "none" => home'[m] \in Procs
        /\ \A m \in Launches : job'[m] \in {"made", "live"} => saga'[m].claimed
    BY <1>t, <1>3, RemoveDoes DEF TypeInv, HandIs, DirIs, Launch, Plan
  <1>5. ASSUME NEW j \in Procs, hand'[j] # Idle PROVE saga'[hand'[j].of].claimed
    <2>1. hand[i] # Idle /\ hand'[i].of = hand[i].of
      BY <1>t, RemoveDoes, HandFacts, Typed DEF HandIs, Launch
    <2>2. j # i => hand'[j] = hand[j]
      BY <1>t, RemoveDoes DEF HandIs
    <2> QED BY <1>t, <1>3, <1>5, <2>1, <2>2, WhoseTheyAre
  <1>6. \A j \in Procs : \A f \in found'[j] : f.row.claimed => saga'[f.of].claimed
    BY <1>t, <1>3, RemoveDoes, WhoseTheyAre DEF TypeInv, HandIs, DirIs, Launch, Plan
  <1> QED BY <1>1, <1>2, <1>4, <1>5, <1>6, TypesFrom

LEMMA CountAheadTypes ==
    ASSUME TypeInv, NEW i \in Procs, CountAhead(i) PROVE TypeInv'
  <1>t. TypeOK
    BY DEF TypeInv
  <1>1. /\ ref' \in [Branches -> Refs] /\ dir' \in [Paths -> Dirs]
        /\ up' \in [Procs -> BOOLEAN] /\ found' \in [Procs -> SUBSET Founds]
        /\ saga' \in [Launches -> Sagas] /\ home' \in [Launches -> Procs \cup {None}]
        /\ job' \in [Launches -> {"none", "begun", "running", "made", "live"}]
        /\ worker' \in [Launches -> {"none", "branch", "add", "made", "owned", "unowned"}]
        /\ hand' \in [Procs -> Hands]
    BY <1>t, CountAheadDoes, Typed DEF HandIs, Launch, Plan
  <1>2. /\ branch' \in [Launches -> Branches] /\ path' \in [Branches -> Paths]
        /\ agents' \subseteq Launches /\ late' \subseteq Launches /\ crashes' \in 0..MaxCrashes
    BY <1>t, CountAheadDoes DEF TypeOK, HandIs, Launch, Plan
  <1>3. \A m \in Launches : saga[m].claimed => saga'[m].claimed
    BY <1>t, CountAheadDoes DEF HandIs, Launch, Plan
  <1>4. /\ \A m \in Launches : job'[m] # "none" => home'[m] \in Procs
        /\ \A m \in Launches : job'[m] \in {"made", "live"} => saga'[m].claimed
    BY <1>t, <1>3, CountAheadDoes DEF TypeInv, HandIs, Launch, Plan
  <1>5. \A j \in Procs : hand'[j] # Idle => saga'[hand'[j].of].claimed
    BY <1>t, <1>3, CountAheadDoes, WhoseTheyAre, HandFacts, Typed DEF TypeInv, HandIs, Launch, Plan
  <1>6. \A j \in Procs : \A f \in found'[j] : f.row.claimed => saga'[f.of].claimed
    BY <1>t, <1>3, CountAheadDoes, WhoseTheyAre DEF TypeInv, HandIs, Launch, Plan
  <1> QED BY <1>1, <1>2, <1>4, <1>5, <1>6, TypesFrom

LEMMA DeleteBranchTypes ==
    ASSUME TypeInv, NEW i \in Procs, DeleteBranch(i) PROVE TypeInv'
  <1>t. TypeOK
    BY DEF TypeInv
  <1>1. /\ ref' \in [Branches -> Refs] /\ dir' \in [Paths -> Dirs]
        /\ up' \in [Procs -> BOOLEAN] /\ found' \in [Procs -> SUBSET Founds]
        /\ saga' \in [Launches -> Sagas] /\ home' \in [Launches -> Procs \cup {None}]
        /\ job' \in [Launches -> {"none", "begun", "running", "made", "live"}]
        /\ worker' \in [Launches -> {"none", "branch", "add", "made", "owned", "unowned"}]
        /\ hand' \in [Procs -> Hands]
    BY <1>t, DeleteBranchDoes, Typed DEF HandIs, RefIs, Launch, Plan
  <1>2. /\ branch' \in [Launches -> Branches] /\ path' \in [Branches -> Paths]
        /\ agents' \subseteq Launches /\ late' \subseteq Launches /\ crashes' \in 0..MaxCrashes
    BY <1>t, DeleteBranchDoes DEF TypeOK, HandIs, RefIs, Launch, Plan
  <1>3. \A m \in Launches : saga[m].claimed => saga'[m].claimed
    BY <1>t, DeleteBranchDoes DEF HandIs, RefIs, Launch, Plan
  <1>4. /\ \A m \in Launches : job'[m] # "none" => home'[m] \in Procs
        /\ \A m \in Launches : job'[m] \in {"made", "live"} => saga'[m].claimed
    BY <1>t, <1>3, DeleteBranchDoes DEF TypeInv, HandIs, RefIs, Launch, Plan
  <1>5. ASSUME NEW j \in Procs, hand'[j] # Idle PROVE saga'[hand'[j].of].claimed
    <2>1. hand[i] # Idle /\ hand'[i].of = hand[i].of
      BY <1>t, DeleteBranchDoes, HandFacts, Typed DEF HandIs, Launch
    <2>2. j # i => hand'[j] = hand[j]
      BY <1>t, DeleteBranchDoes DEF HandIs
    <2> QED BY <1>t, <1>3, <1>5, <2>1, <2>2, WhoseTheyAre
  <1>6. \A j \in Procs : \A f \in found'[j] : f.row.claimed => saga'[f.of].claimed
    BY <1>t, <1>3, DeleteBranchDoes, WhoseTheyAre DEF TypeInv, HandIs, RefIs, Launch, Plan
  <1> QED BY <1>1, <1>2, <1>4, <1>5, <1>6, TypesFrom

LEMMA EndReclaimTypes ==
    ASSUME TypeInv, NEW i \in Procs, EndReclaim(i) PROVE TypeInv'
  <1>t. TypeOK
    BY DEF TypeInv
  <1>1. /\ ref' \in [Branches -> Refs] /\ dir' \in [Paths -> Dirs]
        /\ up' \in [Procs -> BOOLEAN] /\ found' \in [Procs -> SUBSET Founds]
        /\ saga' \in [Launches -> Sagas] /\ home' \in [Launches -> Procs \cup {None}]
        /\ job' \in [Launches -> {"none", "begun", "running", "made", "live"}]
        /\ worker' \in [Launches -> {"none", "branch", "add", "made", "owned", "unowned"}]
        /\ hand' \in [Procs -> Hands]
    BY <1>t, EndReclaimDoes, Typed DEF SagaIs, JobIs, HandIs, Launch, Plan
  <1>2. /\ branch' \in [Launches -> Branches] /\ path' \in [Branches -> Paths]
        /\ agents' \subseteq Launches /\ late' \subseteq Launches /\ crashes' \in 0..MaxCrashes
    BY <1>t, EndReclaimDoes DEF TypeOK, SagaIs, JobIs, HandIs, Launch, Plan
  <1>3. \A m \in Launches : saga[m].claimed => saga'[m].claimed
    BY <1>t, EndReclaimDoes DEF SagaIs, JobIs, HandIs, Launch, Plan
  <1>4. /\ \A m \in Launches : job'[m] # "none" => home'[m] \in Procs
        /\ \A m \in Launches : job'[m] \in {"made", "live"} => saga'[m].claimed
    BY <1>t, <1>3, EndReclaimDoes DEF TypeInv, SagaIs, JobIs, HandIs, Launch, Plan
  <1>5. \A j \in Procs : hand'[j] # Idle => saga'[hand'[j].of].claimed
    BY <1>t, <1>3, EndReclaimDoes, WhoseTheyAre, HandFacts, Typed DEF TypeInv, SagaIs, JobIs, HandIs, Launch, Plan
  <1>6. \A j \in Procs : \A f \in found'[j] : f.row.claimed => saga'[f.of].claimed
    BY <1>t, <1>3, EndReclaimDoes, WhoseTheyAre DEF TypeInv, SagaIs, JobIs, HandIs, Launch, Plan
  <1> QED BY <1>1, <1>2, <1>4, <1>5, <1>6, TypesFrom

LEMMA StartTypes ==
    ASSUME TypeInv, NEW i \in Procs, Start(i) PROVE TypeInv'
  <1>t. TypeOK
    BY DEF TypeInv
  <1>1. /\ ref' \in [Branches -> Refs] /\ dir' \in [Paths -> Dirs]
        /\ up' \in [Procs -> BOOLEAN] /\ found' \in [Procs -> SUBSET Founds]
        /\ saga' \in [Launches -> Sagas] /\ home' \in [Launches -> Procs \cup {None}]
        /\ job' \in [Launches -> {"none", "begun", "running", "made", "live"}]
        /\ worker' \in [Launches -> {"none", "branch", "add", "made", "owned", "unowned"}]
        /\ hand' \in [Procs -> Hands]
    BY <1>t, StartDoes, Typed DEF Plan
  <1>2. /\ branch' \in [Launches -> Branches] /\ path' \in [Branches -> Paths]
        /\ agents' \subseteq Launches /\ late' \subseteq Launches /\ crashes' \in 0..MaxCrashes
    BY <1>t, StartDoes DEF TypeOK, Plan
  <1>3. \A m \in Launches : saga[m].claimed => saga'[m].claimed
    BY <1>t, StartDoes DEF Plan
  <1>4. /\ \A m \in Launches : job'[m] # "none" => home'[m] \in Procs
        /\ \A m \in Launches : job'[m] \in {"made", "live"} => saga'[m].claimed
    BY <1>t, <1>3, StartDoes DEF TypeInv, Plan
  <1>5. \A j \in Procs : hand'[j] # Idle => saga'[hand'[j].of].claimed
    BY <1>t, <1>3, StartDoes, WhoseTheyAre, HandFacts, Typed DEF TypeInv, Plan
  <1>6. \A j \in Procs : \A f \in found'[j] : f.row.claimed => saga'[f.of].claimed
    BY <1>t, <1>3, StartDoes, WhoseTheyAre DEF TypeInv, Plan
  <1> QED BY <1>1, <1>2, <1>4, <1>5, <1>6, TypesFrom

LEMMA ReconcileTypes ==
    ASSUME TypeInv, NEW i \in Procs, Reconcile(i) PROVE TypeInv'
  <1>t. TypeOK
    BY DEF TypeInv
  <1>1. /\ ref' \in [Branches -> Refs] /\ dir' \in [Paths -> Dirs]
        /\ up' \in [Procs -> BOOLEAN] /\ found' \in [Procs -> SUBSET Founds]
        /\ saga' \in [Launches -> Sagas] /\ home' \in [Launches -> Procs \cup {None}]
        /\ job' \in [Launches -> {"none", "begun", "running", "made", "live"}]
        /\ worker' \in [Launches -> {"none", "branch", "add", "made", "owned", "unowned"}]
        /\ hand' \in [Procs -> Hands]
    BY <1>t, ReconcileDoes, Typed DEF SagaIs, HandIs, Plan
  <1>2. /\ branch' \in [Launches -> Branches] /\ path' \in [Branches -> Paths]
        /\ agents' \subseteq Launches /\ late' \subseteq Launches /\ crashes' \in 0..MaxCrashes
    BY <1>t, ReconcileDoes DEF TypeOK, SagaIs, HandIs, Plan
  <1>3. \A m \in Launches : saga[m].claimed => saga'[m].claimed
    BY <1>t, ReconcileDoes DEF SagaIs, HandIs, Plan
  <1>4. /\ \A m \in Launches : job'[m] # "none" => home'[m] \in Procs
        /\ \A m \in Launches : job'[m] \in {"made", "live"} => saga'[m].claimed
    BY <1>t, <1>3, ReconcileDoes DEF TypeInv, SagaIs, HandIs, Plan
  <1>5. ASSUME NEW j \in Procs, hand'[j] # Idle PROVE saga'[hand'[j].of].claimed
    <2>1. CASE hand'[j] = hand[j]
      BY <1>t, <1>3, <1>5, <2>1, WhoseTheyAre
    <2>2. CASE hand'[j] # hand[j]
      <3>1. PICK f \in found[i] : f.row.claimed /\ HandIs(i, f.of, "ask")
        BY <1>t, <2>2, ReconcileDoes
      <3>2. j = i /\ hand'[j].of = f.of
        BY <2>2, <3>1 DEF HandIs
      <3> QED BY <1>t, <1>3, <3>1, <3>2, WhoseTheyAre DEF TypeInv
    <2> QED BY <2>1, <2>2
  <1>6. \A j \in Procs : \A f \in found'[j] : f.row.claimed => saga'[f.of].claimed
    BY <1>t, <1>3, ReconcileDoes, WhoseTheyAre DEF TypeInv, SagaIs, HandIs, Plan
  <1> QED BY <1>1, <1>2, <1>4, <1>5, <1>6, TypesFrom

LEMMA WorkTypes ==
    ASSUME TypeInv, NEW p \in Paths, Work(p) PROVE TypeInv'
  <1>t. TypeOK
    BY DEF TypeInv
  <1>1. /\ ref' \in [Branches -> Refs] /\ dir' \in [Paths -> Dirs]
        /\ up' \in [Procs -> BOOLEAN] /\ found' \in [Procs -> SUBSET Founds]
        /\ saga' \in [Launches -> Sagas] /\ home' \in [Launches -> Procs \cup {None}]
        /\ job' \in [Launches -> {"none", "begun", "running", "made", "live"}]
        /\ worker' \in [Launches -> {"none", "branch", "add", "made", "owned", "unowned"}]
        /\ hand' \in [Procs -> Hands]
    BY <1>t, WorkDoes, Typed DEF DirIs, RefIs, Outside, Plan
  <1>2. /\ branch' \in [Launches -> Branches] /\ path' \in [Branches -> Paths]
        /\ agents' \subseteq Launches /\ late' \subseteq Launches /\ crashes' \in 0..MaxCrashes
    BY <1>t, WorkDoes DEF TypeOK, DirIs, RefIs, Outside, Plan
  <1>3. \A m \in Launches : saga[m].claimed => saga'[m].claimed
    BY <1>t, WorkDoes DEF DirIs, RefIs, Outside, Plan
  <1>4. /\ \A m \in Launches : job'[m] # "none" => home'[m] \in Procs
        /\ \A m \in Launches : job'[m] \in {"made", "live"} => saga'[m].claimed
    BY <1>t, <1>3, WorkDoes DEF TypeInv, DirIs, RefIs, Outside, Plan
  <1>5. \A j \in Procs : hand'[j] # Idle => saga'[hand'[j].of].claimed
    BY <1>t, <1>3, WorkDoes, WhoseTheyAre, HandFacts, Typed DEF TypeInv, DirIs, RefIs, Outside, Plan
  <1>6. \A j \in Procs : \A f \in found'[j] : f.row.claimed => saga'[f.of].claimed
    BY <1>t, <1>3, WorkDoes, WhoseTheyAre DEF TypeInv, DirIs, RefIs, Outside, Plan
  <1> QED BY <1>1, <1>2, <1>4, <1>5, <1>6, TypesFrom

LEMMA OtherSessionTypes ==
    ASSUME TypeInv, NEW b \in Branches, OtherSession(b) PROVE TypeInv'
  <1>t. TypeOK
    BY DEF TypeInv
  <1>1. /\ ref' \in [Branches -> Refs] /\ dir' \in [Paths -> Dirs]
        /\ up' \in [Procs -> BOOLEAN] /\ found' \in [Procs -> SUBSET Founds]
        /\ saga' \in [Launches -> Sagas] /\ home' \in [Launches -> Procs \cup {None}]
        /\ job' \in [Launches -> {"none", "begun", "running", "made", "live"}]
        /\ worker' \in [Launches -> {"none", "branch", "add", "made", "owned", "unowned"}]
        /\ hand' \in [Procs -> Hands]
    BY <1>t, OtherSessionDoes, Typed DEF DirIs, RefIs, Outside, Plan
  <1>2. /\ branch' \in [Launches -> Branches] /\ path' \in [Branches -> Paths]
        /\ agents' \subseteq Launches /\ late' \subseteq Launches /\ crashes' \in 0..MaxCrashes
    BY <1>t, OtherSessionDoes DEF TypeOK, DirIs, RefIs, Outside, Plan
  <1>3. \A m \in Launches : saga[m].claimed => saga'[m].claimed
    BY <1>t, OtherSessionDoes DEF DirIs, RefIs, Outside, Plan
  <1>4. /\ \A m \in Launches : job'[m] # "none" => home'[m] \in Procs
        /\ \A m \in Launches : job'[m] \in {"made", "live"} => saga'[m].claimed
    BY <1>t, <1>3, OtherSessionDoes DEF TypeInv, DirIs, RefIs, Outside, Plan
  <1>5. \A j \in Procs : hand'[j] # Idle => saga'[hand'[j].of].claimed
    BY <1>t, <1>3, OtherSessionDoes, WhoseTheyAre, HandFacts, Typed DEF TypeInv, DirIs, RefIs, Outside, Plan
  <1>6. \A j \in Procs : \A f \in found'[j] : f.row.claimed => saga'[f.of].claimed
    BY <1>t, <1>3, OtherSessionDoes, WhoseTheyAre DEF TypeInv, DirIs, RefIs, Outside, Plan
  <1> QED BY <1>1, <1>2, <1>4, <1>5, <1>6, TypesFrom

LEMMA CrashTypes ==
    ASSUME TypeInv, NEW i \in Procs, Crash(i) PROVE TypeInv'
  <1>t. TypeOK
    BY DEF TypeInv
  <1>1. /\ ref' \in [Branches -> Refs] /\ dir' \in [Paths -> Dirs]
        /\ saga' \in [Launches -> Sagas] /\ home' \in [Launches -> Procs \cup {None}]
        /\ branch' \in [Launches -> Branches] /\ path' \in [Branches -> Paths]
    BY <1>t, CrashDoes, Typed DEF Plan
  <1>2. /\ up' \in [Procs -> BOOLEAN] /\ found' \in [Procs -> SUBSET Founds]
        /\ job' \in [Launches -> {"none", "begun", "running", "made", "live"}]
        /\ worker' \in [Launches -> {"none", "branch", "add", "made", "owned", "unowned"}]
        /\ crashes' \in 0..MaxCrashes
    BY <1>t, CrashDoes
  <1>3. /\ hand' \in [Procs -> Hands] /\ agents' \subseteq Launches /\ late' \subseteq Launches
        /\ saga' = saga /\ home' = home
    BY <1>t, CrashDoes DEF HandIs, TypeOK
  <1>4. \A m \in Launches : job'[m] = "none" \/ job'[m] = job[m]
    BY <1>t, CrashDoes
  <1>5. \A j \in Procs : hand'[j] # Idle => hand'[j] = hand[j]
    BY <1>t, CrashDoes DEF HandIs
  <1>6. \A j \in Procs : found'[j] \subseteq found[j]
    BY <1>t, CrashDoes
  <1>7. /\ \A m \in Launches : job'[m] # "none" => home'[m] \in Procs
        /\ \A m \in Launches : job'[m] \in {"made", "live"} => saga'[m].claimed
    BY <1>3, <1>4 DEF TypeInv
  <1>8. \A j \in Procs : hand'[j] # Idle => saga'[hand'[j].of].claimed
    BY <1>t, <1>3, <1>5, WhoseTheyAre
  <1>9. \A j \in Procs : \A f \in found'[j] : f.row.claimed => saga'[f.of].claimed
    BY <1>3, <1>6 DEF TypeInv
  <1> QED BY <1>1, <1>2, <1>3, <1>7, <1>8, <1>9, TypesFrom

LEMMA StutterTypes == ASSUME TypeInv, UNCHANGED vars PROVE TypeInv'
  BY DEF TypeInv, TypeOK, Launch, vars, plan, repo, procs

LEMMA TypeInit == ASSUME Init PROVE TypeInv
  <1>1. TypeOK
    BY ClaimAssumption DEF Init, TypeOK, Makers, NoRef, NoDir, NoSaga, Idle
  <1>2. /\ \A l \in Launches : job[l] = "none"
        /\ \A i \in Procs : found[i] = {}
    BY DEF Init
  <1> QED BY <1>1, <1>2 DEF TypeInv

LEMMA TypeNext == ASSUME TypeInv, [Next]_vars PROVE TypeInv'
  <1>1. ASSUME NEW l \in Launches, Drive(l) PROVE TypeInv'
    BY <1>1, StartWorktreeTypes, CutBranchTypes, AddWorktreeTypes, TakeWorktreeTypes, TimeOutTypes,
       CommitTypes, LaunchDoneTypes, LaunchFailsTypes DEF Drive
  <1>2. ASSUME NEW i \in Procs, Reclaim(i) PROVE TypeInv'
    BY <1>2, AskBranchTypes, VerifyTypes, RemoveTypes, CountAheadTypes, DeleteBranchTypes,
       EndReclaimTypes DEF Reclaim
  <1> QED BY <1>1, <1>2, BeginTypes, CleanUpTypes, CrashTypes, StartTypes, ReconcileTypes,
          WorkTypes, OtherSessionTypes, StutterTypes DEF Next

\* The types of the repository, of the database and of the processes hold whoever reaches
\* into them (git/mod.rs, app/bridge_saga.rs), and a reclaim is of a launch that claimed.
THEOREM ClaimTypeCorrect == Spec => []TypeOK
  <1>1. TypeInv => TypeOK
    BY DEF TypeInv
  <1> QED BY <1>1, TypeInit, TypeNext, PTL DEF Spec

-----------------------------------------------------------------------------
(* What a launch has *)

\* A directory a launch made is the one it names, on the branch it cut.
LEMMA OwnFacts ==
    ASSUME TypeOK, RepoAgrees, NEW l \in Launches
    PROVE  /\ Has(l) => Owns(l) /\ dir[Dir(l)] # NoDir /\ dir[Dir(l)].on = branch[l]
           /\ Owns(l) /\ CheckedOut(branch[l]) => Has(l)
           /\ Owns(l) /\ dir[Dir(l)].on = branch[l] => Has(l)
           /\ \A p \in Paths : dir[p].by = l => p = Dir(l)
           /\ \A b \in Branches : ref[b].by = l => b = branch[l]
  <1>1. Dir(l) \in Paths /\ branch[l] \in Branches /\ Dir(l) = path[branch[l]] /\ l # None
    BY Typed, Nothing DEF Dir
  <1>2. ASSUME NEW p \in Paths, dir[p].by = l
        PROVE  dir[p] # NoDir /\ dir[p].on = branch[l] /\ p = Dir(l) /\ Owns(l)
    <2>1. dir[p] # NoDir /\ dir[p].on \in Branches
      BY <1>1, <1>2, Typed, DirFacts, Nothing
    <2>2. ref[dir[p].on].by = l /\ p = path[dir[p].on]
      BY <1>2, <2>1 DEF RepoAgrees
    <2>3. dir[p].on = branch[l]
      BY <2>1, <2>2 DEF RepoAgrees
    <2> QED BY <1>1, <2>1, <2>2, <2>3 DEF Owns
  <1>3. ASSUME NEW p \in Paths, dir[p].on = branch[l], Owns(l) PROVE Has(l)
    <2>1. dir[p] # NoDir
      BY <1>1, <1>3, Nothing
    <2> QED BY <1>1, <1>3, <2>1 DEF RepoAgrees, Owns, Has
  <1>4. Has(l) => Owns(l) /\ dir[Dir(l)] # NoDir /\ dir[Dir(l)].on = branch[l]
    BY <1>1, <1>2 DEF Has
  <1>5. Owns(l) /\ CheckedOut(branch[l]) => Has(l)
    BY <1>3 DEF CheckedOut
  <1>6. Owns(l) /\ dir[Dir(l)].on = branch[l] => Has(l)
    BY <1>1, <1>3
  <1>7. \A b \in Branches : ref[b].by = l => b = branch[l]
    BY DEF RepoAgrees
  <1> QED BY <1>2, <1>4, <1>5, <1>6, <1>7

\* What the step leaves of m's.
ViewKept(m) ==
    /\ Owns(m)' <=> Owns(m)
    /\ Has(m)' <=> Has(m)
    /\ Owns(m) => (Ahead(m)' <=> Ahead(m))
    /\ Has(m) => (Soiled(m)' <=> Soiled(m))

RepoSame == Plan /\ ref' = ref /\ dir' = dir

LEMMA SameRepo ==
    ASSUME RepoSame
    PROVE  (\A m \in Launches : ViewKept(m)) /\ (RepoAgrees => RepoAgrees')
           /\ (\A m : Owns(m)' = Owns(m) /\ Has(m)' = Has(m) /\ Ahead(m)' = Ahead(m)
                      /\ Soiled(m)' = Soiled(m))
  <1>1. \A m : Owns(m)' = Owns(m) /\ Has(m)' = Has(m) /\ Ahead(m)' = Ahead(m)
               /\ Soiled(m)' = Soiled(m)
    BY DEF RepoSame, Plan, Owns, Has, Ahead, Soiled, Dir
  <1>2. RepoAgrees => RepoAgrees'
    BY DEF RepoSame, Plan, RepoAgrees
  <1> QED BY <1>1, <1>2 DEF ViewKept

\* git branch gives the launch a branch nobody has.
LEMMA CutBranchViews ==
    ASSUME TypeOK, RepoAgrees, NEW l \in Launches, CutBranch(l), ~Owns(l)
    PROVE  /\ RepoAgrees'
           /\ \A m \in Launches \ {l} : ViewKept(m)
           /\ ~Has(l)'
           /\ (WorkerIs(l, "add") /\ Owns(l)') \/ (WorkerIs(l, "unowned") /\ ~Owns(l)')
  <1>1. CASE ref[branch[l]] # NoRef
    <2>1. RepoSame /\ WorkerIs(l, "unowned")
      BY <1>1, CutBranchDoes DEF RepoSame
    <2> QED BY <2>1, SameRepo, OwnFacts DEF ViewKept
  <1>2. CASE ref[branch[l]] = NoRef
    <2>1. /\ RefIs(branch[l], l, FALSE) /\ WorkerIs(l, "add")
          /\ branch' = branch /\ path' = path /\ dir' = dir
      BY <1>2, CutBranchDoes DEF Plan
    <2>2. branch[l] \in Branches /\ \A m \in Launches : branch[m] \in Branches /\ Dir(m)' = Dir(m)
      BY <2>1, Typed DEF Dir
    <2>3. /\ ref'[branch[l]].by = l /\ ref[branch[l]].by = None
          /\ \A c \in Branches \ {branch[l]} : ref'[c] = ref[c]
      BY <1>2, <2>1, Nothing DEF RefIs
    <2>4. \A p \in Paths : dir[p] # NoDir => dir[p].on # branch[l] /\ dir[p].on \in Branches
      <3>1. \A p \in Paths : dir[p] # NoDir => dir[p].by \in Makers /\ dir[p].on \in Branches
        BY Typed, DirFacts
      <3> QED BY <2>3, <3>1, Nothing DEF RepoAgrees, Makers
    <2>5. RepoAgrees'
      BY <2>1, <2>3, <2>4, Nothing DEF RepoAgrees
    <2>6. \A m \in Launches \ {l} : ViewKept(m)
      BY <2>1, <2>2, <2>3, Nothing DEF ViewKept, Owns, Has, Ahead, Soiled
    <2>7. Owns(l)' /\ ~Has(l)'
      <3>1. ~Has(l)
        BY OwnFacts
      <3> QED BY <2>1, <2>2, <2>3, <3>1 DEF Owns, Has
    <2> QED BY <2>1, <2>5, <2>6, <2>7
  <1> QED BY <1>1, <1>2

\* git worktree add makes a directory where there was none.
LEMMA AddWorktreeViews ==
    ASSUME TypeOK, RepoAgrees, NEW l \in Launches, AddWorktree(l), Owns(l)
    PROVE  /\ RepoAgrees'
           /\ \A m \in Launches \ {l} : ViewKept(m)
           /\ Owns(l)'
           /\ (Has(l)' /\ WorkerIs(l, "made")) \/ WorkerIs(l, "owned")
  <1>1. CASE dir' = dir /\ WorkerIs(l, "owned")
    <2>1. RepoSame
      BY <1>1, AddWorktreeDoes DEF RepoSame
    <2> QED BY <1>1, <2>1, SameRepo
  <1>2. CASE ~(dir' = dir /\ WorkerIs(l, "owned"))
    <2>1. /\ dir[Dir(l)] = NoDir /\ DirIs(Dir(l), l, branch[l], FALSE)
          /\ WorkerIs(l, "made") \/ WorkerIs(l, "owned")
          /\ branch' = branch /\ path' = path /\ ref' = ref
      BY <1>2, AddWorktreeDoes DEF Plan
    <2>2. /\ Dir(l) \in Paths /\ branch[l] \in Branches /\ Dir(l) = path[branch[l]]
          /\ \A m \in Launches : Dir(m) \in Paths /\ Dir(m)' = Dir(m)
      BY <2>1, Typed DEF Dir
    <2>3. /\ dir'[Dir(l)].by = l /\ dir'[Dir(l)].on = branch[l] /\ dir[Dir(l)].by = None
          /\ \A q \in Paths \ {Dir(l)} : dir'[q] = dir[q]
      BY <2>1, Nothing DEF DirIs
    <2>4. RepoAgrees'
      BY <2>1, <2>2, <2>3 DEF RepoAgrees, Owns
    <2>5. \A m \in Launches \ {l} : ViewKept(m)
      BY <2>1, <2>2, <2>3, Nothing DEF ViewKept, Owns, Has, Ahead, Soiled
    <2>6. Owns(l)' /\ Has(l)'
      BY <2>1, <2>2, <2>3 DEF Owns, Has
    <2> QED BY <2>1, <2>4, <2>5, <2>6
  <1> QED BY <1>1, <1>2

\* git worktree remove takes the launch's own directory.
LEMMA RemoveViews ==
    ASSUME TypeOK, RepoAgrees, NEW i \in Procs, NEW l \in Launches, Launch(i) = l,
           Remove(i), Has(l)
    PROVE  /\ RepoAgrees'
           /\ \A m \in Launches \ {l} : ViewKept(m)
           /\ Owns(l)' = Owns(l) /\ ~Has(l)'
           /\ HandIs(i, l, "branch")
  <1>1. /\ DirIs(Dir(l), None, None, FALSE) /\ dir'[Dir(l)] = NoDir
        /\ branch' = branch /\ path' = path /\ ref' = ref
    BY RemoveDoes DEF Plan
  <1>2. \A m \in Launches : Dir(m) \in Paths /\ Dir(m)' = Dir(m)
    BY <1>1, Typed DEF Dir
  <1>3. dir[Dir(l)].by = l /\ l # None
    BY Nothing DEF Has
  <1>4. \A q \in Paths \ {Dir(l)} : dir'[q] = dir[q]
    BY <1>1 DEF DirIs
  <1>5. RepoAgrees'
    BY <1>1, <1>4 DEF RepoAgrees
  <1>6. \A m \in Launches \ {l} : ViewKept(m)
    BY <1>1, <1>2, <1>3, <1>4, Nothing DEF ViewKept, Owns, Has, Ahead, Soiled
  <1>7. Owns(l)' = Owns(l) /\ ~Has(l)'
    BY <1>1, <1>2, <1>3, Nothing DEF Owns, Has
  <1>8. HandIs(i, l, "branch")
    BY <1>3, RemoveDoes, Nothing
  <1> QED BY <1>5, <1>6, <1>7, <1>8

\* git branch -d takes the launch's own branch, unless there is work on it.
LEMMA DeleteBranchViews ==
    ASSUME TypeOK, RepoAgrees, NEW i \in Procs, NEW l \in Launches, Launch(i) = l,
           DeleteBranch(i), Owns(l), ~Has(l)
    PROVE  /\ RepoAgrees'
           /\ \A m \in Launches \ {l} : ViewKept(m)
           /\ OnlyWorkLeft(l)'
  <1>1. branch' = branch /\ path' = path /\ dir' = dir
    BY DeleteBranchDoes DEF Plan
  <1>2. ~CheckedOut(branch[l])
    BY OwnFacts
  <1>3. CASE ref' = ref
    <2>1. RepoSame
      BY <1>1, <1>3 DEF RepoSame, Plan
    <2>2. Ahead(l)
      <3>1. CASE ref[branch[l]].ahead
        BY <3>1 DEF Ahead
      <3>2. CASE RefIs(branch[l], None, FALSE)
        BY <1>3, <3>2, Nothing DEF RefIs, Owns
      <3> QED BY <1>2, <3>1, <3>2, DeleteBranchDoes
    <2> QED BY <2>1, <2>2, SameRepo DEF OnlyWorkLeft
  <1>4. CASE ref' # ref
    <2>1. RefIs(branch[l], None, FALSE) /\ ref[branch[l]].by = l
      BY <1>4, DeleteBranchDoes DEF Owns
    <2>2. \A m \in Launches : branch[m] \in Branches /\ Dir(m)' = Dir(m)
      BY <1>1, Typed DEF Dir
    <2>3. \A p \in Paths : dir[p] # NoDir => dir[p].on \in Branches \ {branch[l]}
      BY <1>2, Typed, DirFacts DEF CheckedOut
    <2>4. RepoAgrees'
      BY <1>1, <2>1, <2>3, Nothing DEF RepoAgrees, RefIs
    <2>5. \A m \in Launches \ {l} : ViewKept(m)
      BY <1>1, <2>1, <2>2, Nothing DEF ViewKept, Owns, Has, Ahead, Soiled, RefIs
    <2>6. ~Owns(l)' /\ ~Has(l)'
      BY <1>1, <2>1, <2>2, Nothing DEF Owns, Has, RefIs
    <2> QED BY <2>4, <2>5, <2>6 DEF OnlyWorkLeft
  <1> QED BY <1>3, <1>4

\* Who works in a directory changes nothing of anybody else's.
LEMMA WorkViews ==
    ASSUME TypeOK, RepoAgrees, NEW p \in Paths, Work(p)
    PROVE  /\ RepoAgrees'
           /\ \A m \in Launches : m # dir[p].by => ViewKept(m)
           /\ \A m \in Launches : Owns(m)' = Owns(m) /\ Has(m)' = Has(m)
  <1>1. branch' = branch /\ path' = path
    BY WorkDoes DEF Outside, Plan
  <1>2. /\ dir'[p].by = dir[p].by /\ dir'[p].on = dir[p].on
        /\ \A q \in Paths \ {p} : dir'[q] = dir[q]
    BY WorkDoes DEF DirIs
  <1>3. dir[p] # NoDir /\ dir[p].by # None /\ dir[p].on \in Branches
    BY WorkDoes, Nothing DEF TypeOK
  <1>4. ref' = ref \/ RefIs(dir[p].on, ref[dir[p].on].by, TRUE)
    BY WorkDoes
  <1>5. \A b \in Branches : ref'[b].by = ref[b].by /\ (b # dir[p].on => ref'[b] = ref[b])
    BY <1>3, <1>4 DEF RefIs
  <1>6. \A m \in Launches : branch[m] \in Branches /\ Dir(m) \in Paths /\ Dir(m)' = Dir(m)
    BY <1>1, Typed DEF Dir
  <1>7. \A m \in Launches : Owns(m)' = Owns(m) /\ Has(m)' = Has(m)
    BY <1>1, <1>2, <1>5, <1>6 DEF Owns, Has
  <1>8. RepoAgrees'
    <2>1. ASSUME NEW q \in Paths, dir'[q] # NoDir
          PROVE  q = path'[dir'[q].on] /\ dir'[q].by = ref'[dir'[q].on].by
      <3>1. dir[q] # NoDir /\ dir'[q].by = dir[q].by /\ dir'[q].on = dir[q].on
        BY <1>2, <1>3, <2>1
      <3>2. dir[q].on \in Branches
        BY <3>1, Typed, DirFacts
      <3> QED BY <1>1, <1>5, <3>1, <3>2 DEF RepoAgrees
    <2>2. \A b \in Branches, l \in Launches : ref'[b].by = l => b = branch'[l]
      BY <1>1, <1>5 DEF RepoAgrees
    <2> QED BY <2>1, <2>2 DEF RepoAgrees
  <1>9. ASSUME NEW m \in Launches, m # dir[p].by PROVE ViewKept(m)
    <2>1. Owns(m) => branch[m] # dir[p].on
      BY <1>3, <1>9 DEF Owns, RepoAgrees
    <2>2. Has(m) => Dir(m) # p
      BY <1>9 DEF Has
    <2> QED BY <1>1, <1>2, <1>5, <1>6, <1>7, <2>1, <2>2 DEF ViewKept, Ahead, Soiled
  <1> QED BY <1>7, <1>8, <1>9

\* An ordinary session makes its worktree out of what nobody has.
LEMMA OtherSessionViews ==
    ASSUME TypeOK, RepoAgrees, OthersAttach = FALSE, NEW b \in Branches, OtherSession(b)
    PROVE  RepoAgrees' /\ \A m \in Launches : ViewKept(m)
  <1>1. branch' = branch /\ path' = path
    BY OtherSessionDoes DEF Outside, Plan
  <1>2. /\ dir[path[b]] = NoDir /\ ~CheckedOut(b) /\ ref[b] = NoRef /\ path[b] \in Paths
        /\ DirIs(path[b], Other, b, FALSE) /\ RefIs(b, Other, FALSE)
    BY OtherSessionDoes
  <1>3. \A m \in Launches : branch[m] \in Branches /\ Dir(m) \in Paths /\ Dir(m)' = Dir(m)
    BY <1>1, Typed DEF Dir
  <1>4. \A p \in Paths : dir[p] # NoDir => dir[p].on \in Branches \ {b}
    BY <1>2, Typed, DirFacts DEF CheckedOut
  <1>5. RepoAgrees'
    BY <1>1, <1>2, <1>4, Nothing DEF RepoAgrees, DirIs, RefIs
  <1>6. \A m \in Launches : ViewKept(m)
    BY <1>1, <1>2, <1>3, Nothing DEF ViewKept, Owns, Has, Ahead, Soiled, DirIs, RefIs
  <1> QED BY <1>5, <1>6

\* The operator takes what the launch made, and no more.
LEMMA CleanUpViews ==
    ASSUME TypeOK, RepoAgrees, NEW l \in Launches, CleanUp(l)
    PROVE  /\ RepoAgrees' /\ \A m \in Launches \ {l} : ViewKept(m)
           /\ Has(l) /\ ~Owns(l)' /\ ~Has(l)'
  <1>1. branch' = branch /\ path' = path
    BY CleanUpDoes DEF Outside, Plan
  <1>2. /\ Has(l) /\ DirIs(Dir(l), None, None, FALSE) /\ dir'[Dir(l)] = NoDir
        /\ RefIs(branch[l], None, FALSE)
    BY CleanUpDoes DEF Has
  <1>3. \A m \in Launches : branch[m] \in Branches /\ Dir(m) \in Paths /\ Dir(m)' = Dir(m)
    BY <1>1, Typed DEF Dir
  <1>4. dir[Dir(l)].by = l /\ ref[branch[l]].by = l
    BY <1>2, OwnFacts DEF Owns, Has
  <1>5. \A p \in Paths : dir[p] # NoDir /\ p # Dir(l) => dir[p].on \in Branches \ {branch[l]}
    BY Typed, DirFacts DEF RepoAgrees, Dir
  <1>6. RepoAgrees'
    BY <1>1, <1>2, <1>5, Nothing DEF RepoAgrees, DirIs, RefIs
  <1>7. \A m \in Launches \ {l} : ViewKept(m)
    BY <1>1, <1>2, <1>3, <1>4, Nothing DEF ViewKept, Owns, Has, Ahead, Soiled, DirIs, RefIs
  <1>8. ~Owns(l)' /\ ~Has(l)'
    BY <1>1, <1>2, <1>3, Nothing DEF Owns, Has, DirIs, RefIs
  <1> QED BY <1>2, <1>6, <1>7, <1>8


-----------------------------------------------------------------------------
(* A step changes one launch *)

\* A launch whose process serves is in nobody's reclaim.
LEMMA Serving ==
    ASSUME ClaimInv, NEW l \in Launches, job[l] # "none", Serves(home[l])
    PROVE  ~Reclaimed(l) /\ home[l] \in Procs /\ up[home[l]] /\ hand[home[l]] = Idle
  <1>1. home[l] \in Procs /\ up[home[l]] /\ hand[home[l]] = Idle
    BY DEF ClaimInv, TypeInv, Serves
  <1>2. ASSUME NEW i \in Procs, Launch(i) = l PROVE FALSE
    <2>1. hand[i] # Idle
      BY <1>2, Nothing DEF Launch
    <2> QED BY <1>1, <1>2, <2>1 DEF ClaimInv, ReclaimIsSafe
  <1> QED BY <1>1, <1>2 DEF Reclaimed

\* No two reclaims are of one launch.
LEMMA OneHand ==
    ASSUME ClaimInv, NEW i \in Procs, NEW j \in Procs, hand[i] # Idle, hand[j] # Idle,
           Launch(i) = Launch(j)
    PROVE  i = j
  <1>1. CASE job[Launch(i)] = "none"
    BY <1>1 DEF ClaimInv, OneRecovers, Recovers, Launch
  <1>2. CASE job[Launch(i)] # "none"
    BY <1>2 DEF ClaimInv, ReclaimIsSafe
  <1> QED BY <1>1, <1>2

\* The step leaves launch m as it is.
Same(m) ==
    /\ saga'[m] = saga[m] /\ job'[m] = job[m] /\ worker'[m] = worker[m] /\ home'[m] = home[m]
    /\ (m \in agents' <=> m \in agents) /\ (m \in late' <=> m \in late) /\ ViewKept(m)

\* ... and has no reclaim but one of l.
HandsOf(l) ==
    \A j \in Procs : hand'[j] = hand[j] \/ (up[j] /\ hand[j].of \in {l, None}
                                            /\ hand'[j].of \in {l, None})

LEMMA SameLaunch ==
    ASSUME NEW m \in Launches, Same(m), Reclaimed(m)' <=> Reclaimed(m), crashes' = crashes,
           StepsAgree(m), ClaimIsOwn(m), LeavesWork(m)
    PROVE  StepsAgree(m)' /\ ClaimIsOwn(m)' /\ LeavesWork(m)'
  <1>1. StepsAgree(m)'
    BY DEF StepsAgree, Same
  <1>2. ClaimIsOwn(m)'
    BY DEF ClaimIsOwn, Same, ViewKept
  <1>3. LeavesWork(m)'
    BY DEF LeavesWork, OnlyWorkLeft, Same, ViewKept
  <1> QED BY <1>1, <1>2, <1>3

LEMMA SameReclaim ==
    ASSUME NEW j \in Procs, hand'[j] = hand[j], Same(Launch(j)), up'[j] = up[j], ReclaimIsSafe(j)
    PROVE  ReclaimIsSafe(j)'
  <1>1. Launch(j)' = Launch(j)
    BY DEF Launch
  <1> DEFINE m == Launch(j)
  <1>2. m' = m /\ Same(m)
    BY <1>1
  <1> QED BY <1>2 DEF ReclaimIsSafe, OnlyWorkLeft, Same, ViewKept, Owns, Has, Soiled, Ahead, Dir

LEMMA HandsTyped == ASSUME TypeOK' PROVE hand' \in [Procs -> Hands]
  BY DEF TypeOK, Hands

LEMMA OneChanges ==
    ASSUME ClaimInv, TypeInv', RepoAgrees', NEW l \in Launches,
           \A m \in Launches \ {l} : Same(m), HandsOf(l), up' = up, crashes' = crashes,
           \A j \in Procs : found'[j] \subseteq found[j],
           \A j \in Procs : Recovers(j)' => Recovers(j),
           StepsAgree(l)', ClaimIsOwn(l)', LeavesWork(l)',
           \A j \in Procs : Launch(j)' = l => ReclaimIsSafe(j)',
           \A j \in Procs : \A f \in found'[j] : f.of = l =>
               saga'[l] = f.row /\ job'[l] = "none" /\ worker'[l] = "none" /\ ~Reclaimed(l)',
           \A j \in Procs : ~up[j] /\ home'[l] = j => job'[l] = "none" /\ worker'[l] = "none"
    PROVE  ClaimInv'
  <1>t. TypeOK /\ TypeOK' /\ l # None
    BY Nothing DEF ClaimInv, TypeInv
  <1>1. ASSUME NEW m \in Launches \ {l} PROVE Reclaimed(m)' <=> Reclaimed(m)
    <2>1. \A j \in Procs : Launch(j)' = m <=> Launch(j) = m
      BY Nothing DEF HandsOf, Launch
    <2> QED BY <2>1 DEF Reclaimed
  <1>2. ASSUME NEW m \in Launches PROVE StepsAgree(m)' /\ ClaimIsOwn(m)' /\ LeavesWork(m)'
    <2>1. CASE m = l
      BY <2>1
    <2>2. CASE m # l
      BY <1>1, <2>2, SameLaunch DEF ClaimInv
    <2> QED BY <2>1, <2>2
  <1>3. ASSUME NEW j \in Procs PROVE ReclaimIsSafe(j)'
    <2>1. CASE Launch(j)' = l
      BY <2>1
    <2>2. CASE hand'[j] = Idle
      BY <2>2 DEF ReclaimIsSafe
    <2>3. CASE Launch(j)' # l /\ hand'[j] # Idle
      <3>1. hand'[j].of \in Launches \ {l}
        BY <1>t, <2>3, HandFacts, HandsTyped DEF Launch
      <3>2. hand'[j] = hand[j] /\ Launch(j) \in Launches \ {l}
        BY <3>1, Nothing DEF HandsOf, Launch
      <3> QED BY <3>2, SameReclaim DEF ClaimInv
    <2> QED BY <2>1, <2>2, <2>3
  <1>4. ASSUME NEW j \in Procs PROVE FoundIsTrue(j)'
    <2>1. ASSUME NEW f \in found'[j], f.of # l
          PROVE  saga'[f.of] = f.row /\ job'[f.of] = "none" /\ worker'[f.of] = "none"
                 /\ ~Reclaimed(f.of)'
      <3>1. f \in found[j]
        OBVIOUS
      <3>2. f.of \in Launches \ {l}
        BY <1>t, <2>1, <3>1, WhoseTheyAre
      <3>3. /\ saga[f.of] = f.row /\ job[f.of] = "none" /\ worker[f.of] = "none"
            /\ ~Reclaimed(f.of)
        BY <3>1 DEF ClaimInv, FoundIsTrue
      <3> QED BY <1>1, <3>2, <3>3 DEF Same
    <2> QED BY <2>1 DEF FoundIsTrue
  <1>5. ASSUME NEW j \in Procs PROVE DownIsIdle(j)'
    <2>1. ~up[j] => hand'[j] = Idle /\ found'[j] = {} /\ crashes' > 0
      BY DEF ClaimInv, DownIsIdle, HandsOf
    <2>2. ASSUME NEW m \in Launches, m # l, ~up[j], home'[m] = j
          PROVE  job'[m] = "none" /\ worker'[m] = "none"
      BY <2>2 DEF ClaimInv, DownIsIdle, Same
    <2> QED BY <2>1, <2>2 DEF DownIsIdle
  <1>6. OneRecovers'
    <2>1. \A i, j \in Procs : Recovers(i)' /\ Recovers(j)' => i = j
      BY DEF ClaimInv, OneRecovers
    <2> QED BY <2>1 DEF OneRecovers
  <1>7. \A j \in Procs : found'[j] # {} => crashes' > 0
    BY DEF ClaimInv
  <1> QED BY <1>2, <1>3, <1>4, <1>5, <1>6, <1>7 DEF ClaimInv

\* A step that changes no launch.
LEMMA NoneChanges ==
    ASSUME ClaimInv, TypeInv', RepoAgrees', \A m \in Launches : Same(m),
           UNCHANGED <<hand, found, up, crashes>>
    PROVE  ClaimInv'
  <1>t. TypeOK /\ TypeOK'
    BY DEF ClaimInv, TypeInv
  <1>1. \A m : Reclaimed(m)' <=> Reclaimed(m)
    BY DEF Reclaimed, Launch
  <1>2. \A m \in Launches : StepsAgree(m)' /\ ClaimIsOwn(m)' /\ LeavesWork(m)'
    BY <1>1, SameLaunch DEF ClaimInv
  <1>3. ASSUME NEW j \in Procs PROVE ReclaimIsSafe(j)'
    <2>1. CASE hand[j] = Idle
      BY <2>1 DEF ReclaimIsSafe
    <2>2. CASE hand[j] # Idle
      BY <1>t, <2>2, SameReclaim, Typed DEF ClaimInv
    <2> QED BY <2>1, <2>2
  <1>4. ASSUME NEW j \in Procs PROVE FoundIsTrue(j)'
    BY <1>t, <1>1, WhoseTheyAre DEF ClaimInv, FoundIsTrue, Same
  <1>5. \A j \in Procs : DownIsIdle(j)'
    BY DEF ClaimInv, DownIsIdle, Same
  <1>6. \A j \in Procs : Recovers(j)' => Recovers(j)
    BY <1>t, WhoseTheyAre DEF Recovers, Same
  <1>7. OneRecovers'
    <2>1. \A i, j \in Procs : Recovers(i)' /\ Recovers(j)' => i = j
      BY <1>6 DEF ClaimInv, OneRecovers
    <2> QED BY <2>1 DEF OneRecovers
  <1> QED BY <1>2, <1>3, <1>4, <1>5, <1>7 DEF ClaimInv

-----------------------------------------------------------------------------
(* Each action preserves the invariant *)

\* A step that touches neither the repository nor a reclaim.
LEMMA RowChanges ==
    ASSUME ClaimInv, TypeInv', NEW l \in Launches, RepoSame, ~Reclaimed(l),
           \A m \in Launches \ {l} : saga'[m] = saga[m] /\ job'[m] = job[m] /\ home'[m] = home[m]
                                     /\ worker'[m] = worker[m]
                                     /\ (m \in agents' <=> m \in agents)
                                     /\ (m \in late' <=> m \in late),
           UNCHANGED <<hand, found, up, crashes>>, job[l] # "none" \/ saga[l].step = "none",
           up[home'[l]],
           Reclaimed(l)' = Reclaimed(l) => StepsAgree(l)' /\ ClaimIsOwn(l)' /\ LeavesWork(l)'
    PROVE  ClaimInv'
  <1>t. TypeOK
    BY DEF ClaimInv, TypeInv
  <1>1. RepoAgrees' /\ \A m \in Launches \ {l} : Same(m)
    BY SameRepo DEF Same, ClaimInv
  <1>2. Reclaimed(l)' = Reclaimed(l) /\ \A j \in Procs : Launch(j)' # l
    BY DEF Reclaimed, Launch
  <1>3. \A j \in Procs : \A f \in found'[j] : f.of # l
    <2>1. ASSUME NEW j \in Procs, NEW f \in found[j], f.of = l PROVE FALSE
      <3>1. saga[l] = f.row /\ job[l] = "none"
        BY <2>1 DEF ClaimInv, FoundIsTrue
      <3>2. f.row.step \in {"begun", "worktree", "committed"}
        BY <1>t, <2>1, Typed DEF Founds, Rows
      <3> QED BY <3>1, <3>2
    <2> QED BY <2>1
  <1>4. \A j \in Procs : Recovers(j)' => Recovers(j)
    <2>1. ASSUME NEW j \in Procs, hand[j] # Idle, job'[hand[j].of] = "none"
          PROVE  job[hand[j].of] = "none"
      <3>1. hand[j].of \in Launches \ {l}
        BY <1>t, <2>1, WhoseTheyAre DEF Reclaimed, Launch
      <3> QED BY <2>1, <3>1
    <2> QED BY <2>1 DEF Recovers
  <1>5. HandsOf(l)
    BY DEF HandsOf
  <1> QED BY <1>1, <1>2, <1>3, <1>4, <1>5, OneChanges

LEMMA BeginKeeps ==
    ASSUME ClaimInv, NEW l \in Launches, NEW i \in Procs, Begin(l, i) PROVE ClaimInv'
  <1>t. TypeOK /\ TypeInv' /\ StepsAgree(l) /\ ClaimIsOwn(l)
    BY BeginTypes DEF ClaimInv, TypeInv
  <1>1. /\ Serves(i) /\ saga[l].step = "none" /\ SagaIs(l, "begun", saga[l].claimed)
        /\ JobIs(l, "begun") /\ home'[l] = i /\ \A m \in Launches \ {l} : home'[m] = home[m]
        /\ UNCHANGED <<up, worker, found, hand, agents, late, crashes>>
    BY <1>t, BeginDoes
  <1>2. RepoSame
    BY <1>t, BeginDoes DEF RepoSame
  <1>3. ~Reclaimed(l)
    BY <1>1, Nothing DEF Reclaimed, ClaimInv, ReclaimIsSafe, Launch
  <1>4. /\ saga[l].claimed = FALSE /\ worker[l] = "none" /\ l \notin agents /\ ~Owns(l)
        /\ saga'[l].step = "begun" /\ saga'[l].claimed = FALSE /\ job'[l] = "begun"
    <2>1. saga[l].claimed \in BOOLEAN
      BY <1>t, Typed DEF Sagas
    <2> QED BY <1>t, <1>1, <2>1 DEF StepsAgree, ClaimIsOwn, SagaIs, JobIs
  <1>5. StepsAgree(l)' /\ ClaimIsOwn(l)' /\ LeavesWork(l)'
    BY <1>1, <1>2, <1>4, SameRepo DEF StepsAgree, ClaimIsOwn, LeavesWork
  <1> QED BY <1>t, <1>1, <1>2, <1>3, <1>5, RowChanges DEF SagaIs, JobIs, Serves

LEMMA StartWorktreeKeeps ==
    ASSUME ClaimInv, NEW l \in Launches, StartWorktree(l) PROVE ClaimInv'
  <1>t. TypeOK /\ TypeInv' /\ StepsAgree(l) /\ ClaimIsOwn(l)
    BY StartWorktreeTypes DEF ClaimInv, TypeInv
  <1>1. /\ At(l, "begun") /\ SagaIs(l, "worktree", saga[l].claimed)
        /\ JobIs(l, "running") /\ WorkerIs(l, "branch")
        /\ UNCHANGED <<home, up, found, hand, agents, late, crashes>>
    BY <1>t, StartWorktreeDoes
  <1>2. RepoSame
    BY <1>t, StartWorktreeDoes DEF RepoSame
  <1>3. job[l] = "begun" /\ ~Reclaimed(l) /\ up[home[l]]
    BY <1>1, Serving DEF At
  <1>4. /\ ~saga'[l].claimed /\ l \notin agents /\ ~Owns(l)
        /\ saga'[l].step = "worktree" /\ job'[l] = "running" /\ worker'[l] = "branch"
    BY <1>t, <1>1, <1>3 DEF StepsAgree, ClaimIsOwn, SagaIs, JobIs, WorkerIs
  <1>5. StepsAgree(l)' /\ ClaimIsOwn(l)' /\ LeavesWork(l)'
    BY <1>1, <1>2, <1>4, SameRepo DEF StepsAgree, ClaimIsOwn, LeavesWork
  <1> QED BY <1>t, <1>1, <1>2, <1>3, <1>5, RowChanges DEF SagaIs, JobIs, WorkerIs

LEMMA TimeOutKeeps ==
    ASSUME ClaimInv, NEW l \in Launches, TimeOut(l) PROVE ClaimInv'
  <1>t. TypeOK /\ TypeInv' /\ StepsAgree(l) /\ ClaimIsOwn(l)
    BY TimeOutTypes DEF ClaimInv, TypeInv
  <1>1. /\ At(l, "running") /\ worker[l] \in {"branch", "add"}
        /\ SagaIs(l, "failed", saga[l].claimed) /\ JobIs(l, "none") /\ late' = late \cup {l}
        /\ UNCHANGED <<home, up, worker, found, hand, agents, crashes>>
    BY <1>t, TimeOutDoes DEF GivesUp
  <1>2. RepoSame
    BY <1>t, TimeOutDoes DEF RepoSame
  <1>3. job[l] = "running" /\ ~Reclaimed(l) /\ up[home[l]]
    BY <1>1, Serving DEF At
  <1>4. /\ l \notin agents /\ saga'[l].step = "failed" /\ job'[l] = "none" /\ l \in late'
    BY <1>t, <1>1, <1>3 DEF StepsAgree, SagaIs, JobIs
  <1>5. StepsAgree(l)' /\ ClaimIsOwn(l)' /\ LeavesWork(l)'
    BY <1>t, <1>1, <1>2, <1>4, SameRepo DEF StepsAgree, ClaimIsOwn, LeavesWork
  <1> QED BY <1>t, <1>1, <1>2, <1>3, <1>5, RowChanges DEF SagaIs, JobIs

LEMMA CommitKeeps ==
    ASSUME ClaimInv, NEW l \in Launches, Commit(l) PROVE ClaimInv'
  <1>t. TypeOK /\ TypeInv' /\ StepsAgree(l) /\ ClaimIsOwn(l)
    BY CommitTypes DEF ClaimInv, TypeInv
  <1>1. /\ At(l, "made") /\ SagaIs(l, "committed", saga[l].claimed) /\ JobIs(l, "live")
        /\ agents' = agents \cup {l}
        /\ UNCHANGED <<home, up, worker, found, hand, late, crashes>>
    BY <1>t, CommitDoes
  <1>2. RepoSame
    BY <1>t, CommitDoes DEF RepoSame
  <1>3. job[l] = "made" /\ ~Reclaimed(l) /\ up[home[l]]
    BY <1>1, Serving DEF At
  <1>4. /\ saga'[l].claimed /\ Owns(l) /\ Has(l) /\ worker[l] = "none"
        /\ saga'[l].step = "committed" /\ job'[l] = "live"
    BY <1>t, <1>1, <1>3 DEF StepsAgree, ClaimIsOwn, SagaIs, JobIs
  <1>5. Reclaimed(l)' = Reclaimed(l) => StepsAgree(l)' /\ ClaimIsOwn(l)' /\ LeavesWork(l)'
    BY <1>1, <1>2, <1>3, <1>4, SameRepo DEF StepsAgree, ClaimIsOwn, LeavesWork
  <1> QED BY <1>t, <1>1, <1>2, <1>3, <1>5, RowChanges DEF SagaIs, JobIs

LEMMA LaunchDoneKeeps ==
    ASSUME ClaimInv, NEW l \in Launches, LaunchDone(l) PROVE ClaimInv'
  <1>t. TypeOK /\ TypeInv' /\ StepsAgree(l) /\ ClaimIsOwn(l)
    BY LaunchDoneTypes DEF ClaimInv, TypeInv
  <1>1. /\ At(l, "live") /\ SagaIs(l, "done", saga[l].claimed) /\ JobIs(l, "none")
        /\ UNCHANGED <<home, up, worker, found, hand, agents, late, crashes>>
    BY <1>t, LaunchDoneDoes
  <1>2. RepoSame
    BY <1>t, LaunchDoneDoes DEF RepoSame
  <1>3. job[l] = "live" /\ ~Reclaimed(l) /\ up[home[l]]
    BY <1>1, Serving DEF At
  <1>4. /\ saga'[l].claimed /\ Owns(l) /\ Has(l) /\ worker[l] = "none"
        /\ saga'[l].step = "done" /\ job'[l] = "none"
    BY <1>t, <1>1, <1>3 DEF StepsAgree, ClaimIsOwn, SagaIs, JobIs
  <1>5. Reclaimed(l)' = Reclaimed(l) => StepsAgree(l)' /\ ClaimIsOwn(l)' /\ LeavesWork(l)'
    BY <1>1, <1>2, <1>3, <1>4, SameRepo DEF StepsAgree, ClaimIsOwn, LeavesWork
  <1> QED BY <1>t, <1>1, <1>2, <1>3, <1>5, RowChanges DEF SagaIs, JobIs

\* A step of the worker of l.
LEMMA WorkerChanges ==
    ASSUME ClaimInv, TypeInv', RepoAgrees', NEW l \in Launches, worker[l] # "none",
           \A m \in Launches \ {l} : ViewKept(m) /\ worker'[m] = worker[m],
           UNCHANGED <<home, saga, up, job, found, hand, agents, late, crashes>>,
           Owns(l) => Owns(l)', worker'[l] = "unowned" => ~Owns(l)',
           worker'[l] = "add" => Owns(l)' /\ ~Has(l)',
           worker'[l] = "owned" => Owns(l)',
           worker'[l] = "made" => Owns(l)' /\ Has(l)',
           worker'[l] \in {"unowned", "add", "owned", "made"}
    PROVE  ClaimInv'
  <1>t. TypeOK /\ StepsAgree(l) /\ ClaimIsOwn(l)
    BY DEF ClaimInv, TypeInv
  <1>1. \A m \in Launches \ {l} : Same(m)
    BY DEF Same
  <1>2. /\ job[l] = "running" \/ (job[l] = "none" /\ saga[l].step = "failed" /\ l \in late)
        /\ saga[l].step \in {"worktree", "failed"} /\ l \notin agents
    BY <1>t DEF StepsAgree
  <1>3. ~Reclaimed(l) /\ ~Reclaimed(l)'
    <2>1. ASSUME NEW j \in Procs, Launch(j) = l PROVE FALSE
      BY <2>1, Nothing DEF ClaimInv, ReclaimIsSafe, Launch
    <2>2. Reclaimed(l)' = Reclaimed(l)
      BY DEF Reclaimed, Launch
    <2> QED BY <2>1, <2>2 DEF Reclaimed
  <1>4. \A j \in Procs : \A f \in found'[j] : f.of # l
    BY DEF ClaimInv, FoundIsTrue
  <1>5. \A j \in Procs : Recovers(j)' => Recovers(j)
    BY DEF Recovers
  <1>6. StepsAgree(l)' /\ ClaimIsOwn(l)' /\ LeavesWork(l)'
    <2>1. StepsAgree(l)'
      BY <1>t, <1>2, <1>3 DEF StepsAgree
    <2>2. ClaimIsOwn(l)'
      <3>1. saga[l].claimed /\ saga[l].step = "worktree" => worker'[l] # "unowned" /\ Owns(l)'
        BY <1>t, <1>2, <1>3 DEF ClaimIsOwn
      <3> QED BY <1>2, <3>1 DEF ClaimIsOwn
    <2>3. LeavesWork(l)'
      BY <1>t, <1>2 DEF LeavesWork, StepsAgree
    <2> QED BY <2>1, <2>2, <2>3
  <1>7. HandsOf(l) /\ \A j \in Procs : Launch(j)' # l
    BY <1>3 DEF HandsOf, Reclaimed
  <1>8. \A j \in Procs : ~up[j] /\ home'[l] = j => job'[l] = "none" /\ worker'[l] = "none"
    BY DEF ClaimInv, DownIsIdle
  <1> QED BY <1>1, <1>4, <1>5, <1>6, <1>7, <1>8, OneChanges

LEMMA CutBranchKeeps ==
    ASSUME ClaimInv, NEW l \in Launches, CutBranch(l) PROVE ClaimInv'
  <1>t. TypeOK /\ RepoAgrees /\ TypeInv' /\ ClaimIsOwn(l)
    BY CutBranchTypes DEF ClaimInv, TypeInv
  <1>1. /\ worker[l] = "branch" /\ ~Owns(l)
        /\ UNCHANGED <<home, saga, up, job, found, hand, agents, late, crashes>>
    BY <1>t, CutBranchDoes DEF ClaimIsOwn
  <1>2. /\ RepoAgrees' /\ \A m \in Launches \ {l} : ViewKept(m)
        /\ ~Has(l)'
        /\ (WorkerIs(l, "add") /\ Owns(l)') \/ (WorkerIs(l, "unowned") /\ ~Owns(l)')
    BY <1>t, <1>1, CutBranchViews DEF ClaimIsOwn
  <1>3. \A m \in Launches \ {l} : worker'[m] = worker[m]
    BY <1>2 DEF WorkerIs
  <1>4. (worker'[l] = "add" /\ Owns(l)') \/ (worker'[l] = "unowned" /\ ~Owns(l)')
    BY <1>2 DEF WorkerIs
  <1> QED BY <1>t, <1>1, <1>2, <1>3, <1>4, WorkerChanges

LEMMA AddWorktreeKeeps ==
    ASSUME ClaimInv, NEW l \in Launches, AddWorktree(l) PROVE ClaimInv'
  <1>t. TypeOK /\ RepoAgrees /\ TypeInv' /\ ClaimIsOwn(l)
    BY AddWorktreeTypes DEF ClaimInv, TypeInv
  <1>1. /\ worker[l] = "add"
        /\ UNCHANGED <<home, saga, up, job, found, hand, agents, late, crashes>>
    BY <1>t, AddWorktreeDoes
  <1>2. /\ RepoAgrees' /\ \A m \in Launches \ {l} : ViewKept(m)
        /\ Owns(l)'
        /\ \/ Has(l)' /\ (WorkerIs(l, "made") \/ WorkerIs(l, "owned"))
           \/ WorkerIs(l, "owned")
    BY <1>t, <1>1, AddWorktreeViews DEF ClaimIsOwn
  <1>3. \A m \in Launches \ {l} : worker'[m] = worker[m]
    BY <1>2 DEF WorkerIs
  <1>4. (worker'[l] = "made" /\ Has(l)') \/ worker'[l] = "owned"
    BY <1>2 DEF WorkerIs
  <1> QED BY <1>t, <1>1, <1>2, <1>3, <1>4, WorkerChanges

\* The launch begins to reclaim what is its own.
LEMMA UnwindChanges ==
    ASSUME ClaimInv, TypeInv', NEW l \in Launches, RepoSame, job[l] # "none", Serves(home[l]),
           HandIs(home[l], l, "ask"), Owns(l),
           \A m \in Launches \ {l} : saga'[m] = saga[m] /\ worker'[m] = worker[m]
                                     /\ (m \in agents' <=> m \in agents),
           worker'[l] = "none", saga'[l].step = saga[l].step, saga'[l].claimed, l \notin agents',
           saga[l].step \in {"worktree", "committed"},
           UNCHANGED <<home, job, up, found, late, crashes>>
    PROVE  ClaimInv'
  <1>t. TypeOK /\ StepsAgree(l) /\ ClaimIsOwn(l) /\ l # None
    BY Nothing DEF ClaimInv, TypeInv
  <1>1. RepoAgrees' /\ (\A m \in Launches \ {l} : Same(m)) /\ Owns(l)' = Owns(l)
    BY SameRepo DEF Same, ClaimInv
  <1> DEFINE h == home[l]
  <1>2. ~Reclaimed(l) /\ h \in Procs /\ up[h] /\ hand[h] = Idle /\ found[h] = {}
    BY Serving DEF Serves
  <1>3. hand'[h].of = l /\ hand'[h].pc = "ask" /\ \A j \in Procs \ {h} : hand'[j] = hand[j]
    BY DEF HandIs
  <1> HIDE DEF h
  <1>4. \A j \in Procs : \A f \in found'[j] : f.of # l
    BY DEF ClaimInv, FoundIsTrue
  <1>5. \A j \in Procs : Recovers(j)' => Recovers(j)
    BY <1>2, <1>3 DEF Recovers
  <1>6. Reclaimed(l)'
    BY <1>2, <1>3 DEF Reclaimed, Launch
  <1>7. StepsAgree(l)' /\ ClaimIsOwn(l)' /\ LeavesWork(l)'
    BY <1>t, <1>6 DEF StepsAgree, ClaimIsOwn, LeavesWork
  <1>8. HandsOf(l)
    BY <1>2, <1>3, Nothing DEF HandsOf
  <1>9. ASSUME NEW j \in Procs, Launch(j)' = l PROVE ReclaimIsSafe(j)'
    <2>1. j = h /\ hand'[j].pc = "ask"
      BY <1>2, <1>3, <1>9 DEF Reclaimed, Launch
    <2> QED BY <1>1, <1>2, <1>9, <2>1 DEF ReclaimIsSafe, h
  <1>10. \A j \in Procs : ~up[j] /\ home'[l] = j => job'[l] = "none" /\ worker'[l] = "none"
    BY <1>2 DEF h
  <1> QED BY <1>1, <1>4, <1>5, <1>7, <1>8, <1>9, <1>10, OneChanges

LEMMA TakeWorktreeKeeps ==
    ASSUME ClaimInv, NEW l \in Launches, TakeWorktree(l) PROVE ClaimInv'
  <1>t. TypeOK /\ RepoAgrees /\ TypeInv' /\ StepsAgree(l) /\ ClaimIsOwn(l) /\ At(l, "running")
    BY TakeWorktreeTypes DEF ClaimInv, TypeInv, TakeWorktree
  <1>1. /\ job[l] = "running" /\ Serves(home[l]) /\ home[l] \in Procs /\ up[home[l]]
        /\ ~Reclaimed(l) /\ saga[l].step = "worktree" /\ l \notin agents
    BY <1>t, Serving DEF At, StepsAgree
  <1>2. /\ WorkerIs(l, "none")
        /\ UNCHANGED <<home, up, found, agents, late, crashes>>
    BY <1>t, <1>1, TakeWorktreeDoes
  <1>3. RepoSame
    BY <1>t, <1>1, TakeWorktreeDoes DEF RepoSame
  <1>4. CASE worker[l] = "made" /\ SagaIs(l, saga[l].step, TRUE) /\ JobIs(l, "made") /\ hand' = hand
    <2>1. Owns(l) /\ Has(l)
      BY <1>t, <1>1, <1>4 DEF ClaimIsOwn
    <2>2. /\ saga'[l].step = "worktree" /\ saga'[l].claimed /\ job'[l] = "made"
          /\ worker'[l] = "none"
      BY <1>1, <1>2, <1>4 DEF SagaIs, JobIs, WorkerIs
    <2>3. StepsAgree(l)' /\ ClaimIsOwn(l)' /\ LeavesWork(l)'
      BY <1>1, <1>2, <1>3, <2>1, <2>2, SameRepo DEF StepsAgree, ClaimIsOwn, LeavesWork
    <2> QED BY <1>t, <1>1, <1>2, <1>3, <1>4, <2>3, RowChanges DEF SagaIs, JobIs, WorkerIs
  <1>5. CASE worker[l] = "owned" /\ SagaIs(l, saga[l].step, TRUE) /\ Unwinds(l)
    <2>1. Owns(l) /\ HandIs(home[l], l, "ask") /\ job' = job
      BY <1>t, <1>1, <1>5 DEF ClaimIsOwn, Unwinds
    <2> QED BY <1>t, <1>1, <1>2, <1>3, <1>5, <2>1, UnwindChanges DEF SagaIs, WorkerIs
  <1>6. CASE worker[l] = "unowned" /\ GivesUp(l)
    <2>1. ~Owns(l) /\ ~Has(l)
      BY <1>t, <1>6, OwnFacts DEF ClaimIsOwn
    <2>2. /\ saga'[l].step = "failed" /\ job'[l] = "none" /\ worker'[l] = "none" /\ hand' = hand
      BY <1>2, <1>6 DEF GivesUp, SagaIs, JobIs, WorkerIs
    <2>3. StepsAgree(l)' /\ ClaimIsOwn(l)' /\ LeavesWork(l)'
      BY <1>1, <1>2, <1>3, <2>1, <2>2, SameRepo DEF StepsAgree, ClaimIsOwn, LeavesWork, OnlyWorkLeft
    <2> QED BY <1>t, <1>1, <1>2, <1>3, <1>6, <2>2, <2>3, RowChanges
            DEF GivesUp, SagaIs, JobIs, WorkerIs
  <1> QED BY <1>t, <1>1, <1>4, <1>5, <1>6, TakeWorktreeDoes

LEMMA LaunchFailsKeeps ==
    ASSUME ClaimInv, KillMayFail = FALSE, NEW l \in Launches, LaunchFails(l) PROVE ClaimInv'
  <1>t. /\ TypeOK /\ TypeInv' /\ StepsAgree(l) /\ ClaimIsOwn(l)
        /\ At(l, "made") \/ At(l, "live")
    BY LaunchFailsTypes DEF ClaimInv, TypeInv, LaunchFails
  <1>1. /\ job[l] \in {"made", "live"} /\ Serves(home[l]) /\ home[l] \in Procs /\ ~Reclaimed(l)
        /\ saga[l].step \in {"worktree", "committed"} /\ saga[l].claimed /\ worker[l] = "none"
    BY <1>t, Serving DEF At, StepsAgree
  <1>2. /\ HandIs(home[l], l, "ask") /\ job' = job /\ agents' = agents \ {l}
        /\ UNCHANGED <<home, saga, up, worker, found, late, crashes>>
    BY <1>t, <1>1, LaunchFailsDoes DEF Unwinds
  <1>3. RepoSame
    BY <1>t, <1>1, LaunchFailsDoes DEF RepoSame
  <1>4. Owns(l)
    BY <1>t, <1>1 DEF ClaimIsOwn
  <1> QED BY <1>t, <1>1, <1>2, <1>3, <1>4, UnwindChanges

-----------------------------------------------------------------------------
(* A reclaim preserves the invariant *)

\* What is known while process i is in a reclaim of l.
LEMMA InReclaim ==
    ASSUME ClaimInv, NEW i \in Procs, hand[i] # Idle
    PROVE  /\ Launch(i) \in Launches /\ up[i] /\ ReclaimIsSafe(i)
           /\ StepsAgree(Launch(i)) /\ ClaimIsOwn(Launch(i))
           /\ \A j \in Procs \ {i} : Launch(j) # Launch(i)
           /\ \A j \in Procs : \A f \in found[j] : f.of # Launch(i)
  <1>t. TypeOK
    BY DEF ClaimInv, TypeInv
  <1>1. Launch(i) \in Launches /\ up[i] /\ ReclaimIsSafe(i)
    BY <1>t, Typed DEF ClaimInv, ReclaimIsSafe
  <1>2. ASSUME NEW j \in Procs \ {i}, Launch(j) = Launch(i) PROVE FALSE
    <2>1. hand[j] # Idle
      BY <1>1, <1>2, Nothing DEF Launch
    <2> QED BY <1>2, <2>1, OneHand
  <1>3. \A j \in Procs : \A f \in found[j] : f.of # Launch(i)
    BY DEF ClaimInv, FoundIsTrue, Reclaimed
  <1> QED BY <1>1, <1>2, <1>3 DEF ClaimInv

\* A command of the reclaim of l by process i.
LEMMA CommandChanges ==
    ASSUME ClaimInv, TypeInv', RepoAgrees', NEW i \in Procs, NEW l \in Launches,
           hand[i] # Idle, Launch(i) = l,
           NEW pc \in {"ask", "verify", "remove", "branch", "delete", "end"}, HandIs(i, l, pc),
           UNCHANGED <<home, saga, up, job, worker, found, agents, late, crashes>>,
           \A m \in Launches \ {l} : ViewKept(m),
           pc # "end" => Owns(l)',
           pc \in {"verify", "remove"} => Has(l)',
           pc = "remove" => ~Soiled(l)',
           pc \in {"branch", "delete"} => ~Has(l)',
           pc = "end" => OnlyWorkLeft(l)'
    PROVE  ClaimInv'
  <1>t. TypeOK /\ l # None
    BY Nothing DEF ClaimInv, TypeInv
  <1>1. /\ up[i] /\ ReclaimIsSafe(i) /\ StepsAgree(l) /\ ClaimIsOwn(l)
        /\ \A j \in Procs \ {i} : Launch(j) # l
        /\ \A j \in Procs : \A f \in found[j] : f.of # l
    BY InReclaim
  <1>2. /\ worker[l] = "none" /\ l \notin agents /\ saga[l].claimed
        /\ saga[l].step \in {"worktree", "committed"} /\ (job[l] # "none" => home[l] = i)
    BY <1>1 DEF ReclaimIsSafe
  <1>3. \A m \in Launches \ {l} : Same(m)
    BY DEF Same
  <1>4. /\ hand'[i].of = l /\ hand'[i].pc = pc /\ hand[i].of = l
        /\ \A j \in Procs \ {i} : hand'[j] = hand[j]
    BY DEF HandIs, Launch
  <1>5. HandsOf(l)
    BY <1>1, <1>4 DEF HandsOf
  <1>6. \A j \in Procs : Recovers(j)' => Recovers(j)
    BY <1>4 DEF Recovers
  <1>7. Reclaimed(l)'
    BY <1>4 DEF Reclaimed, Launch
  <1>8. StepsAgree(l)' /\ ClaimIsOwn(l)' /\ LeavesWork(l)'
    <2>1. StepsAgree(l)'
      BY <1>1, <1>2 DEF StepsAgree
    <2>2. ClaimIsOwn(l)'
      BY <1>2, <1>7 DEF ClaimIsOwn
    <2>3. LeavesWork(l)'
      BY <1>2 DEF LeavesWork
    <2> QED BY <2>1, <2>2, <2>3
  <1>9. ASSUME NEW j \in Procs, Launch(j)' = l PROVE ReclaimIsSafe(j)'
    <2>1. j = i
      BY <1>1, <1>4, <1>9 DEF Launch
    <2> QED BY <1>1, <1>2, <1>4, <1>9, <2>1 DEF ReclaimIsSafe
  <1>10. \A j \in Procs : ~up[j] /\ home'[l] = j => job'[l] = "none" /\ worker'[l] = "none"
    BY DEF ClaimInv, DownIsIdle
  <1> QED BY <1>1, <1>3, <1>5, <1>6, <1>8, <1>9, <1>10, OneChanges

LEMMA AskBranchKeeps ==
    ASSUME ClaimInv, NEW i \in Procs, AskBranch(i) PROVE ClaimInv'
  <1>t. TypeOK /\ RepoAgrees /\ TypeInv'
    BY AskBranchTypes DEF ClaimInv, TypeInv
  <1>l. Launch(i) \in Launches
    BY <1>t, AskBranchDoes
  <1>m. PICK l \in Launches : Launch(i) = l
    BY <1>l
  <1>1. /\ hand[i] # Idle /\ hand[i].pc = "ask"
        /\ UNCHANGED <<home, saga, up, job, worker, found, agents, late, crashes>>
    BY <1>t, <1>m, AskBranchDoes, Nothing
  <1>2. RepoSame
    BY <1>t, AskBranchDoes DEF RepoSame
  <1>3. Owns(l)
    BY <1>1, <1>m, InReclaim DEF ReclaimIsSafe
  <1>4. \/ dir[Dir(l)].on = branch[l] /\ HandIs(i, l, "verify")
        \/ dir[Dir(l)].on # branch[l] /\ HandIs(i, l, "branch")
    BY <1>t, <1>m, AskBranchDoes
  <1>6. /\ RepoAgrees' /\ \A m \in Launches \ {l} : ViewKept(m)
        /\ Owns(l)' /\ Has(l)' = Has(l)
    BY <1>t, <1>2, <1>3, SameRepo
  <1>7. CASE dir[Dir(l)].on = branch[l] /\ HandIs(i, l, "verify")
    <2>1. Has(l)
      BY <1>t, <1>1, <1>3, <1>7, OwnFacts
    <2> QED BY <1>t, <1>1, <1>m, <1>6, <1>7, <2>1, CommandChanges
  <1>8. CASE dir[Dir(l)].on # branch[l] /\ HandIs(i, l, "branch")
    <2>1. ~Has(l)
      BY <1>t, <1>1, <1>8, OwnFacts
    <2> QED BY <1>t, <1>1, <1>m, <1>6, <1>8, <2>1, CommandChanges
  <1> QED BY <1>4, <1>7, <1>8

LEMMA VerifyKeeps ==
    ASSUME ClaimInv, NEW i \in Procs, Verify(i) PROVE ClaimInv'
  <1>t. TypeOK /\ RepoAgrees /\ TypeInv'
    BY VerifyTypes DEF ClaimInv, TypeInv
  <1>l. Launch(i) \in Launches
    BY <1>t, VerifyDoes
  <1>m. PICK l \in Launches : Launch(i) = l
    BY <1>l
  <1>1. /\ hand[i] # Idle /\ hand[i].pc = "verify"
        /\ UNCHANGED <<home, saga, up, job, worker, found, agents, late, crashes>>
    BY <1>t, <1>m, VerifyDoes, Nothing
  <1>2. RepoSame
    BY <1>t, VerifyDoes DEF RepoSame
  <1>3. Owns(l) /\ Has(l)
    BY <1>1, <1>m, InReclaim DEF ReclaimIsSafe
  <1>4. (Soiled(l) /\ HandIs(i, l, "end")) \/ (~Soiled(l) /\ HandIs(i, l, "remove"))
    BY <1>t, <1>m, <1>1, <1>3, VerifyDoes, OwnFacts DEF Soiled
  <1>6. /\ RepoAgrees' /\ \A m \in Launches \ {l} : ViewKept(m)
        /\ Owns(l)' /\ Has(l)' /\ Soiled(l)' = Soiled(l)
    BY <1>t, <1>2, <1>3, SameRepo
  <1>7. CASE Soiled(l) /\ HandIs(i, l, "end")
    <2>1. OnlyWorkLeft(l)'
      BY <1>6, <1>7 DEF OnlyWorkLeft
    <2> QED BY <1>t, <1>1, <1>m, <1>6, <1>7, <2>1, CommandChanges
  <1>8. CASE ~Soiled(l) /\ HandIs(i, l, "remove")
    BY <1>t, <1>1, <1>m, <1>6, <1>8, CommandChanges
  <1> QED BY <1>4, <1>7, <1>8

LEMMA RemoveKeeps ==
    ASSUME ClaimInv, NEW i \in Procs, Remove(i) PROVE ClaimInv'
  <1>t. TypeOK /\ RepoAgrees /\ TypeInv'
    BY RemoveTypes DEF ClaimInv, TypeInv
  <1>l. Launch(i) \in Launches
    BY <1>t, RemoveDoes
  <1>m. PICK l \in Launches : Launch(i) = l
    BY <1>l
  <1>1. /\ hand[i] # Idle /\ hand[i].pc = "remove"
        /\ UNCHANGED <<home, saga, up, job, worker, found, agents, late, crashes>>
    BY <1>t, <1>m, RemoveDoes, Nothing
  <1>2. Owns(l) /\ Has(l)
    BY <1>1, <1>m, InReclaim DEF ReclaimIsSafe
  <1>4. /\ RepoAgrees' /\ (\A m \in Launches \ {l} : ViewKept(m))
        /\ Owns(l)' /\ ~Has(l)' /\ HandIs(i, l, "branch")
    BY <1>t, <1>1, <1>2, <1>m, RemoveViews
  <1> QED BY <1>t, <1>1, <1>m, <1>4, CommandChanges

LEMMA CountAheadKeeps ==
    ASSUME ClaimInv, NEW i \in Procs, CountAhead(i) PROVE ClaimInv'
  <1>t. TypeOK /\ RepoAgrees /\ TypeInv'
    BY CountAheadTypes DEF ClaimInv, TypeInv
  <1>l. Launch(i) \in Launches
    BY <1>t, CountAheadDoes
  <1>m. PICK l \in Launches : Launch(i) = l
    BY <1>l
  <1>1. /\ hand[i] # Idle /\ hand[i].pc = "branch"
        /\ UNCHANGED <<home, saga, up, job, worker, found, agents, late, crashes>>
    BY <1>t, <1>m, CountAheadDoes, Nothing
  <1>2. RepoSame
    BY <1>t, CountAheadDoes DEF RepoSame
  <1>3. Owns(l) /\ ~Has(l)
    BY <1>1, <1>m, InReclaim DEF ReclaimIsSafe
  <1>4. (Ahead(l) /\ HandIs(i, l, "end")) \/ HandIs(i, l, "delete")
    <2>1. ref[branch[l]] # NoRef
      BY <1>1, <1>3, Nothing DEF Owns
    <2> QED BY <1>t, <1>m, <2>1, CountAheadDoes DEF Ahead
  <1>6. /\ RepoAgrees' /\ \A m \in Launches \ {l} : ViewKept(m)
        /\ Owns(l)' /\ ~Has(l)' /\ Ahead(l)' = Ahead(l)
    BY <1>t, <1>2, <1>3, SameRepo
  <1>7. CASE Ahead(l) /\ HandIs(i, l, "end")
    <2>1. OnlyWorkLeft(l)'
      BY <1>6, <1>7 DEF OnlyWorkLeft
    <2> QED BY <1>t, <1>1, <1>m, <1>6, <1>7, <2>1, CommandChanges
  <1>8. CASE HandIs(i, l, "delete")
    BY <1>t, <1>1, <1>m, <1>6, <1>8, CommandChanges
  <1> QED BY <1>4, <1>7, <1>8

LEMMA DeleteBranchKeeps ==
    ASSUME ClaimInv, NEW i \in Procs, DeleteBranch(i) PROVE ClaimInv'
  <1>t. TypeOK /\ RepoAgrees /\ TypeInv'
    BY DeleteBranchTypes DEF ClaimInv, TypeInv
  <1>l. Launch(i) \in Launches
    BY <1>t, DeleteBranchDoes
  <1>m. PICK l \in Launches : Launch(i) = l
    BY <1>l
  <1>1. /\ hand[i] # Idle /\ hand[i].pc = "delete" /\ HandIs(i, l, "end")
        /\ UNCHANGED <<home, saga, up, job, worker, found, agents, late, crashes>>
    BY <1>t, <1>m, DeleteBranchDoes, Nothing
  <1>2. Owns(l) /\ ~Has(l)
    BY <1>1, <1>m, InReclaim DEF ReclaimIsSafe
  <1>4. RepoAgrees' /\ (\A m \in Launches \ {l} : ViewKept(m)) /\ OnlyWorkLeft(l)'
    BY <1>t, <1>1, <1>2, <1>m, DeleteBranchViews
  <1> QED BY <1>t, <1>1, <1>m, <1>4, CommandChanges

LEMMA EndReclaimKeeps ==
    ASSUME ClaimInv, NEW i \in Procs, EndReclaim(i) PROVE ClaimInv'
  <1>t. TypeOK /\ RepoAgrees /\ TypeInv'
    BY EndReclaimTypes DEF ClaimInv, TypeInv
  <1>l. Launch(i) \in Launches
    BY <1>t, EndReclaimDoes
  <1>m. PICK l \in Launches : Launch(i) = l
    BY <1>l
  <1>1. /\ hand[i] # Idle /\ hand[i].pc = "end"
        /\ SagaIs(l, "failed", saga[l].claimed)
        /\ IF home[l] = i THEN JobIs(l, "none") ELSE job' = job
        /\ HandIs(i, None, "idle") /\ hand'[i] = Idle
        /\ UNCHANGED <<home, up, worker, found, agents, late, crashes>>
    BY <1>t, <1>m, EndReclaimDoes, Nothing
  <1>2. RepoSame
    BY <1>t, EndReclaimDoes DEF RepoSame
  <1>3. /\ up[i] /\ worker[l] = "none" /\ l \notin agents /\ OnlyWorkLeft(l)
        /\ (job[l] # "none" => home[l] = i)
        /\ \A j \in Procs \ {i} : hand[j].of # l
        /\ \A j \in Procs : \A f \in found[j] : f.of # l
    BY <1>1, <1>m, InReclaim DEF ReclaimIsSafe, Launch
  <1>4. hand[i].of = l /\ l # None
    BY <1>1, <1>m, Nothing DEF Launch
  <1>5. /\ RepoAgrees' /\ (\A m \in Launches : ViewKept(m)) /\ OnlyWorkLeft(l)'
    BY <1>t, <1>1, <1>2, <1>3, SameRepo DEF OnlyWorkLeft
  <1>6. job'[l] = "none" /\ \A m \in Launches \ {l} : job'[m] = job[m]
    BY <1>1, <1>3 DEF JobIs
  <1>7. \A m \in Launches \ {l} : Same(m)
    BY <1>1, <1>5, <1>6 DEF Same, SagaIs
  <1>8. hand'[i].of = None /\ \A j \in Procs \ {i} : hand'[j] = hand[j]
    BY <1>1 DEF HandIs
  <1>9. HandsOf(l) /\ \A j \in Procs : Launch(j)' # l
    BY <1>3, <1>4, <1>8 DEF HandsOf, Launch
  <1>10. \A j \in Procs : Recovers(j)' => Recovers(j)
    <2>1. ASSUME NEW j \in Procs \ {i}, hand[j] # Idle, job'[hand[j].of] = "none"
          PROVE  job[hand[j].of] = "none"
      <3>1. hand[j].of \in Launches \ {l}
        BY <1>t, <1>3, <2>1, WhoseTheyAre
      <3> QED BY <1>6, <2>1, <3>1
    <2> QED BY <1>1, <1>8, <2>1 DEF Recovers
  <1>11. StepsAgree(l)' /\ ClaimIsOwn(l)' /\ LeavesWork(l)'
    <2>1. saga'[l].step = "failed" /\ worker'[l] = "none" /\ l \notin agents'
      BY <1>1, <1>3 DEF SagaIs
    <2> QED BY <1>5, <1>6, <2>1 DEF StepsAgree, ClaimIsOwn, LeavesWork
  <1>12. \A j \in Procs : ~up[j] /\ home'[l] = j => job'[l] = "none" /\ worker'[l] = "none"
    BY <1>1, <1>3, <1>6
  <1> QED BY <1>t, <1>1, <1>3, <1>5, <1>7, <1>9, <1>10, <1>11, <1>12, OneChanges

-----------------------------------------------------------------------------
(* Crash, recovery and the others *)

LEMMA CrashKeeps ==
    ASSUME ClaimInv, CrashInReclaim = FALSE, NEW i \in Procs, Crash(i) PROVE ClaimInv'
  <1>t. TypeOK /\ TypeInv' /\ crashes \in Nat
    BY CrashTypes, Typed DEF ClaimInv, TypeInv
  <1>1. /\ hand[i] = Idle /\ up[i] /\ crashes' = crashes + 1
        /\ ~up'[i] /\ (\A j \in Procs \ {i} : up'[j] = up[j])
        /\ hand'[i] = Idle /\ (\A j \in Procs \ {i} : hand'[j] = hand[j])
        /\ found'[i] = {} /\ (\A j \in Procs \ {i} : found'[j] = found[j])
        /\ UNCHANGED <<home, saga, agents, late>>
    BY <1>t, CrashDoes DEF HandIs
  <1>2. RepoSame
    BY <1>t, CrashDoes DEF RepoSame
  <1>3. \A m \in Launches : IF home[m] = i THEN job'[m] = "none" /\ worker'[m] = "none"
                            ELSE job'[m] = job[m] /\ worker'[m] = worker[m]
    BY <1>t, CrashDoes
  <1>4. RepoAgrees' /\ \A m \in Launches : ViewKept(m)
    BY <1>2, SameRepo DEF ClaimInv
  <1>5. \A j \in Procs : hand'[j] = hand[j]
    BY <1>1
  <1>6. \A m : Reclaimed(m)' = Reclaimed(m)
    BY <1>5 DEF Reclaimed, Launch
  <1>7. crashes' > 0
    BY <1>t, <1>1
  <1>8. ASSUME NEW m \in Launches PROVE StepsAgree(m)' /\ ClaimIsOwn(m)' /\ LeavesWork(m)'
    <2>1. StepsAgree(m) /\ ClaimIsOwn(m) /\ ViewKept(m)
      BY <1>4 DEF ClaimInv
    <2>2. job'[m] \in {"none", job[m]} /\ worker'[m] \in {"none", worker[m]}
          /\ (worker'[m] # "none" => job'[m] = job[m])
      BY <1>3
    <2>3. StepsAgree(m)'
      BY <1>1, <1>6, <2>1, <2>2 DEF StepsAgree
    <2>4. ClaimIsOwn(m)'
      BY <1>1, <1>6, <2>1, <2>2 DEF ClaimIsOwn, ViewKept
    <2>5. LeavesWork(m)'
      BY <1>7 DEF LeavesWork
    <2> QED BY <2>3, <2>4, <2>5
  <1>9. ASSUME NEW j \in Procs, hand[j] # Idle
        PROVE  /\ job'[hand[j].of] = job[hand[j].of] /\ worker'[hand[j].of] = worker[hand[j].of]
               /\ j # i /\ hand[j].of \in Launches
    <2>1. /\ hand[j].of \in Launches /\ j # i /\ worker[hand[j].of] = "none"
          /\ (job[hand[j].of] # "none" => home[hand[j].of] = j)
      BY <1>t, <1>1, <1>9, WhoseTheyAre DEF ClaimInv, ReclaimIsSafe, Launch
    <2> QED BY <1>3, <2>1
  <1>10. ASSUME NEW j \in Procs PROVE ReclaimIsSafe(j)'
    <2>1. CASE hand[j] = Idle
      BY <1>5, <2>1 DEF ReclaimIsSafe
    <2>2. CASE hand[j] # Idle
      <3>1. Same(hand[j].of) /\ up'[j] = up[j]
        BY <1>1, <1>4, <1>9, <2>2 DEF Same
      <3> QED BY <1>5, <3>1, SameReclaim DEF ClaimInv, Launch
    <2> QED BY <2>1, <2>2
  <1>11. ASSUME NEW j \in Procs PROVE FoundIsTrue(j)'
    <2>1. ASSUME NEW f \in found'[j]
          PROVE  /\ saga'[f.of] = f.row /\ job'[f.of] = "none" /\ worker'[f.of] = "none"
                 /\ ~Reclaimed(f.of)'
      <3>1. f \in found[j] /\ f.of \in Launches
        BY <1>t, <1>1, <2>1, WhoseTheyAre
      <3> QED BY <1>1, <1>3, <1>6, <3>1 DEF ClaimInv, FoundIsTrue
    <2> QED BY <2>1 DEF FoundIsTrue
  <1>12. \A j \in Procs : DownIsIdle(j)'
    BY <1>1, <1>3, <1>7 DEF ClaimInv, DownIsIdle
  <1>13. \A j \in Procs : Recovers(j)' => Recovers(j)
    BY <1>1, <1>5, <1>9 DEF Recovers
  <1>14. OneRecovers'
    <2>1. \A j, k \in Procs : Recovers(j)' /\ Recovers(k)' => j = k
      BY <1>13 DEF ClaimInv, OneRecovers
    <2> QED BY <2>1 DEF OneRecovers
  <1> QED BY <1>t, <1>4, <1>7, <1>8, <1>10, <1>11, <1>12, <1>14 DEF ClaimInv

LEMMA StartKeeps ==
    ASSUME ClaimInv, StartTogether = FALSE, NEW i \in Procs, Start(i) PROVE ClaimInv'
  <1>t. TypeOK /\ TypeInv'
    BY StartTypes DEF ClaimInv, TypeInv
  <1>1. /\ ~up[i] /\ (\A j \in Procs : ~Recovers(j))
        /\ up'[i] /\ (\A j \in Procs \ {i} : up'[j] = up[j])
        /\ (\A j \in Procs \ {i} : found'[j] = found[j])
        /\ UNCHANGED <<home, saga, job, worker, hand, agents, late, crashes>>
    BY <1>t, StartDoes
  <1>2. \A f \in found'[i] : job[f.of] = "none" /\ saga[f.of] = f.row /\ f.of \in Launches
    BY <1>t, StartDoes
  <1>3. RepoSame
    BY <1>t, StartDoes DEF RepoSame
  <1>4. RepoAgrees' /\ \A m \in Launches : Same(m)
    BY <1>1, <1>3, SameRepo DEF ClaimInv, Same
  <1>5. \A m : Reclaimed(m)' = Reclaimed(m)
    BY <1>1 DEF Reclaimed, Launch
  <1>6. \A m \in Launches : StepsAgree(m)' /\ ClaimIsOwn(m)' /\ LeavesWork(m)'
    BY <1>1, <1>4, <1>5, SameLaunch DEF ClaimInv
  <1>7. crashes > 0 /\ hand[i] = Idle
    BY <1>1 DEF ClaimInv, DownIsIdle
  <1>8. ASSUME NEW j \in Procs PROVE ReclaimIsSafe(j)'
    <2>1. CASE hand[j] = Idle
      BY <1>1, <2>1 DEF ReclaimIsSafe
    <2>2. CASE hand[j] # Idle
      <3>1. j # i /\ Launch(j) \in Launches
        BY <1>t, <1>7, <2>2, Typed
      <3> QED BY <1>1, <1>4, <3>1, SameReclaim DEF ClaimInv
    <2> QED BY <2>1, <2>2
  <1>9. ASSUME NEW j \in Procs PROVE FoundIsTrue(j)'
    <2>1. CASE j = i
      <3>1. ASSUME NEW f \in found'[i] PROVE worker[f.of] = "none" /\ ~Reclaimed(f.of)
        <4>1. f.row.step \in {"begun", "worktree", "committed"}
          <5>1. f \in Founds
            BY <1>t, <3>1, StartDoes
          <5> QED BY <5>1 DEF Founds, Rows
        <4>2. worker[f.of] = "none"
          BY <1>2, <3>1, <4>1 DEF ClaimInv, StepsAgree
        <4>3. ASSUME NEW k \in Procs, Launch(k) = f.of PROVE FALSE
          <5>1. hand[k] # Idle
            BY <1>2, <3>1, <4>3, Nothing DEF Launch
          <5> QED BY <1>1, <1>2, <3>1, <4>3, <5>1 DEF Recovers, Launch
        <4> QED BY <4>2, <4>3 DEF Reclaimed
      <3> QED BY <1>1, <1>2, <1>5, <2>1, <3>1 DEF FoundIsTrue
    <2>2. CASE j # i
      <3>1. found'[j] = {}
        BY <1>1, <2>2 DEF Recovers
      <3> QED BY <3>1 DEF FoundIsTrue
    <2> QED BY <2>1, <2>2
  <1>10. \A j \in Procs : DownIsIdle(j)'
    BY <1>1 DEF ClaimInv, DownIsIdle
  <1>11. OneRecovers'
    <2>1. \A j \in Procs : Recovers(j)' => j = i
      BY <1>1 DEF Recovers
    <2> QED BY <2>1 DEF OneRecovers
  <1>12. \A j \in Procs : found'[j] # {} => crashes' > 0
    BY <1>1, <1>7
  <1> QED BY <1>t, <1>4, <1>6, <1>8, <1>9, <1>10, <1>11, <1>12 DEF ClaimInv

LEMMA ReconcileKeeps ==
    ASSUME ClaimInv, NEW i \in Procs, Reconcile(i) PROVE ClaimInv'
  <1>t. TypeOK /\ RepoAgrees /\ TypeInv'
    BY ReconcileTypes DEF ClaimInv, TypeInv
  <1>1. /\ up[i] /\ hand[i] = Idle
        /\ UNCHANGED <<home, up, job, worker, agents, late, crashes>>
    BY <1>t, ReconcileDoes
  <1>2. RepoSame
    BY <1>t, ReconcileDoes DEF RepoSame
  <1>3. PICK f \in found[i] :
           /\ f.of \in Launches /\ found'[i] = found[i] \ {f}
           /\ \A j \in Procs \ {i} : found'[j] = found[j]
           /\ \/ /\ f.row.step = "committed" /\ SagaIs(f.of, "done", saga[f.of].claimed)
                 /\ hand' = hand
              \/ /\ f.row.step = "worktree" /\ f.row.claimed
                 /\ HandIs(i, f.of, "ask") /\ saga' = saga
              \/ /\ f.row.step # "committed" /\ ~f.row.claimed
                 /\ SagaIs(f.of, "failed", saga[f.of].claimed) /\ hand' = hand
    BY <1>t, ReconcileDoes
  <1>4. PICK l \in Launches : l = f.of
    BY <1>3
  <1>5. /\ saga[l] = f.row /\ job[l] = "none" /\ worker[l] = "none" /\ ~Reclaimed(l)
        /\ StepsAgree(l) /\ ClaimIsOwn(l) /\ crashes > 0
    BY <1>4 DEF ClaimInv, FoundIsTrue
  <1>6. \A j \in Procs \ {i} : found[j] = {}
    BY DEF ClaimInv, OneRecovers, Recovers
  <1>7. \A j \in Procs : \A g \in found'[j] : g.of # l
    <2>1. ASSUME NEW g \in found[i], g.of = l PROVE g = f
      <3>1. g.row = f.row /\ f \in Founds /\ g \in Founds
        BY <1>t, <1>5, <2>1, Typed DEF ClaimInv, FoundIsTrue
      <3> QED BY <1>4, <2>1, <3>1 DEF Founds
    <2> QED BY <1>3, <1>6, <2>1
  <1>8. RepoAgrees' /\ (\A m \in Launches : ViewKept(m)) /\ Owns(l)' = Owns(l) /\ Has(l)' = Has(l)
    BY <1>t, <1>2, SameRepo
  <1>9. \A m \in Launches \ {l} : Same(m)
    BY <1>1, <1>3, <1>4, <1>8 DEF Same, SagaIs
  <1>10. \A j \in Procs : found'[j] \subseteq found[j]
    BY <1>3
  <1>11. \A j \in Procs : j # i => hand'[j] = hand[j]
    BY <1>3 DEF HandIs
  <1>12. \A j \in Procs : Recovers(j)' => Recovers(j)
    BY <1>1, <1>10, <1>11 DEF Recovers
  <1>13. \A j \in Procs : ~up[j] /\ home'[l] = j => job'[l] = "none" /\ worker'[l] = "none"
    BY <1>1, <1>5
  <1>14. ASSUME hand' = hand, saga'[l].claimed = saga[l].claimed,
                \/ saga'[l].step = "done" /\ saga[l].step = "committed"
                \/ saga'[l].step = "failed" /\ ~saga[l].claimed
         PROVE  ClaimInv'
    <2>1. HandsOf(l) /\ (\A j \in Procs : Launch(j)' # l) /\ Reclaimed(l)' = Reclaimed(l)
      BY <1>5, <1>14 DEF HandsOf, Reclaimed, Launch
    <2>2. StepsAgree(l)'
      BY <1>1, <1>5, <1>14, <2>1 DEF StepsAgree
    <2>3. ClaimIsOwn(l)'
      BY <1>1, <1>5, <1>8, <1>14, <2>1 DEF ClaimIsOwn, StepsAgree
    <2>4. LeavesWork(l)'
      BY <1>1, <1>5 DEF LeavesWork
    <2> QED BY <1>t, <1>1, <1>7, <1>8, <1>9, <1>10, <1>12, <1>13, <2>1, <2>2, <2>3, <2>4, OneChanges
  <1>15. ASSUME f.row.step = "worktree", f.row.claimed, HandIs(i, l, "ask"), saga' = saga
         PROVE  ClaimInv'
    <2>1. Owns(l) /\ l \notin agents
      BY <1>5, <1>15 DEF ClaimIsOwn, StepsAgree
    <2>2. hand'[i].of = l /\ hand'[i].pc = "ask" /\ \A j \in Procs \ {i} : hand'[j] = hand[j]
      BY <1>15 DEF HandIs
    <2>3. HandsOf(l) /\ Reclaimed(l)'
      BY <1>1, <2>2, Nothing DEF HandsOf, Reclaimed, Launch
    <2>4. StepsAgree(l)' /\ ClaimIsOwn(l)' /\ LeavesWork(l)'
      BY <1>1, <1>5, <1>8, <1>15, <2>1, <2>3 DEF StepsAgree, ClaimIsOwn, LeavesWork
    <2>5. ASSUME NEW j \in Procs, Launch(j)' = l PROVE ReclaimIsSafe(j)'
      <3>1. j = i
        BY <1>5, <2>2, <2>5 DEF Reclaimed, Launch
      <3> QED BY <1>1, <1>5, <1>8, <1>15, <2>1, <2>2, <2>5, <3>1 DEF ReclaimIsSafe
    <2> QED BY <1>t, <1>1, <1>7, <1>8, <1>9, <1>10, <1>12, <1>13, <2>3, <2>4, <2>5, OneChanges
  <1> QED BY <1>3, <1>4, <1>5, <1>14, <1>15 DEF SagaIs

LEMMA WorkKeeps ==
    ASSUME ClaimInv, NEW p \in Paths, Work(p) PROVE ClaimInv'
  <1>t. TypeOK /\ RepoAgrees /\ TypeInv'
    BY WorkTypes DEF ClaimInv, TypeInv
  <1>1. /\ UNCHANGED <<home, saga, up, job, worker, found, hand, agents, late, crashes>>
        /\ dir[p].by \in agents \cup {Other}
    BY <1>t, WorkDoes DEF Outside
  <1>2. /\ RepoAgrees' /\ (\A m \in Launches : m # dir[p].by => ViewKept(m))
        /\ \A m \in Launches : Owns(m)' = Owns(m) /\ Has(m)' = Has(m)
    BY <1>t, WorkViews
  <1>3. CASE dir[p].by \notin Launches
    <2>1. \A m \in Launches : Same(m)
      BY <1>1, <1>2, <1>3 DEF Same
    <2> QED BY <1>t, <1>1, <1>2, <2>1, NoneChanges
  <1>4. ASSUME NEW l \in Launches, dir[p].by = l PROVE ClaimInv'
    <2>1. l \in agents
      BY <1>1, <1>4, Nothing
    <2>2. /\ saga[l].step \in {"committed", "done"} /\ ~Reclaimed(l) /\ StepsAgree(l)
          /\ ClaimIsOwn(l)
      BY <2>1 DEF ClaimInv, StepsAgree
    <2>3. \A m \in Launches \ {l} : Same(m)
      BY <1>1, <1>2, <1>4 DEF Same
    <2>4. HandsOf(l) /\ (\A j \in Procs : Launch(j)' # l) /\ Reclaimed(l)' = Reclaimed(l)
      BY <1>1, <2>2 DEF HandsOf, Reclaimed, Launch
    <2>5. \A j \in Procs : Recovers(j)' => Recovers(j)
      BY <1>1 DEF Recovers
    <2>6. StepsAgree(l)' /\ ClaimIsOwn(l)' /\ LeavesWork(l)'
      <3>1. StepsAgree(l)'
        BY <1>1, <2>2, <2>4 DEF StepsAgree
      <3>2. ClaimIsOwn(l)'
        BY <1>1, <1>2, <2>2, <2>4 DEF ClaimIsOwn
      <3>3. LeavesWork(l)'
        BY <1>1, <2>2 DEF LeavesWork
      <3> QED BY <3>1, <3>2, <3>3
    <2>7. \A j \in Procs : \A f \in found'[j] : f.of = l =>
              saga'[l] = f.row /\ job'[l] = "none" /\ worker'[l] = "none" /\ ~Reclaimed(l)'
      BY <1>1, <2>2, <2>4 DEF ClaimInv, FoundIsTrue
    <2>8. \A j \in Procs : ~up[j] /\ home'[l] = j => job'[l] = "none" /\ worker'[l] = "none"
      BY <1>1 DEF ClaimInv, DownIsIdle
    <2> QED BY <1>t, <1>1, <1>2, <2>3, <2>4, <2>5, <2>6, <2>7, <2>8, OneChanges
  <1> QED BY <1>3, <1>4

LEMMA OtherSessionKeeps ==
    ASSUME ClaimInv, OthersAttach = FALSE, NEW b \in Branches, OtherSession(b) PROVE ClaimInv'
  <1>t. TypeOK /\ RepoAgrees /\ TypeInv'
    BY OtherSessionTypes DEF ClaimInv, TypeInv
  <1>1. UNCHANGED <<home, saga, up, job, worker, found, hand, agents, late, crashes>>
    BY <1>t, OtherSessionDoes DEF Outside
  <1>2. RepoAgrees' /\ \A m \in Launches : ViewKept(m)
    BY <1>t, OtherSessionViews
  <1>3. \A m \in Launches : Same(m)
    BY <1>1, <1>2 DEF Same
  <1> QED BY <1>t, <1>1, <1>2, <1>3, NoneChanges

LEMMA CleanUpKeeps ==
    ASSUME ClaimInv, Cleans = FALSE, NEW l \in Launches, CleanUp(l) PROVE ClaimInv'
  <1>t. TypeOK /\ RepoAgrees /\ TypeInv' /\ StepsAgree(l) /\ ClaimIsOwn(l)
    BY CleanUpTypes DEF ClaimInv, TypeInv
  <1>1. /\ saga[l].step = "failed"
        /\ UNCHANGED <<home, saga, up, job, worker, found, hand, agents, late, crashes>>
    BY <1>t, CleanUpDoes DEF Outside
  <1>2. /\ RepoAgrees' /\ (\A m \in Launches \ {l} : ViewKept(m))
        /\ Has(l) /\ ~Owns(l)' /\ ~Has(l)'
    BY <1>t, CleanUpViews
  <1>3. \A m \in Launches \ {l} : Same(m)
    BY <1>1, <1>2 DEF Same
  <1>4. ~Reclaimed(l) /\ \A j \in Procs : Launch(j)' # l
    <2>1. ASSUME NEW j \in Procs, Launch(j) = l PROVE FALSE
      BY <1>1, <2>1, Nothing DEF ClaimInv, ReclaimIsSafe, Launch
    <2> QED BY <1>1, <2>1 DEF Reclaimed, Launch
  <1>5. HandsOf(l) /\ (\A j \in Procs : Recovers(j)' => Recovers(j)) /\ Reclaimed(l)' = Reclaimed(l)
    BY <1>1 DEF HandsOf, Recovers, Reclaimed, Launch
  <1>6. \A j \in Procs : \A f \in found'[j] : f.of # l
    <2>1. ASSUME NEW j \in Procs, NEW f \in found[j], f.of = l PROVE FALSE
      <3>1. saga[l] = f.row /\ f \in Founds
        BY <1>t, <2>1, Typed DEF ClaimInv, FoundIsTrue
      <3> QED BY <1>1, <3>1 DEF Founds, Rows
    <2> QED BY <1>1, <2>1
  <1>7. job[l] # "running" /\ job[l] # "made" /\ worker[l] # "add" 
    BY <1>t, <1>1, <1>2 DEF StepsAgree, ClaimIsOwn
  <1>8. StepsAgree(l)' /\ ClaimIsOwn(l)' /\ LeavesWork(l)'
    <2>1. StepsAgree(l)'
      BY <1>t, <1>1, <1>5 DEF StepsAgree
    <2>2. ClaimIsOwn(l)'
      BY <1>t, <1>1, <1>2, <1>5, <1>7 DEF ClaimIsOwn
    <2>3. LeavesWork(l)'
      BY <1>2 DEF LeavesWork, OnlyWorkLeft
    <2> QED BY <2>1, <2>2, <2>3
  <1>9. \A j \in Procs : ~up[j] /\ home'[l] = j => job'[l] = "none" /\ worker'[l] = "none"
    BY <1>1 DEF ClaimInv, DownIsIdle
  <1> QED BY <1>t, <1>1, <1>2, <1>3, <1>4, <1>5, <1>6, <1>8, <1>9, OneChanges

-----------------------------------------------------------------------------
(* The theorems *)

LEMMA ClaimInit == ASSUME Init PROVE ClaimInv
  <1>1. /\ \A l \in Launches : saga[l] = NoSaga /\ job[l] = "none" /\ worker[l] = "none"
        /\ \A i \in Procs : up[i] /\ found[i] = {} /\ hand[i] = Idle
        /\ agents = {}
    BY DEF Init
  <1>2. /\ \A p \in Paths : dir[p] = NoDir
        /\ \A b \in Branches : ref[b] = NoRef
        /\ \A l \in Launches : Dir(l) \in Paths /\ branch[l] \in Branches
    BY DEF Init, Dir
  <1>3. RepoAgrees
    BY <1>2, Nothing DEF RepoAgrees
  <1>4. \A l \in Launches : ~Owns(l) /\ ~Has(l)
    BY <1>2, Nothing DEF Owns, Has
  <1>5. \A l \in Launches : StepsAgree(l) /\ ClaimIsOwn(l) /\ LeavesWork(l)
    BY <1>1, <1>4, Nothing DEF StepsAgree, ClaimIsOwn, LeavesWork
  <1>6. \A i \in Procs : ReclaimIsSafe(i) /\ FoundIsTrue(i) /\ DownIsIdle(i) /\ ~Recovers(i)
    BY <1>1 DEF ReclaimIsSafe, FoundIsTrue, DownIsIdle, Recovers
  <1> QED BY <1>1, <1>3, <1>5, <1>6, TypeInit DEF ClaimInv, OneRecovers

LEMMA ClaimStutters == ASSUME ClaimInv, UNCHANGED vars PROVE ClaimInv'
  <1>1. /\ RepoSame
        /\ UNCHANGED <<saga, up, home, job, worker, found, hand, agents, late, crashes>>
    BY DEF vars, plan, repo, procs, RepoSame, Plan
  <1>2. RepoAgrees' /\ \A m \in Launches : Same(m)
    BY <1>1, SameRepo DEF ClaimInv, Same
  <1> QED BY <1>1, <1>2, StutterTypes, NoneChanges DEF ClaimInv

LEMMA ClaimNext == ASSUME OneAtATime, ClaimInv, [Next]_vars PROVE ClaimInv'
  <1>1. ASSUME NEW l \in Launches, Drive(l) PROVE ClaimInv'
    BY <1>1, StartWorktreeKeeps, CutBranchKeeps, AddWorktreeKeeps, TakeWorktreeKeeps, TimeOutKeeps,
       CommitKeeps, LaunchDoneKeeps, LaunchFailsKeeps DEF Drive, OneAtATime
  <1>2. ASSUME NEW i \in Procs, Reclaim(i) PROVE ClaimInv'
    BY <1>2, AskBranchKeeps, VerifyKeeps, RemoveKeeps, CountAheadKeeps, DeleteBranchKeeps,
       EndReclaimKeeps DEF Reclaim
  <1>3. ASSUME NEW i \in Procs, Crash(i) \/ Start(i) \/ Reconcile(i) PROVE ClaimInv'
    BY <1>3, CrashKeeps, StartKeeps, ReconcileKeeps DEF OneAtATime
  <1>4. ASSUME NEW p \in Paths, Work(p) PROVE ClaimInv'
    BY <1>4, WorkKeeps
  <1>5. ASSUME NEW b \in Branches, OtherSession(b) PROVE ClaimInv'
    BY <1>5, OtherSessionKeeps DEF OneAtATime
  <1>6. ASSUME NEW l \in Launches, CleanUp(l) PROVE ClaimInv'
    BY <1>6, CleanUpKeeps DEF OneAtATime
  <1> QED BY <1>1, <1>2, <1>3, <1>4, <1>5, <1>6, BeginKeeps, ClaimStutters DEF Next

\* Where one process at a time recovers, and nobody else reaches into the repository, every
\* reclaim (app/bridge_saga.rs, unwind_child_launch and the recovery) is of a launch nobody
\* drives, and what it is about to remove is that launch's.
THEOREM ClaimInvariant == ASSUME OneAtATime PROVE Spec => []ClaimInv
  BY ClaimInit, ClaimNext, PTL DEF Spec

\* A child keeps the directory and the branch its launch claimed.
THEOREM ChildKeepsWorktree == ASSUME OneAtATime PROVE Spec => []ChildHasItsWorktree
  <1>1. ASSUME ClaimInv PROVE ChildHasItsWorktree
    <2>1. ASSUME NEW l \in Launches, saga[l].step \in {"committed", "done"},
                 \A i \in Procs : Launch(i) # l
          PROVE  dir[Dir(l)].by = l /\ dir[Dir(l)].on = branch[l]
      <3>1. Has(l)
        BY <1>1, <2>1 DEF ClaimInv, ClaimIsOwn, Reclaimed
      <3> QED BY <1>1, <3>1, OwnFacts DEF ClaimInv, TypeInv, Has
    <2> QED BY <2>1 DEF ChildHasItsWorktree
  <1> QED BY <1>1, ClaimInvariant, PTL

\* A launch that failed leaves no directory and no branch but those with work in them
\* (unwind_child_launch, reclaim_child_worktree).
THEOREM FailureLeavesWork == ASSUME OneAtATime PROVE Spec => []NothingLeaks
  <1>1. ASSUME ClaimInv PROVE NothingLeaks
    <2>t. TypeOK /\ RepoAgrees
      BY <1>1 DEF ClaimInv, TypeInv
    <2>1. ASSUME NEW l \in Launches, saga[l].step = "failed", l \notin late, crashes = 0
          PROVE  /\ \A p \in Paths : dir[p].by = l => dir[p].dirty
                 /\ \A b \in Branches : ref[b].by = l => ref[b].ahead \/ CheckedOut(b)
      <3>1. OnlyWorkLeft(l)
        BY <1>1, <2>1 DEF ClaimInv, LeavesWork
      <3>2. Dir(l) \in Paths /\ Has(l) => CheckedOut(branch[l])
        BY <2>t, OwnFacts DEF CheckedOut
      <3>3. Dir(l) \in Paths
        BY <2>t, Typed
      <3> QED BY <2>t, <3>1, <3>2, <3>3, OwnFacts DEF OnlyWorkLeft, Has, Owns, Soiled, Ahead
    <2> QED BY <2>1 DEF NothingLeaks
  <1> QED BY <1>1, ClaimInvariant, PTL

\* What the two commands of a reclaim that remove anything remove.
LEMMA ReclaimRemoves ==
    ASSUME ClaimInv, NEW i \in Procs, Reclaim(i)
    PROVE  /\ \A p \in Paths : dir'[p] # dir[p] => ~dir[p].dirty /\ dir[p].by = Launch(i)
           /\ \A b \in Branches : ref'[b] # ref[b] => ~ref[b].ahead /\ ref[b].by = Launch(i)
  <1>t. TypeOK
    BY DEF ClaimInv, TypeInv
  <1>1. CASE Remove(i)
    <2>1. hand[i] # Idle /\ hand[i].pc = "remove" /\ ref' = ref
          /\ \A q \in Paths \ {Dir(Launch(i))} : dir'[q] = dir[q]
      BY <1>t, <1>1, RemoveDoes, Nothing DEF DirIs
    <2>2. dir[Dir(Launch(i))].by = Launch(i) /\ ~dir[Dir(Launch(i))].dirty
      BY <2>1 DEF ClaimInv, ReclaimIsSafe, Has, Soiled
    <2> QED BY <2>1, <2>2
  <1>2. CASE DeleteBranch(i)
    <2>1. hand[i] # Idle /\ hand[i].pc = "delete" /\ dir' = dir
      BY <1>t, <1>2, DeleteBranchDoes, Nothing
    <2>2. ref[branch[Launch(i)]].by = Launch(i)
      BY <2>1 DEF ClaimInv, ReclaimIsSafe, Owns
    <2>3. \A b \in Branches : ref'[b] # ref[b] => b = branch[Launch(i)] /\ ~ref[b].ahead
      BY <1>t, <1>2, DeleteBranchDoes DEF RefIs
    <2> QED BY <2>1, <2>2, <2>3
  <1>3. CASE AskBranch(i) \/ Verify(i) \/ CountAhead(i) \/ EndReclaim(i)
    <2>1. ref' = ref /\ dir' = dir
      BY <1>3 DEF AskBranch, Verify, CountAhead, EndReclaim, repo
    <2> QED BY <2>1
  <1> QED BY <1>1, <1>2, <1>3 DEF Reclaim

\* No reclaim removes a worktree with uncommitted work, or a branch with commits of its own
\* (verify_worktree, reclaim_child_branch).
THEOREM ReclaimKeepsWork == ASSUME OneAtATime PROVE Spec => WorkIsKept
  <1>1. ASSUME ClaimInv, NEW i \in Procs, Reclaim(i)
        PROVE  /\ \A p \in Paths : dir[p].dirty => dir'[p] = dir[p]
               /\ \A b \in Branches : ref[b].ahead => ref'[b] = ref[b]
    BY <1>1, ReclaimRemoves
  <1>2. ClaimInv /\ [Next]_vars =>
            [\A i \in Procs : Reclaim(i) =>
                /\ \A p \in Paths : dir[p].dirty => dir'[p] = dir[p]
                /\ \A b \in Branches : ref[b].ahead => ref'[b] = ref[b]]_vars
    BY <1>1
  <1> QED BY <1>2, ClaimInvariant, PTL DEF Spec, WorkIsKept

\* A reclaim removes what its own launch made, and nothing else (worktree_is_on, the
\* `claimed' row of the saga).
THEOREM ReclaimTakesItsOwn == ASSUME OneAtATime PROVE Spec => OnlyItsOwn
  <1>1. ASSUME ClaimInv, NEW i \in Procs, Reclaim(i)
        PROVE  /\ \A p \in Paths : dir'[p] # dir[p] => dir[p].by = Launch(i)
               /\ \A b \in Branches : ref'[b] # ref[b] => ref[b].by = Launch(i)
    BY <1>1, ReclaimRemoves
  <1>2. ClaimInv /\ [Next]_vars =>
            [\A i \in Procs : Reclaim(i) =>
                /\ \A p \in Paths : dir'[p] # dir[p] => dir[p].by = Launch(i)
                /\ \A b \in Branches : ref'[b] # ref[b] => ref[b].by = Launch(i)]_vars
    BY <1>1
  <1> QED BY <1>2, ClaimInvariant, PTL DEF Spec, OnlyItsOwn
=============================================================================
