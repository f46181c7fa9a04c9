---------------------------- MODULE Automations ----------------------------
(***************************************************************************)
(* One automation and the processes that may fire it: friring instances    *)
(* and headless `automation tick's (app/automation.rs, cli/automations.rs  *)
(* over storage/automations.rs).  A pass reads what is due, claims it by   *)
(* moving its next run on, and only then acts.  An exec action leaves a    *)
(* `running' row that its worker closes when the command ends or is killed *)
(* at its deadline; a row whose worker died is closed by the reaper, while *)
(* the command, a process group of its own, runs on.  An edit reads the    *)
(* row, works out the next run and writes the row back.                    *)
(***************************************************************************)
EXTENDS Naturals, Sequences, FiniteSets, FiniteSetsExt

CONSTANTS
    Instances,      \* friring: its commands run on workers of their own
    Tickers,        \* `automation tick': waits for its command
    Slots,          \* the times the schedule names
    Timeouts,       \* values of action_timeout_secs
    DefaultTimeout, \* DEFAULT_EXEC_TIMEOUT_SECS
    Grace,          \* REAP_GRACE_MS
    MaxTime,        \* bound: the clock
    MaxEdits,       \* bound: edits, triggers and removals
    MaxCrashes,     \* bound: processes that quit or die
    EditsRace,      \* others run between an edit's read and its write
    TimeoutsChange  \* an edit may change the timeout

Firers == Instances \cup Tickers
Never  == 0  \* next_run_at IS NULL

ASSUME AutomationAssumption ==
    /\ Instances \cap Tickers = {}
    /\ Slots \subseteq 1..MaxTime
    /\ Timeouts \subseteq Nat \ {0} /\ DefaultTimeout \in Nat \ {0}
    /\ {Grace, MaxTime, MaxEdits, MaxCrashes} \subseteq Nat
    /\ {EditsRace, TimeoutsChange} \subseteq BOOLEAN

VARIABLES
    now,      \* the clock
    row,      \* the automations row, or Gone
    runs,     \* automation_runs, in order of their ids
    fire,     \* firer |-> what it holds of a pass
    workers,  \* commands being run, each for a row of runs
    strays,   \* rows whose command runs on without its worker
    edit,     \* an edit between its read and its write, or NoEdit
    manual,   \* the next run was asked for, not scheduled
    claimed,  \* slot |-> how often it was claimed
    edits, crashes

bounds == <<edits, crashes>>
vars   == <<now, row, runs, fire, workers, strays, edit, manual, claimed, bounds>>

Times  == 0..MaxTime
Rows   == [kind : {"exec", "other"}, enabled : BOOLEAN, next : Times, timeout : Timeouts]
Gone   == [kind |-> "gone", enabled |-> FALSE, next |-> Never, timeout |-> DefaultTimeout]
NoEdit == [Gone EXCEPT !.kind = "none"]
Idle   == [pc |-> "idle", saw |-> Gone, at |-> 0]
\* What a claim leaves the fire with: the action as it was read.
Won(saw) == [pc |-> "claimed", saw |-> [saw EXCEPT !.next = Never], at |-> 0]
Run    == [started : Times, status : {"running", "final", "skipped", "deleted"}]
Worker == [owner : Firers, run : Nat, deadline : Nat]

\* AutomationSchedule::next_after: strictly later.
NextAfter(t) ==
    LET later == {s \in Slots : s > t} IN IF later = {} THEN Never ELSE Min(later)

\* RUN_OUTLIVED_SQL asks for the timeout the row has now.
Outlived(n) ==
    runs[n].status = "running" /\ now > runs[n].started + row.timeout + Grace

-----------------------------------------------------------------------------
(* A pass: reap, read what is due, then a claim and a fire *)

\* A ticker that waits for its command makes no other pass.
Free(f) == fire[f] = Idle /\ (f \in Tickers => \A w \in workers : w.owner # f)

\* The rows with those in `old' closed.
Closed(old) ==
    [n \in DOMAIN runs |-> IF n \in old THEN [runs[n] EXCEPT !.status = "final"] ELSE runs[n]]

\* Mutant: rows are closed by their workers alone.
ReapNothing(f) ==
    /\ Free(f)
    /\ fire' = [fire EXCEPT ![f].pc = "reaped"]
    /\ UNCHANGED <<now, row, runs, workers, strays, edit, manual, claimed, bounds>>

\* reap_orphaned_automation_runs, at the start of every pass.
Reap(f) ==
    /\ Free(f)
    /\ runs' = Closed({n \in DOMAIN runs : Outlived(n)})
    /\ fire' = [fire EXCEPT ![f].pc = "reaped"]
    /\ UNCHANGED <<now, row, workers, strays, edit, manual, claimed, bounds>>

\* due_automations.
Scan(f) ==
    /\ fire[f].pc = "reaped"
    /\ fire' = [fire EXCEPT ![f] =
                  IF row.enabled /\ row.next # Never /\ row.next <= now
                  THEN [pc |-> "due", saw |-> row, at |-> now] ELSE Idle]
    /\ UNCHANGED <<now, row, runs, workers, strays, edit, manual, claimed, bounds>>

\* Mutant: the claim does not compare the next run with the one it saw.
ClaimUnseen(f) ==
    LET next == NextAfter(fire[f].at)
    IN  /\ fire[f].pc = "due" /\ row.kind # "gone"
        /\ row' = [row EXCEPT !.next = next, !.enabled = @ /\ next # Never]
        /\ claimed' = IF manual \/ fire[f].saw.next \notin Slots THEN claimed
                      ELSE [claimed EXCEPT ![fire[f].saw.next] = @ + 1]
        /\ manual' = FALSE
        /\ fire' = [fire EXCEPT ![f] = Won(fire[f].saw)]
        /\ UNCHANGED <<now, runs, workers, strays, edit, bounds>>

\* claim_due_automation: the row moves on if its next run is still the one
\* that was seen; a spent schedule disables it.
Claim(f) ==
    LET next == NextAfter(fire[f].at)
        won  == row.kind # "gone" /\ row.next = fire[f].saw.next
    IN  /\ fire[f].pc = "due"
        /\ \/ /\ won
              /\ row' = [row EXCEPT !.next = next, !.enabled = @ /\ next # Never]
              /\ claimed' = IF manual THEN claimed ELSE [claimed EXCEPT ![row.next] = @ + 1]
              /\ manual' = FALSE
              /\ fire' = [fire EXCEPT ![f] = Won(fire[f].saw)]
           \/ ~won /\ fire' = [fire EXCEPT ![f] = Idle] /\ UNCHANGED <<row, claimed, manual>>
        /\ UNCHANGED <<now, runs, workers, strays, edit, bounds>>

\* send or spawn: done inline, one final row.
Deliver(f) ==
    /\ fire[f].pc = "claimed" /\ fire[f].saw.kind = "other"
    /\ runs' = Append(runs, [started |-> now, status |-> "final"])
    /\ fire' = [fire EXCEPT ![f] = Idle]
    /\ UNCHANGED <<now, row, workers, strays, edit, manual, claimed, bounds>>

\* Mutant: every claimed slot starts its command.
BeginExecAnyway(f) ==
    /\ fire[f].pc = "claimed" /\ fire[f].saw.kind = "exec"
    /\ runs' = Append(runs, [started |-> now, status |-> "running"])
    /\ workers' = workers \cup {[owner |-> f, run |-> Len(runs) + 1,
                                 deadline |-> now + fire[f].saw.timeout]}
    /\ fire' = [fire EXCEPT ![f] = Idle]
    /\ UNCHANGED <<now, row, strays, edit, manual, claimed, bounds>>

\* Mutant: the command starts although its row was not written.
BeginUnrecorded(f) ==
    /\ fire[f].pc = "claimed" /\ fire[f].saw.kind = "exec"
    /\ workers' = workers \cup {[owner |-> f, run |-> Len(runs) + 1,
                                 deadline |-> now + fire[f].saw.timeout]}
    /\ fire' = [fire EXCEPT ![f] = Idle]
    /\ UNCHANGED <<now, row, runs, strays, edit, manual, claimed, bounds>>

\* begin_exec_run: one statement looks for a live run and inserts.
BeginExec(f) ==
    /\ fire[f].pc = "claimed" /\ fire[f].saw.kind = "exec"
    /\ IF \E n \in DOMAIN runs : runs[n].status = "running" /\ ~Outlived(n)
       THEN runs' = Append(runs, [started |-> now, status |-> "skipped"]) /\ UNCHANGED workers
       ELSE /\ runs' = Append(runs, [started |-> now, status |-> "running"])
            /\ workers' = workers \cup {[owner |-> f, run |-> Len(runs) + 1,
                                         deadline |-> now + fire[f].saw.timeout]}
    /\ fire' = [fire EXCEPT ![f] = Idle]
    /\ UNCHANGED <<now, row, strays, edit, manual, claimed, bounds>>

\* The check itself failed: nothing runs; only a ticker writes that down.
BeginFails(f) ==
    /\ fire[f].pc = "claimed" /\ fire[f].saw.kind = "exec"
    /\ runs' = IF f \in Tickers THEN Append(runs, [started |-> now, status |-> "final"]) ELSE runs
    /\ fire' = [fire EXCEPT ![f] = Idle]
    /\ UNCHANGED <<now, row, workers, strays, edit, manual, claimed, bounds>>

\* finish_automation_run, whatever the row says by now; a ticker whose row is
\* gone writes another.
Finish(w) ==
    /\ runs' = IF runs[w.run].status # "deleted" THEN [runs EXCEPT ![w.run].status = "final"]
               ELSE IF w.owner \in Tickers THEN Append(runs, [started |-> now, status |-> "final"])
               ELSE runs
    /\ workers' = workers \ {w}
    /\ UNCHANGED <<now, row, fire, strays, edit, manual, claimed, bounds>>

-----------------------------------------------------------------------------
(* The user *)

\* automation edit, the editor, the toggle: the row as read, with the next run
\* worked out now.
ReadForEdit ==
    /\ row.kind # "gone" /\ edit = NoEdit /\ edits < MaxEdits
    /\ edits' = edits + 1
    /\ \E on \in BOOLEAN, t \in Timeouts :
          /\ t = row.timeout \/ TimeoutsChange
          /\ edit' = [row EXCEPT !.enabled = on, !.timeout = t,
                                 !.next = IF on THEN NextAfter(now) ELSE Never]
    /\ UNCHANGED <<now, row, runs, fire, workers, strays, manual, claimed, crashes>>

\* update_automation replaces the whole row; one that is gone stays gone.
WriteEdit ==
    /\ edit # NoEdit
    /\ row' = IF row.kind = "gone" THEN row ELSE edit
    /\ edit' = NoEdit /\ manual' = FALSE
    /\ UNCHANGED <<now, runs, fire, workers, strays, claimed, bounds>>

\* trigger_automation_now.
Trigger ==
    /\ row.kind # "gone" /\ edits < MaxEdits /\ now > 0
    /\ edits' = edits + 1
    /\ row' = [row EXCEPT !.enabled = TRUE, !.next = now]
    /\ manual' = TRUE
    /\ UNCHANGED <<now, runs, fire, workers, strays, edit, claimed, crashes>>

\* delete_automation, its history first.
Delete ==
    /\ row.kind # "gone" /\ edits < MaxEdits
    /\ edits' = edits + 1
    /\ runs' = [n \in DOMAIN runs |-> [runs[n] EXCEPT !.status = "deleted"]]
    /\ row' = Gone
    /\ UNCHANGED <<now, fire, workers, strays, edit, manual, claimed, crashes>>

-----------------------------------------------------------------------------
(* Time and crashes *)

\* A command is killed at its deadline, and its worker has the grace period to
\* say so.
Advance ==
    /\ now < MaxTime
    /\ \A w \in workers : now < w.deadline + Grace
    /\ now' = now + 1
    /\ UNCHANGED <<row, runs, fire, workers, strays, edit, manual, claimed, bounds>>

\* A process quits or dies with its pass and its workers; nobody is left to
\* kill their commands.
Crash(f) ==
    /\ crashes < MaxCrashes
    /\ fire[f] # Idle \/ \E w \in workers : w.owner = f
    /\ crashes' = crashes + 1
    /\ fire' = [fire EXCEPT ![f] = Idle]
    /\ workers' = {w \in workers : w.owner # f}
    /\ strays' = strays \cup {w.run : w \in workers \ workers'}
    /\ UNCHANGED <<now, row, runs, edit, manual, claimed, edits>>

StrayEnds ==
    /\ \E n \in strays : strays' = strays \ {n}
    /\ UNCHANGED <<now, row, runs, fire, workers, edit, manual, claimed, bounds>>

-----------------------------------------------------------------------------
(* Specification *)

Init ==
    /\ now = 0
    /\ row \in {r \in Rows : r.enabled /\ r.next = NextAfter(0)}
    /\ runs = <<>> /\ workers = {} /\ strays = {}
    /\ fire = [f \in Firers |-> Idle]
    /\ edit = NoEdit /\ manual = FALSE
    /\ claimed = [s \in Slots |-> 0]
    /\ edits = 0 /\ crashes = 0

Pass(f) == Reap(f) \/ Scan(f) \/ Claim(f) \/ Deliver(f) \/ BeginExec(f) \/ BeginFails(f)

Others ==
    \/ Trigger \/ Delete \/ Advance \/ StrayEnds
    \/ \E f \in Firers : Pass(f) \/ Crash(f)
    \/ \E w \in workers : Finish(w)

Next == ReadForEdit \/ WriteEdit \/ ((EditsRace \/ edit = NoEdit) /\ Others)

Spec == Init /\ [][Next]_vars

\* The clock runs, passes are made, and a command ends or is killed.
Fairness ==
    /\ WF_vars(Advance) /\ WF_vars(WriteEdit)
    /\ WF_vars(\E w \in workers : Finish(w))
    /\ \A f \in Firers : WF_vars(Pass(f))

FairSpec == Spec /\ Fairness

-----------------------------------------------------------------------------
(* Properties *)

\* Every column stays in its type, and a worker works for a row it inserted.
TypeOK ==
    /\ now \in Times
    /\ row \in Rows \cup {Gone} /\ edit \in Rows \cup {NoEdit}
    /\ runs \in Seq(Run)
    /\ fire \in [Firers -> [pc : {"due", "claimed"}, saw : Rows, at : Times]
                             \cup {Idle, [Idle EXCEPT !.pc = "reaped"]}]
    /\ workers \subseteq Worker
    /\ {w.run : w \in workers} \cup strays \subseteq DOMAIN runs
    /\ manual \in BOOLEAN /\ claimed \in [Slots -> Nat]
    /\ edits \in 0..MaxEdits /\ crashes \in 0..MaxCrashes

\* "At-most-once": a scheduled time is claimed by one firer, once, whatever
\* passes and crashes come between, and edits that nothing comes between (one
\* that races a claim puts the slot back: EditsRace).
AtMostOncePerSlot == \A s \in Slots : claimed[s] <= 1

\* A worker never runs the command of a standing automation beside another
\* that runs it.
NoOverlap == row.kind # "gone" => Cardinality(workers) <= 1

\* Row n is closed by a reaper.
Reaped(n) ==
    /\ n \in DOMAIN runs /\ runs[n].status # runs'[n].status
    /\ \E f \in Firers : Reap(f)

\* The reaper "never reaches a row a live worker still owns".
ReapedIsDead == [][\A w \in workers : ~Reaped(w.run)]_vars

Running(n) == n \in DOMAIN runs /\ runs[n].status = "running"

\* A `running' row is closed in the end, its worker and its process gone or
\* not; rows too young to be reaped before the clock stops say nothing.
RunsAreClosed ==
    \A n \in 1..Cardinality(Slots) + MaxEdits :
        Running(n) /\ runs[n].started + Max(Timeouts) + Grace < MaxTime ~> ~Running(n)

\* A deadline "is a promise that nothing of it outlives the run": no command
\* runs under a row that is closed.
NothingOutlivesItsRun == \A n \in strays : Running(n)

=============================================================================
