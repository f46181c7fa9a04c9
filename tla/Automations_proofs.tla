-------------------------- MODULE Automations_proofs --------------------------
(***************************************************************************)
(* What holds of Automations for every schedule, every set of processes    *)
(* and every bound: its types, that a scheduled time is claimed at most    *)
(* once, and that the command of a standing automation does not overlap    *)
(* itself.  The last two rest on assumptions the runs make as well: no     *)
(* step between an edit's read and its write, and no edit of the timeout.  *)
(***************************************************************************)
EXTENDS Automations, FiniteSetTheorems, WellFoundedInduction, TLAPS

\* What a pass that has read the row holds of it.
Reading(f) == fire[f].pc \in {"due", "claimed"}
Standing   == row.kind # "gone"

-----------------------------------------------------------------------------
(* Overlap *)

\* Whoever is about to act knows the timeout the row has.
TimeoutIsKept ==
    Standing =>
        /\ \A f \in Firers : Reading(f) => fire[f].saw.timeout = row.timeout
        /\ edit # NoEdit => edit.timeout = row.timeout

\* A history goes only with its automation.
HistoryStays == Standing => \A n \in DOMAIN runs : runs[n].status # "deleted"

\* A worker's row is `running', and too young to be reaped.
WorkersRun ==
    \A w \in workers :
        /\ now <= w.deadline + Grace
        /\ Standing => /\ runs[w.run].status = "running"
                       /\ w.deadline = runs[w.run].started + row.timeout

OneWorker == Standing => \A v, w \in workers : v = w

OverlapInv == TypeOK /\ TimeoutIsKept /\ HistoryStays /\ WorkersRun /\ OneWorker

-----------------------------------------------------------------------------
(* Claims *)

\* What is claimed is past.
ClaimsArePast == \A s \in Slots : claimed[s] # 0 => s <= now

\* What the row is due at next, unless it was asked for, was never claimed.
NextIsUnclaimed ==
    Standing /\ ~manual /\ row.next # Never =>
        row.next \in Slots /\ \A s \in Slots : s >= row.next => claimed[s] = 0

\* Who read what the row still says knows of every claim.
ReadersAreCurrent ==
    \A f \in Firers : fire[f].pc = "due" =>
        /\ fire[f].saw.next # Never /\ fire[f].saw.next <= fire[f].at /\ fire[f].at <= now
        /\ Standing /\ row.next = fire[f].saw.next =>
              \A s \in Slots : s > fire[f].at => claimed[s] = 0

\* An edit is written before anything else happens.
EditIsFresh ==
    edit # NoEdit => edit.next = Never \/ (edit.next \in Slots /\ edit.next > now)

ClaimInv ==
    TypeOK /\ ClaimsArePast /\ NextIsUnclaimed /\ ReadersAreCurrent /\ EditIsFresh
    /\ AtMostOncePerSlot

-----------------------------------------------------------------------------
(* Values, sequences and the schedule *)

LEMMA Smallest ==
    ASSUME NEW S, S \subseteq Nat, S # {}
    PROVE  Min(S) \in S /\ \A y \in S : Min(S) =< y
  <1> DEFINE Below == {ss \in Nat \X Nat : ss[1] < ss[2]}
  <1>1. IsWellFoundedOn(Below, Nat)
    BY NatLessThanWellFounded, Zenon DEF OpToRel
  <1>2. \A x, y \in Nat : <<x, y>> \in Below <=> x < y
    OBVIOUS
  <1> HIDE DEF Below
  <1>3. PICK x \in S : \A y \in S : ~ (<<y, x>> \in Below)
    BY <1>1, WFMin
  <1>4. ASSUME NEW y \in S PROVE x =< y
    <2>1. x \in Nat /\ y \in Nat
      OBVIOUS
    <2>2. ~ (y < x)
      BY <1>2, <1>3, <2>1, Zenon
    <2> QED BY <2>1, <2>2
  <1>5. \E m \in S : \A y \in S : m =< y
    BY <1>3, <1>4
  <1> QED BY <1>5 DEF Min

\* The next run of a schedule is one of its times, the first after t; or none.
LEMMA NextAfterFacts ==
    ASSUME NEW t \in Nat
    PROVE  /\ NextAfter(t) \in Times
           /\ NextAfter(t) # Never =>
                 NextAfter(t) \in Slots /\ NextAfter(t) > t
  <1> DEFINE later == {s \in Slots : s > t}
  <1>1. Slots \subseteq Nat \ {0} /\ Slots \subseteq Times
    BY AutomationAssumption DEF Times
  <1>2. CASE later = {}
    BY <1>2, AutomationAssumption DEF NextAfter, Times, Never
  <1>3. CASE later # {}
    <2>1. Min(later) \in later
      BY <1>1, <1>3, Smallest
    <2> QED BY <1>1, <1>3, <2>1 DEF NextAfter
  <1> QED BY <1>2, <1>3

LEMMA RowFacts ==
    /\ Gone.kind = "gone" /\ NoEdit.kind = "none" /\ Gone.enabled = FALSE
    /\ \A r \in Rows \cup {Gone} : r.kind # "gone" <=> r \in Rows
    /\ \A r \in Rows \cup {NoEdit} : r # NoEdit <=> r \in Rows
    /\ \A r \in Rows : r.next \in Times /\ r.timeout \in Nat \ {0}
  <1>1. Gone \in [kind : {"gone"}, enabled : {FALSE}, next : {Never}, timeout : {DefaultTimeout}]
    BY DEF Gone
  <1>2. NoEdit \in [kind : {"none"}, enabled : {FALSE}, next : {Never}, timeout : {DefaultTimeout}]
    BY <1>1 DEF NoEdit
  <1> QED BY <1>1, <1>2, AutomationAssumption DEF Rows

Passes   == [pc : {"due", "claimed"}, saw : Rows, at : Times]
Reported == [Idle EXCEPT !.pc = "reaped"]

LEMMA PassFacts ==
    /\ Idle.pc = "idle" /\ Reported.pc = "reaped"
    /\ \A p \in Passes \cup {Idle, Reported} : p.pc \in {"due", "claimed"} <=> p \in Passes
    /\ \A p \in Passes \cup {Idle, Reported} : p.pc = "idle" <=> p = Idle
    /\ \A p \in Passes : p.saw \in Rows /\ p.at \in Times
  <1>1. Idle \in [pc : {"idle"}, saw : {Gone}, at : {0}]
    BY DEF Idle
  <1>2. Reported \in [pc : {"reaped"}, saw : {Gone}, at : {0}]
    BY <1>1 DEF Reported
  <1> QED BY <1>1, <1>2 DEF Passes

LEMMA WonFacts ==
    ASSUME NEW saw \in Rows
    PROVE  /\ Won(saw) \in Passes /\ Won(saw).pc = "claimed"
           /\ Won(saw).saw.timeout = saw.timeout
  <1>1. [saw EXCEPT !.next = Never] \in Rows /\ [saw EXCEPT !.next = Never].timeout = saw.timeout
    BY AutomationAssumption DEF Rows, Times, Never
  <1>2. 0 \in Times
    BY AutomationAssumption DEF Times
  <1> QED BY <1>1, <1>2 DEF Won, Passes

LEMMA AppendFacts ==
    ASSUME NEW s \in Seq(Run), NEW r \in Run
    PROVE  /\ Append(s, r) \in Seq(Run)
           /\ Len(s) + 1 \in DOMAIN Append(s, r) /\ Append(s, r)[Len(s) + 1] = r
           /\ \A n \in DOMAIN s : n \in DOMAIN Append(s, r) /\ Append(s, r)[n] = s[n]
           /\ \A n \in DOMAIN Append(s, r) : n \in DOMAIN s \/ n = Len(s) + 1
           /\ Len(s) + 1 \notin DOMAIN s /\ Len(s) \in Nat
  OBVIOUS

LEMMA RunFacts ==
    ASSUME NEW r \in Run, NEW status \in {"running", "final", "skipped", "deleted"}
    PROVE  /\ [r EXCEPT !.status = status] \in Run
           /\ [r EXCEPT !.status = status].status = status
           /\ [r EXCEPT !.status = status].started = r.started
           /\ r.started \in Times
  BY DEF Run

\* A history that is rewritten entry by entry stays one.
LEMMA SameLength ==
    ASSUME NEW s \in Seq(Run), NEW t, t \in [DOMAIN s -> Run]
    PROVE  t \in Seq(Run) /\ DOMAIN t = DOMAIN s
  OBVIOUS

LEMMA ClosedFacts ==
    ASSUME runs \in Seq(Run), NEW old
    PROVE  /\ Closed(old) \in Seq(Run) /\ DOMAIN Closed(old) = DOMAIN runs
           /\ \A n \in DOMAIN runs :
                 /\ n \notin old => Closed(old)[n] = runs[n]
                 /\ Closed(old)[n].status \in {"final", runs[n].status}
  <1>1. \A n \in DOMAIN runs : runs[n] \in Run
    OBVIOUS
  <1>2. Closed(old) \in [DOMAIN runs -> Run]
    BY <1>1, RunFacts DEF Closed
  <1>3. \A n \in DOMAIN runs :
           /\ n \notin old => Closed(old)[n] = runs[n]
           /\ Closed(old)[n].status \in {"final", runs[n].status}
    BY <1>1, RunFacts DEF Closed
  <1> QED BY <1>2, <1>3, SameLength

-----------------------------------------------------------------------------
(* Types *)

LEMMA InitTypes == Init => TypeOK
  <1> SUFFICES ASSUME Init PROVE TypeOK
    OBVIOUS
  <1> USE AutomationAssumption DEF Init
  <1>1. row \in Rows /\ edit = NoEdit /\ runs \in Seq(Run) /\ now \in Times
    BY DEF Times
  <1>2. fire \in [Firers -> Passes \cup {Idle, Reported}]
    OBVIOUS
  <1>3. claimed \in [Slots -> Nat] /\ edits \in 0..MaxEdits /\ crashes \in 0..MaxCrashes
    OBVIOUS
  <1>4. workers \subseteq Worker /\ {w.run : w \in workers} \cup strays \subseteq DOMAIN runs
    OBVIOUS
  <1> QED BY <1>1, <1>2, <1>3, <1>4 DEF TypeOK, Passes, Reported

\* What the types say of a pass, a worker and a stray, one by one.
LEMMA Typed ==
    ASSUME TypeOK
    PROVE  /\ now \in Nat /\ now \in Times /\ runs \in Seq(Run)
           /\ \A f \in Firers : fire[f] \in Passes \cup {Idle, Reported}
           /\ \A f \in Firers : fire[f].pc \in {"due", "claimed"} => fire[f] \in Passes
           /\ \A w \in workers : /\ w \in Worker /\ w.run \in DOMAIN runs
                                 /\ w.deadline \in Nat /\ w.owner \in Firers
           /\ \A n \in strays : n \in DOMAIN runs
           /\ \A n \in DOMAIN runs : runs[n] \in Run /\ runs[n].started \in Nat
  <1>1. fire \in [Firers -> Passes \cup {Idle, Reported}]
    BY DEF TypeOK, Passes, Reported
  <1>2. \A w \in workers : w \in Worker /\ w.run \in DOMAIN runs
    BY DEF TypeOK
  <1>3. \A n \in DOMAIN runs : runs[n] \in Run
    BY DEF TypeOK
  <1>4. now \in Times /\ now \in Nat
    BY AutomationAssumption DEF TypeOK, Times
  <1>5. \A f \in Firers : fire[f].pc \in {"due", "claimed"} => fire[f] \in Passes
    BY <1>1, PassFacts
  <1>6. \A n \in DOMAIN runs : runs[n].started \in Nat
    BY <1>3, AutomationAssumption DEF Run, Times
  <1>7. \A w \in workers : w.deadline \in Nat /\ w.owner \in Firers
    BY <1>2 DEF Worker
  <1> QED BY <1>1, <1>2, <1>3, <1>4, <1>5, <1>6, <1>7 DEF TypeOK

\* A step of a pass of f moves what f holds, and no other's pass.
PassIs(f, p) ==
    /\ fire' \in [Firers -> Passes \cup {Idle, Reported}]
    /\ fire'[f] = p /\ \A g \in Firers \ {f} : fire'[g] = fire[g]

LEMMA PassMoves ==
    ASSUME TypeOK, NEW f \in Firers, NEW p \in Passes \cup {Idle, Reported},
           fire' = [fire EXCEPT ![f] = p]
    PROVE  PassIs(f, p)
  <1>1. fire \in [Firers -> Passes \cup {Idle, Reported}]
    BY DEF TypeOK, Passes, Reported
  <1> QED BY <1>1 DEF PassIs

LEMMA ReapDoes ==
    ASSUME TypeOK, NEW f \in Firers, Reap(f)
    PROVE  /\ PassIs(f, Reported) /\ runs' = Closed({n \in DOMAIN runs : Outlived(n)})
           /\ UNCHANGED <<now, row, workers, strays, edit, manual, claimed, bounds>>
  <1>1. fire' = [fire EXCEPT ![f] = Reported]
    BY DEF Reap, Free, Reported, TypeOK
  <1> QED BY <1>1, PassMoves DEF Reap

LEMMA ScanDoes ==
    ASSUME TypeOK, NEW f \in Firers, Scan(f)
    PROVE  /\ \/ PassIs(f, Idle)
              \/ \E p \in Passes : /\ PassIs(f, p) /\ p.pc = "due" /\ p.saw = row /\ p.at = now
                                   /\ row \in Rows /\ row.next # Never /\ row.next <= now
           /\ UNCHANGED <<now, row, runs, workers, strays, edit, manual, claimed, bounds>>
  <1>1. CASE row.enabled /\ row.next # Never /\ row.next <= now
    <2> DEFINE p == [pc |-> "due", saw |-> row, at |-> now]
    <2>1. row \in Rows
      BY <1>1, RowFacts DEF TypeOK
    <2>2. p \in Passes /\ p.pc = "due" /\ p.saw = row /\ p.at = now
      BY <2>1 DEF TypeOK, Passes
    <2>3. fire' = [fire EXCEPT ![f] = p]
      BY <1>1 DEF Scan
    <2> HIDE DEF p
    <2> QED BY <1>1, <2>1, <2>2, <2>3, PassMoves DEF Scan
  <1>2. CASE ~(row.enabled /\ row.next # Never /\ row.next <= now)
    <2>1. fire' = [fire EXCEPT ![f] = Idle]
      BY <1>2 DEF Scan
    <2> QED BY <2>1, PassMoves DEF Scan
  <1> QED BY <1>1, <1>2

LEMMA ClaimDoes ==
    ASSUME TypeOK, NEW f \in Firers, Claim(f)
    PROVE  /\ fire[f].pc = "due" /\ fire[f] \in Passes
           /\ \/ /\ row \in Rows /\ row.next = fire[f].saw.next
                 /\ row' \in Rows /\ row'.next = NextAfter(fire[f].at) /\ row'.timeout = row.timeout
                 /\ claimed' = IF manual THEN claimed
                               ELSE [claimed EXCEPT ![row.next] = claimed[row.next] + 1]
                 /\ manual' = FALSE /\ PassIs(f, Won(fire[f].saw))
              \/ PassIs(f, Idle) /\ UNCHANGED <<row, claimed, manual>>
           /\ UNCHANGED <<now, runs, workers, strays, edit, bounds>>
  <1>1. fire[f].pc = "due" /\ fire[f] \in Passes /\ fire[f].saw \in Rows /\ fire[f].at \in Nat
    BY Typed, PassFacts, AutomationAssumption DEF Claim, Times
  <1>2. CASE /\ row.kind # "gone" /\ row.next = fire[f].saw.next
             /\ row' = [row EXCEPT !.next = NextAfter(fire[f].at),
                                   !.enabled = @ /\ NextAfter(fire[f].at) # Never]
             /\ claimed' = IF manual THEN claimed ELSE [claimed EXCEPT ![row.next] = @ + 1]
             /\ manual' = FALSE
             /\ fire' = [fire EXCEPT ![f] = Won(fire[f].saw)]
    <2>1. row \in Rows
      BY <1>2, RowFacts DEF TypeOK
    <2>2. row' \in Rows /\ row'.next = NextAfter(fire[f].at) /\ row'.timeout = row.timeout
      <3>1. NextAfter(fire[f].at) \in Times
        BY <1>1, NextAfterFacts
      <3>2. \E on \in BOOLEAN : row' = [row EXCEPT !.next = NextAfter(fire[f].at), !.enabled = on]
        BY <1>2, <2>1 DEF Rows
      <3> QED BY <2>1, <3>1, <3>2 DEF Rows
    <2>3. PassIs(f, Won(fire[f].saw))
      BY <1>1, <1>2, WonFacts, PassMoves
    <2> QED BY <1>1, <1>2, <2>1, <2>2, <2>3 DEF Claim
  <1>3. CASE fire' = [fire EXCEPT ![f] = Idle] /\ UNCHANGED <<row, claimed, manual>>
    <2>1. PassIs(f, Idle)
      BY <1>3, PassMoves
    <2> QED BY <1>1, <1>3, <2>1 DEF Claim
  <1> QED BY <1>2, <1>3 DEF Claim

\* Deliver and BeginFails write at most one row that is not `running'.
LEMMA DeliverDoes ==
    ASSUME TypeOK, NEW f \in Firers, Deliver(f) \/ BeginFails(f)
    PROVE  /\ PassIs(f, Idle)
           /\ \/ runs' = runs
              \/ \E r \in Run : r.status = "final" /\ runs' = Append(runs, r)
           /\ UNCHANGED <<now, row, workers, strays, edit, manual, claimed, bounds>>
  <1> DEFINE r == [started |-> now, status |-> "final"]
  <1>1. r \in Run /\ r.status = "final"
    BY DEF Run, TypeOK
  <1>2. runs' = runs \/ runs' = Append(runs, r)
    BY DEF Deliver, BeginFails
  <1> HIDE DEF r
  <1>3. PassIs(f, Idle)
    BY PassMoves DEF Deliver, BeginFails
  <1> QED BY <1>1, <1>2, <1>3 DEF Deliver, BeginFails

LEMMA BeginExecDoes ==
    ASSUME TypeOK, NEW f \in Firers, BeginExec(f)
    PROVE  /\ PassIs(f, Idle) /\ fire[f].pc = "claimed" /\ fire[f] \in Passes
           /\ \E r \in Run :
                 /\ runs' = Append(runs, r) /\ r.started = now
                 /\ \/ r.status = "skipped" /\ workers' = workers
                    \/ /\ r.status = "running"
                       /\ \A n \in DOMAIN runs : runs[n].status = "running" => Outlived(n)
                       /\ \E w \in Worker :
                             /\ workers' = workers \cup {w} /\ w.run = Len(runs) + 1
                             /\ w.deadline = now + fire[f].saw.timeout
           /\ UNCHANGED <<now, row, strays, edit, manual, claimed, bounds>>
  <1>1. fire[f].pc = "claimed" /\ fire[f] \in Passes /\ fire[f].saw.timeout \in Nat
    BY Typed, PassFacts, RowFacts DEF BeginExec
  <1>2. PassIs(f, Idle) /\ UNCHANGED <<now, row, strays, edit, manual, claimed, bounds>>
    BY PassMoves DEF BeginExec
  <1>3. CASE \E n \in DOMAIN runs : runs[n].status = "running" /\ ~Outlived(n)
    <2> DEFINE r == [started |-> now, status |-> "skipped"]
    <2>1. r \in Run /\ r.status = "skipped" /\ r.started = now
      BY DEF Run, TypeOK
    <2>2. runs' = Append(runs, r) /\ workers' = workers
      BY <1>3 DEF BeginExec
    <2> HIDE DEF r
    <2> QED BY <1>1, <1>2, <2>1, <2>2
  <1>4. CASE ~ \E n \in DOMAIN runs : runs[n].status = "running" /\ ~Outlived(n)
    <2> DEFINE r == [started |-> now, status |-> "running"]
               w == [owner |-> f, run |-> Len(runs) + 1, deadline |-> now + fire[f].saw.timeout]
    <2>1. r \in Run /\ r.status = "running" /\ r.started = now
      BY DEF Run, TypeOK
    <2>2. Len(runs) + 1 \in Nat /\ now + fire[f].saw.timeout \in Nat
      BY <1>1, Typed
    <2>3. w \in Worker /\ w.run = Len(runs) + 1 /\ w.deadline = now + fire[f].saw.timeout
      BY <2>2 DEF Worker
    <2>4. runs' = Append(runs, r) /\ workers' = workers \cup {w}
      BY <1>4 DEF BeginExec
    <2> HIDE DEF r, w
    <2> QED BY <1>1, <1>2, <1>4, <2>1, <2>3, <2>4
  <1> QED BY <1>3, <1>4

LEMMA FinishDoes ==
    ASSUME TypeOK, NEW w \in workers, Finish(w)
    PROVE  /\ \/ runs' = runs
              \/ runs' = Closed({w.run})
              \/ \E r \in Run : r.status = "final" /\ runs' = Append(runs, r)
           /\ workers' = workers \ {w}
           /\ UNCHANGED <<now, row, fire, strays, edit, manual, claimed, bounds>>
  <1>1. w.run \in DOMAIN runs /\ runs \in Seq(Run) /\ \A n \in DOMAIN runs : runs[n] \in Run
    BY Typed
  <1>2. CASE runs' = [runs EXCEPT ![w.run].status = "final"]
    <2>1. \A n \in DOMAIN runs :
             runs'[n] = IF n = w.run THEN [runs[n] EXCEPT !.status = "final"] ELSE runs[n]
      BY <1>1, <1>2
    <2>2. runs' \in [DOMAIN runs -> Run]
      BY <1>1, <1>2, RunFacts
    <2>3. runs' = Closed({w.run})
      BY <1>1, <2>1, <2>2 DEF Closed
    <2> QED BY <2>3 DEF Finish
  <1>3. CASE runs' = Append(runs, [started |-> now, status |-> "final"])
    <2> DEFINE r == [started |-> now, status |-> "final"]
    <2>1. r \in Run /\ r.status = "final"
      BY DEF Run, TypeOK
    <2>2. runs' = Append(runs, r)
      BY <1>3
    <2> HIDE DEF r
    <2> QED BY <2>1, <2>2 DEF Finish
  <1> QED BY <1>2, <1>3 DEF Finish

LEMMA ReadForEditDoes ==
    ASSUME TypeOK, ReadForEdit
    PROVE  /\ edit' \in Rows /\ row \in Rows
           /\ edit'.next = NextAfter(now) \/ edit'.next = Never
           /\ edit'.timeout = row.timeout \/ TimeoutsChange
           /\ edits' \in 0..MaxEdits
           /\ UNCHANGED <<now, row, runs, fire, workers, strays, manual, claimed, crashes>>
  <1>1. row \in Rows /\ edits' \in 0..MaxEdits
    BY RowFacts, AutomationAssumption DEF ReadForEdit, TypeOK
  <1>2. PICK on \in BOOLEAN, t \in Timeouts :
           /\ t = row.timeout \/ TimeoutsChange
           /\ edit' = [row EXCEPT !.enabled = on, !.timeout = t,
                                  !.next = IF on THEN NextAfter(now) ELSE Never]
    BY Zenon DEF ReadForEdit
  <1> DEFINE next == IF on THEN NextAfter(now) ELSE Never
  <1>3. next \in Times /\ (next = NextAfter(now) \/ next = Never)
    BY NextAfterFacts, Typed, AutomationAssumption DEF Times, Never
  <1>4. edit' = [row EXCEPT !.enabled = on, !.timeout = t, !.next = next]
    BY <1>2
  <1> HIDE DEF next
  <1>5. edit' \in Rows /\ edit'.next = next /\ edit'.timeout = t
    BY <1>1, <1>3, <1>4 DEF Rows
  <1> QED BY <1>1, <1>2, <1>3, <1>5 DEF ReadForEdit

LEMMA TriggerDoes ==
    ASSUME TypeOK, Trigger
    PROVE  /\ row \in Rows /\ row' \in Rows /\ row'.next = now /\ row'.timeout = row.timeout
           /\ manual' = TRUE /\ edits' \in 0..MaxEdits
           /\ UNCHANGED <<now, runs, fire, workers, strays, edit, claimed, crashes>>
  <1>1. row \in Rows /\ edits' \in 0..MaxEdits
    BY RowFacts, AutomationAssumption DEF Trigger, TypeOK
  <1>2. row' = [row EXCEPT !.enabled = TRUE, !.next = now]
    BY DEF Trigger
  <1>3. row' \in Rows /\ row'.next = now /\ row'.timeout = row.timeout
    BY <1>1, <1>2, Typed DEF Rows
  <1> QED BY <1>1, <1>3 DEF Trigger

LEMMA DeleteDoes ==
    ASSUME TypeOK, Delete
    PROVE  /\ row' = Gone /\ edits' \in 0..MaxEdits
           /\ runs' \in Seq(Run) /\ DOMAIN runs' = DOMAIN runs
           /\ UNCHANGED <<now, fire, workers, strays, edit, manual, claimed, crashes>>
  <1>1. edits' \in 0..MaxEdits
    BY AutomationAssumption DEF Delete, TypeOK
  <1>2. runs' \in [DOMAIN runs -> Run]
    BY Typed, RunFacts DEF Delete
  <1> QED BY <1>1, <1>2, Typed, SameLength DEF Delete

LEMMA CrashDoes ==
    ASSUME TypeOK, NEW f \in Firers, Crash(f)
    PROVE  /\ PassIs(f, Idle) /\ crashes' \in 0..MaxCrashes
           /\ workers' \subseteq workers
           /\ \A n \in strays' : n \in strays \/ \E w \in workers : n = w.run
           /\ UNCHANGED <<now, row, runs, edit, manual, claimed, edits>>
  <1>1. crashes' \in 0..MaxCrashes
    BY AutomationAssumption DEF Crash, TypeOK
  <1>2. PassIs(f, Idle)
    BY PassMoves DEF Crash
  <1> QED BY <1>1, <1>2 DEF Crash

LEMMA ReapTypes ==
    ASSUME TypeOK, NEW f \in Firers, Reap(f) PROVE TypeOK'
  <1>1. runs' \in Seq(Run) /\ DOMAIN runs' = DOMAIN runs
    BY ReapDoes, Typed, ClosedFacts
  <1> QED BY <1>1, ReapDoes DEF TypeOK, PassIs, Passes, Reported, bounds

LEMMA ScanTypes ==
    ASSUME TypeOK, NEW f \in Firers, Scan(f) PROVE TypeOK'
  <1>1. fire' \in [Firers -> Passes \cup {Idle, Reported}]
    BY ScanDoes DEF PassIs
  <1> QED BY <1>1, ScanDoes DEF TypeOK, Passes, Reported, bounds

LEMMA ClaimTypes ==
    ASSUME TypeOK, NEW f \in Firers, Claim(f) PROVE TypeOK'
  <1>1. fire' \in [Firers -> Passes \cup {Idle, Reported}]
    BY ClaimDoes DEF PassIs
  <1>2. row' \in Rows \cup {Gone} /\ manual' \in BOOLEAN
    BY ClaimDoes DEF TypeOK
  <1>3. claimed' \in [Slots -> Nat]
    <2>1. \/ claimed' = claimed
          \/ claimed' = [claimed EXCEPT ![row.next] = claimed[row.next] + 1]
      BY ClaimDoes, Zenon
    <2> QED BY <2>1 DEF TypeOK
  <1> QED BY <1>1, <1>2, <1>3, ClaimDoes DEF TypeOK, Passes, Reported, bounds

LEMMA DeliverTypes ==
    ASSUME TypeOK, NEW f \in Firers, Deliver(f) \/ BeginFails(f) PROVE TypeOK'
  <1>1. runs' \in Seq(Run) /\ \A n \in DOMAIN runs : n \in DOMAIN runs'
    BY DeliverDoes, AppendFacts, Typed
  <1>2. fire' \in [Firers -> Passes \cup {Idle, Reported}]
    BY DeliverDoes DEF PassIs
  <1> QED BY <1>1, <1>2, DeliverDoes DEF TypeOK, Passes, Reported, bounds

LEMMA BeginExecTypes ==
    ASSUME TypeOK, NEW f \in Firers, BeginExec(f) PROVE TypeOK'
  <1>1. PICK r \in Run : /\ runs' = Append(runs, r)
                         /\ \/ workers' = workers
                            \/ \E w \in Worker : workers' = workers \cup {w} /\ w.run = Len(runs) + 1
    BY BeginExecDoes
  <1>2. runs' \in Seq(Run) /\ Len(runs) + 1 \in DOMAIN runs' /\ \A n \in DOMAIN runs : n \in DOMAIN runs'
    BY <1>1, AppendFacts, Typed
  <1>3. workers' \subseteq Worker /\ \A w \in workers' : w.run \in DOMAIN runs'
    BY <1>1, <1>2, Typed
  <1>4. fire' \in [Firers -> Passes \cup {Idle, Reported}]
    BY BeginExecDoes DEF PassIs
  <1>5. {w.run : w \in workers'} \cup strays' \subseteq DOMAIN runs'
    BY <1>2, <1>3, Typed, BeginExecDoes
  <1> QED BY <1>2, <1>3, <1>4, <1>5, BeginExecDoes DEF TypeOK, Passes, Reported, bounds

LEMMA FinishTypes ==
    ASSUME TypeOK, NEW w \in workers, Finish(w) PROVE TypeOK'
  <1>1. runs' \in Seq(Run) /\ \A n \in DOMAIN runs : n \in DOMAIN runs'
    <2>1. CASE runs' = runs \/ runs' = Closed({w.run})
      BY <2>1, Typed, ClosedFacts
    <2>2. CASE \E r \in Run : runs' = Append(runs, r)
      BY <2>2, Typed, AppendFacts
    <2> QED BY <2>1, <2>2, FinishDoes
  <1> QED BY <1>1, FinishDoes DEF TypeOK, bounds

LEMMA CrashTypes ==
    ASSUME TypeOK, NEW f \in Firers, Crash(f) PROVE TypeOK'
  <1>1. {w.run : w \in workers'} \cup strays' \subseteq DOMAIN runs'
    BY CrashDoes, Typed
  <1>2. fire' \in [Firers -> Passes \cup {Idle, Reported}]
    BY CrashDoes DEF PassIs
  <1> QED BY <1>1, <1>2, CrashDoes DEF TypeOK, Passes, Reported

LEMMA UserTypes ==
    ASSUME TypeOK, ReadForEdit \/ WriteEdit \/ Trigger \/ Delete PROVE TypeOK'
  <1>1. CASE ReadForEdit
    BY <1>1, ReadForEditDoes DEF TypeOK
  <1>2. CASE WriteEdit
    <2>1. row' \in Rows \cup {Gone} /\ edit' = NoEdit /\ manual' \in BOOLEAN
      BY <1>2, RowFacts DEF TypeOK, WriteEdit
    <2> QED BY <1>2, <2>1 DEF TypeOK, WriteEdit, bounds
  <1>3. CASE Trigger
    BY <1>3, TriggerDoes DEF TypeOK
  <1>4. CASE Delete
    BY <1>4, DeleteDoes DEF TypeOK
  <1> QED BY <1>1, <1>2, <1>3, <1>4

LEMMA TimeTypes ==
    ASSUME TypeOK, Advance \/ StrayEnds \/ UNCHANGED vars PROVE TypeOK'
  <1>1. CASE Advance
    <2>1. now' \in Times
      BY <1>1, AutomationAssumption DEF Advance, TypeOK, Times
    <2> QED BY <1>1, <2>1 DEF TypeOK, Advance, bounds
  <1>2. CASE StrayEnds
    BY <1>2 DEF TypeOK, StrayEnds, bounds
  <1>3. CASE UNCHANGED vars
    BY <1>3 DEF TypeOK, vars, bounds
  <1> QED BY <1>1, <1>2, <1>3

LEMMA TypesStep == TypeOK /\ [Next]_vars => TypeOK'
  <1> SUFFICES ASSUME TypeOK, [Next]_vars PROVE TypeOK'
    OBVIOUS
  <1>1. ASSUME NEW f \in Firers, Pass(f) \/ Crash(f) PROVE TypeOK'
    BY <1>1, ReapTypes, ScanTypes, ClaimTypes, DeliverTypes, BeginExecTypes, CrashTypes DEF Pass
  <1>2. ASSUME NEW w \in workers, Finish(w) PROVE TypeOK'
    BY <1>2, FinishTypes
  <1>3. ASSUME Others PROVE TypeOK'
    BY <1>1, <1>2, <1>3, UserTypes, TimeTypes DEF Others
  <1> QED BY <1>3, UserTypes, TimeTypes DEF Next

\* Every column keeps its type, and a worker and a stray have their row, for
\* every schedule, set of processes and bound.
THEOREM AutomationTypeCorrect == Spec => []TypeOK
  BY InitTypes, TypesStep, PTL DEF Spec

-----------------------------------------------------------------------------
(* A command does not overlap itself *)

LEMMA OverlapInit == Init => OverlapInv
  <1> SUFFICES ASSUME Init PROVE OverlapInv
    OBVIOUS
  <1>1. TypeOK
    BY InitTypes
  <1>2. \A f \in Firers : ~Reading(f)
    BY PassFacts DEF Init, Reading
  <1>3. edit = NoEdit /\ workers = {} /\ DOMAIN runs = {}
    BY DEF Init
  <1> QED BY <1>1, <1>2, <1>3
          DEF OverlapInv, TimeoutIsKept, HistoryStays, WorkersRun, OneWorker

\* No reaper is due for the row of a worker.
LEMMA WorkersAreSafe ==
    ASSUME OverlapInv, Standing, NEW w \in workers
    PROVE  runs[w.run].status = "running" /\ ~Outlived(w.run)
  <1>1. /\ runs[w.run].status = "running" /\ now <= w.deadline + Grace
        /\ w.deadline = runs[w.run].started + row.timeout
    BY DEF OverlapInv, WorkersRun
  <1> QED BY <1>1, Typed, AutomationAssumption DEF OverlapInv, Outlived

\* What no step but a claim, an edit or a removal does to the row, and no step
\* that leaves it standing to its timeout.
Kept == row' = row \/ (row \in Rows /\ row' \in Rows /\ row'.timeout = row.timeout) \/ row' = Gone

LEMMA KeptFacts ==
    ASSUME Kept, TypeOK
    PROVE  Standing' => Standing /\ row'.timeout = row.timeout
  BY RowFacts DEF Kept, Standing, TypeOK

\* A step that touches neither commands nor their rows.
LEMMA QuietKeeps ==
    ASSUME OverlapInv, TypeOK', Kept, UNCHANGED <<now, runs>>, workers' \subseteq workers
    PROVE  (HistoryStays /\ WorkersRun /\ OneWorker)'
  <1>1. Standing' => Standing /\ row'.timeout = row.timeout
    BY KeptFacts DEF OverlapInv
  <1>2. HistoryStays'
    BY <1>1 DEF OverlapInv, HistoryStays
  <1>3. WorkersRun'
    BY <1>1 DEF OverlapInv, WorkersRun
  <1>4. OneWorker'
    BY <1>1 DEF OverlapInv, OneWorker
  <1> QED BY <1>2, <1>3, <1>4

\* A pass that reads, claims or gives up keeps to the timeout of the row.
LEMMA PassKeepsTimeout ==
    ASSUME OverlapInv, NEW f \in Firers, NEW p, PassIs(f, p), Kept, edit' = edit,
           p.pc \in {"due", "claimed"} /\ Standing => p.saw.timeout = row.timeout
    PROVE  TimeoutIsKept'
  <1>1. Standing' => Standing /\ row'.timeout = row.timeout
    BY KeptFacts DEF OverlapInv
  <1> SUFFICES ASSUME Standing'
               PROVE  /\ \A g \in Firers : Reading(g)' => fire'[g].saw.timeout = row'.timeout
                      /\ edit' # NoEdit => edit'.timeout = row'.timeout
    BY DEF TimeoutIsKept
  <1>2. edit' # NoEdit => edit'.timeout = row'.timeout
    BY <1>1 DEF OverlapInv, TimeoutIsKept
  <1>3. ASSUME NEW g \in Firers, Reading(g)' PROVE fire'[g].saw.timeout = row'.timeout
    BY <1>1, <1>3 DEF OverlapInv, TimeoutIsKept, PassIs, Reading
  <1> QED BY <1>2, <1>3

\* A step that leaves every pass alone, and the edit or drops it.
LEMMA StillKeepsTimeout ==
    ASSUME OverlapInv, Kept, fire' = fire, edit' = edit \/ edit' = NoEdit
    PROVE  TimeoutIsKept'
  <1>1. Standing' => Standing /\ row'.timeout = row.timeout
    BY KeptFacts DEF OverlapInv
  <1> QED BY <1>1 DEF OverlapInv, TimeoutIsKept, Reading

LEMMA ReapOverlap ==
    ASSUME OverlapInv, NEW f \in Firers, Reap(f) PROVE OverlapInv'
  <1>t. TypeOK /\ TypeOK'
    BY ReapTypes DEF OverlapInv
  <1>r. /\ PassIs(f, Reported) /\ runs' = Closed({n \in DOMAIN runs : Outlived(n)})
        /\ UNCHANGED <<now, row, workers, strays, edit, manual, claimed, bounds>>
    BY <1>t, ReapDoes
  <1>1. TimeoutIsKept'
    BY <1>r, PassKeepsTimeout, PassFacts DEF Kept
  <1> DEFINE old == {n \in DOMAIN runs : Outlived(n)}
  <1>2. /\ DOMAIN runs' = DOMAIN runs
        /\ \A n \in DOMAIN runs : /\ n \notin old => runs'[n] = runs[n]
                                  /\ runs'[n].status \in {"final", runs[n].status}
    BY <1>t, <1>r, Typed, ClosedFacts
  <1>3. HistoryStays'
    BY <1>r, <1>2 DEF OverlapInv, HistoryStays, Standing
  <1>4. ASSUME NEW w \in workers
        PROVE  /\ now <= w.deadline + Grace
               /\ Standing => /\ runs'[w.run].status = "running"
                              /\ w.deadline = runs'[w.run].started + row.timeout
    <2>1. now <= w.deadline + Grace
      BY DEF OverlapInv, WorkersRun
    <2>2. ASSUME Standing PROVE runs'[w.run] = runs[w.run]
      BY <1>t, <1>2, <2>2, WorkersAreSafe, Typed
    <2> QED BY <2>1, <2>2 DEF OverlapInv, WorkersRun
  <1>5. WorkersRun'
    BY <1>r, <1>4 DEF WorkersRun, Standing
  <1>6. OneWorker'
    BY <1>r DEF OverlapInv, OneWorker, Standing
  <1> QED BY <1>t, <1>1, <1>3, <1>5, <1>6 DEF OverlapInv

LEMMA ScanOverlap ==
    ASSUME OverlapInv, NEW f \in Firers, Scan(f) PROVE OverlapInv'
  <1>t. TypeOK /\ TypeOK'
    BY ScanTypes DEF OverlapInv
  <1>k. Kept /\ UNCHANGED <<now, runs, workers, edit>>
    BY <1>t, ScanDoes DEF Kept
  <1>1. ASSUME PassIs(f, Idle) PROVE TimeoutIsKept'
    BY <1>1, <1>k, PassKeepsTimeout, PassFacts
  <1>2. ASSUME NEW p \in Passes, PassIs(f, p), p.saw = row PROVE TimeoutIsKept'
    BY <1>2, <1>k, PassKeepsTimeout
  <1>3. TimeoutIsKept'
    BY <1>t, <1>1, <1>2, ScanDoes
  <1> QED BY <1>t, <1>k, <1>3, QuietKeeps DEF OverlapInv

LEMMA ClaimOverlap ==
    ASSUME OverlapInv, NEW f \in Firers, Claim(f) PROVE OverlapInv'
  <1>t. TypeOK /\ TypeOK'
    BY ClaimTypes DEF OverlapInv
  <1>d. fire[f].pc = "due" /\ fire[f].saw \in Rows
    BY <1>t, ClaimDoes, PassFacts
  <1>k. Kept /\ UNCHANGED <<now, runs, workers, edit>>
    BY <1>t, ClaimDoes DEF Kept
  <1>1. ASSUME PassIs(f, Idle) PROVE TimeoutIsKept'
    BY <1>1, <1>k, PassKeepsTimeout, PassFacts
  <1>2. ASSUME PassIs(f, Won(fire[f].saw)) PROVE TimeoutIsKept'
    <2>1. Standing => Won(fire[f].saw).saw.timeout = row.timeout
      BY <1>d, WonFacts DEF OverlapInv, TimeoutIsKept, Reading
    <2> QED BY <1>2, <1>k, <2>1, PassKeepsTimeout
  <1>3. TimeoutIsKept'
    BY <1>t, <1>1, <1>2, ClaimDoes
  <1> QED BY <1>t, <1>k, <1>3, QuietKeeps DEF OverlapInv

\* A row that is written beside those of the workers.
LEMMA AppendKeeps ==
    ASSUME OverlapInv, row' = row, now' = now, workers' \subseteq workers,
           NEW r \in Run, runs' = Append(runs, r), r.status # "deleted"
    PROVE  (HistoryStays /\ WorkersRun /\ OneWorker)'
  <1>1. runs \in Seq(Run) /\ \A w \in workers : w.run \in DOMAIN runs
    BY Typed DEF OverlapInv
  <1>2. /\ \A n \in DOMAIN runs : runs'[n] = runs[n]
        /\ \A n \in DOMAIN runs' : n \in DOMAIN runs \/ runs'[n] = r
    BY <1>1, AppendFacts
  <1>3. HistoryStays'
    BY <1>2 DEF OverlapInv, HistoryStays, Standing
  <1>4. WorkersRun'
    BY <1>1, <1>2 DEF OverlapInv, WorkersRun, Standing
  <1>5. OneWorker'
    BY DEF OverlapInv, OneWorker, Standing
  <1> QED BY <1>3, <1>4, <1>5

LEMMA DeliverOverlap ==
    ASSUME OverlapInv, NEW f \in Firers, Deliver(f) \/ BeginFails(f) PROVE OverlapInv'
  <1>t. TypeOK /\ TypeOK'
    BY DeliverTypes DEF OverlapInv
  <1>k. PassIs(f, Idle) /\ Kept /\ UNCHANGED <<now, row, workers, edit>>
    BY <1>t, DeliverDoes DEF Kept
  <1>1. TimeoutIsKept'
    BY <1>k, PassKeepsTimeout, PassFacts
  <1>2. CASE runs' = runs
    BY <1>t, <1>k, <1>1, <1>2, QuietKeeps DEF OverlapInv
  <1>3. CASE \E r \in Run : r.status = "final" /\ runs' = Append(runs, r)
    BY <1>t, <1>k, <1>1, <1>3, AppendKeeps DEF OverlapInv
  <1> QED BY <1>t, <1>2, <1>3, DeliverDoes

LEMMA BeginExecOverlap ==
    ASSUME OverlapInv, NEW f \in Firers, BeginExec(f) PROVE OverlapInv'
  <1>t. TypeOK /\ TypeOK'
    BY BeginExecTypes DEF OverlapInv
  <1>k. PassIs(f, Idle) /\ Kept /\ UNCHANGED <<now, row, edit>>
    BY <1>t, BeginExecDoes DEF Kept
  <1>d. fire[f].pc = "claimed" /\ fire[f] \in Passes /\ fire[f].saw.timeout \in Nat
    BY <1>t, BeginExecDoes, PassFacts, RowFacts
  <1>1. TimeoutIsKept'
    BY <1>k, PassKeepsTimeout, PassFacts
  <1>2. PICK r \in Run :
           /\ runs' = Append(runs, r) /\ r.started = now
           /\ \/ r.status = "skipped" /\ workers' = workers
              \/ /\ r.status = "running"
                 /\ \A n \in DOMAIN runs : runs[n].status = "running" => Outlived(n)
                 /\ \E w \in Worker :
                       /\ workers' = workers \cup {w} /\ w.run = Len(runs) + 1
                       /\ w.deadline = now + fire[f].saw.timeout
    BY <1>t, BeginExecDoes
  <1>3. CASE r.status = "skipped" /\ workers' = workers
    BY <1>t, <1>k, <1>1, <1>2, <1>3, AppendKeeps DEF OverlapInv
  <1>4. CASE /\ r.status = "running"
             /\ \A n \in DOMAIN runs : runs[n].status = "running" => Outlived(n)
             /\ \E w \in Worker :
                   /\ workers' = workers \cup {w} /\ w.run = Len(runs) + 1
                   /\ w.deadline = now + fire[f].saw.timeout
    <2>1. PICK w \in Worker : /\ workers' = workers \cup {w} /\ w.run = Len(runs) + 1
                              /\ w.deadline = now + fire[f].saw.timeout
      BY <1>4
    <2>2. /\ \A n \in DOMAIN runs : runs'[n] = runs[n]
          /\ \A n \in DOMAIN runs' : n \in DOMAIN runs \/ runs'[n] = r
          /\ runs'[w.run] = r
      BY <1>t, <1>2, <2>1, AppendFacts, Typed
    <2>3. \A v \in workers : ~Standing
      BY <1>t, <1>4, WorkersAreSafe, Typed
    <2>4. HistoryStays'
      BY <1>k, <1>4, <2>2 DEF OverlapInv, HistoryStays, Standing
    <2>5. now <= w.deadline + Grace
      BY <1>t, <1>d, <2>1, Typed, AutomationAssumption
    <2>6. Standing => w.deadline = r.started + row.timeout
      BY <1>d, <1>2, <2>1 DEF OverlapInv, TimeoutIsKept, Reading
    <2>7. ASSUME NEW v \in workers'
          PROVE  /\ now <= v.deadline + Grace
                 /\ Standing => /\ runs'[v.run].status = "running"
                                /\ v.deadline = runs'[v.run].started + row.timeout
      <3>1. CASE v \in workers
        BY <3>1, <2>3 DEF OverlapInv, WorkersRun
      <3>2. CASE v = w
        BY <3>2, <1>4, <2>2, <2>5, <2>6
      <3> QED BY <2>1, <3>1, <3>2
    <2>8. WorkersRun'
      BY <1>k, <2>7 DEF WorkersRun, Standing
    <2>9. OneWorker'
      BY <1>k, <2>1, <2>3 DEF OneWorker, Standing
    <2> QED BY <1>t, <1>1, <2>4, <2>8, <2>9 DEF OverlapInv
  <1> QED BY <1>2, <1>3, <1>4

LEMMA FinishOverlap ==
    ASSUME OverlapInv, NEW w \in workers, Finish(w) PROVE OverlapInv'
  <1>t. TypeOK /\ TypeOK'
    BY FinishTypes DEF OverlapInv
  <1>k. Kept /\ workers' = workers \ {w} /\ UNCHANGED <<now, row, fire, edit>>
    BY <1>t, FinishDoes DEF Kept
  <1>1. TimeoutIsKept'
    BY <1>k, StillKeepsTimeout
  <1>2. CASE runs' = runs
    BY <1>t, <1>k, <1>1, <1>2, QuietKeeps DEF OverlapInv
  <1>3. CASE \E r \in Run : r.status = "final" /\ runs' = Append(runs, r)
    BY <1>t, <1>k, <1>1, <1>3, AppendKeeps DEF OverlapInv
  <1>4. CASE runs' = Closed({w.run})
    <2>1. /\ DOMAIN runs' = DOMAIN runs
          /\ \A n \in DOMAIN runs : runs'[n].status \in {"final", runs[n].status}
      BY <1>t, <1>4, Typed, ClosedFacts
    <2>2. HistoryStays'
      BY <1>k, <2>1 DEF OverlapInv, HistoryStays, Standing
    <2>3. \A v \in workers' : v \in workers /\ ~Standing
      BY <1>k DEF OverlapInv, OneWorker
    <2>4. WorkersRun'
      BY <1>k, <2>3 DEF OverlapInv, WorkersRun, Standing
    <2>5. OneWorker'
      BY <1>k, <2>3 DEF OneWorker, Standing
    <2> QED BY <1>t, <1>1, <2>2, <2>4, <2>5 DEF OverlapInv
  <1> QED BY <1>t, <1>2, <1>3, <1>4, FinishDoes

LEMMA CrashOverlap ==
    ASSUME OverlapInv, NEW f \in Firers, Crash(f) PROVE OverlapInv'
  <1>t. TypeOK /\ TypeOK'
    BY CrashTypes DEF OverlapInv
  <1>k. /\ PassIs(f, Idle) /\ Kept /\ workers' \subseteq workers
        /\ UNCHANGED <<now, row, runs, edit>>
    BY <1>t, CrashDoes DEF Kept
  <1>1. TimeoutIsKept'
    BY <1>k, PassKeepsTimeout, PassFacts
  <1> QED BY <1>t, <1>k, <1>1, QuietKeeps DEF OverlapInv

\* The user, who leaves the timeout as it is.
LEMMA UserOverlap ==
    ASSUME TimeoutsChange = FALSE, OverlapInv, ReadForEdit \/ WriteEdit \/ Trigger
    PROVE  OverlapInv'
  <1>t. TypeOK /\ TypeOK'
    BY UserTypes DEF OverlapInv
  <1>1. CASE ReadForEdit
    <2>1. /\ edit'.timeout = row.timeout /\ Kept
          /\ UNCHANGED <<now, row, runs, fire, workers>>
      BY <1>t, <1>1, ReadForEditDoes DEF Kept
    <2>2. TimeoutIsKept'
      BY <2>1 DEF OverlapInv, TimeoutIsKept, Standing, Reading
    <2> QED BY <1>t, <2>1, <2>2, QuietKeeps DEF OverlapInv
  <1>2. CASE WriteEdit
    <2>1. Kept
      <3>1. CASE row.kind = "gone"
        BY <1>2, <3>1 DEF WriteEdit, Kept
      <3>2. CASE row.kind # "gone"
        BY <1>t, <1>2, <3>2, RowFacts
           DEF WriteEdit, Kept, TypeOK, OverlapInv, TimeoutIsKept, Standing
      <3> QED BY <3>1, <3>2
    <2>2. UNCHANGED <<now, runs, fire, workers>> /\ edit' = NoEdit
      BY <1>2 DEF WriteEdit
    <2> QED BY <1>t, <2>1, <2>2, QuietKeeps, StillKeepsTimeout DEF OverlapInv
  <1>3. CASE Trigger
    <2>1. Kept /\ UNCHANGED <<now, runs, fire, workers, edit>>
      BY <1>t, <1>3, TriggerDoes DEF Kept
    <2> QED BY <1>t, <2>1, QuietKeeps, StillKeepsTimeout DEF OverlapInv
  <1> QED BY <1>1, <1>2, <1>3

LEMMA DeleteOverlap ==
    ASSUME OverlapInv, Delete PROVE OverlapInv'
  <1>t. TypeOK /\ TypeOK'
    BY UserTypes DEF OverlapInv
  <1>1. row' = Gone /\ UNCHANGED <<now, workers>>
    BY <1>t, DeleteDoes
  <1>2. ~Standing'
    BY <1>1, RowFacts DEF Standing
  <1> QED BY <1>t, <1>1, <1>2
          DEF OverlapInv, TimeoutIsKept, HistoryStays, WorkersRun, OneWorker

LEMMA TimeOverlap ==
    ASSUME OverlapInv, Advance \/ StrayEnds \/ UNCHANGED vars PROVE OverlapInv'
  <1>t. TypeOK /\ TypeOK'
    BY TimeTypes DEF OverlapInv
  <1>1. CASE Advance
    <2>1. Kept /\ now' = now + 1 /\ UNCHANGED <<row, runs, fire, workers, edit>>
      BY <1>1 DEF Advance, Kept
    <2>2. \A w \in workers : now' <= w.deadline + Grace
      BY <1>t, <1>1, Typed, AutomationAssumption DEF Advance
    <2>3. WorkersRun'
      BY <2>1, <2>2 DEF OverlapInv, WorkersRun, Standing
    <2>4. HistoryStays' /\ OneWorker'
      BY <2>1 DEF OverlapInv, HistoryStays, OneWorker, Standing
    <2> QED BY <1>t, <2>1, <2>3, <2>4, StillKeepsTimeout DEF OverlapInv
  <1>2. CASE StrayEnds
    BY <1>t, <1>2, QuietKeeps, StillKeepsTimeout DEF StrayEnds, Kept, OverlapInv
  <1>3. CASE UNCHANGED vars
    BY <1>t, <1>3, QuietKeeps, StillKeepsTimeout DEF vars, Kept, OverlapInv
  <1> QED BY <1>1, <1>2, <1>3

LEMMA OverlapNext ==
    ASSUME TimeoutsChange = FALSE
    PROVE  OverlapInv /\ [Next]_vars => OverlapInv'
  <1> SUFFICES ASSUME OverlapInv, [Next]_vars PROVE OverlapInv'
    OBVIOUS
  <1>1. ASSUME NEW f \in Firers, Pass(f) \/ Crash(f) PROVE OverlapInv'
    BY <1>1, ReapOverlap, ScanOverlap, ClaimOverlap, DeliverOverlap, BeginExecOverlap,
       CrashOverlap DEF Pass
  <1>2. ASSUME NEW w \in workers, Finish(w) PROVE OverlapInv'
    BY <1>2, FinishOverlap
  <1>3. ASSUME Others PROVE OverlapInv'
    BY <1>1, <1>2, <1>3, UserOverlap, DeleteOverlap, TimeOverlap DEF Others
  <1> QED BY <1>3, UserOverlap, TimeOverlap DEF Next

LEMMA OneWorkerAtMost == ASSUME OverlapInv PROVE NoOverlap
  <1>1. CASE workers = {}
    BY <1>1, FS_EmptySet DEF NoOverlap
  <1>2. ASSUME NEW w \in workers, Standing PROVE Cardinality(workers) <= 1
    <2>1. workers = {w}
      BY <1>2 DEF OverlapInv, OneWorker
    <2>2. Cardinality(workers) = 1
      BY <2>1, FS_Singleton
    <2> QED BY <2>2
  <1> QED BY <1>1, <1>2 DEF NoOverlap, Standing

\* What keeps the command of an automation from overlapping itself.
THEOREM OverlapInvariant ==
    ASSUME TimeoutsChange = FALSE PROVE Spec => []OverlapInv
  BY OverlapInit, OverlapNext, PTL DEF Spec

\* While nobody edits its timeout, the command of a standing automation is run
\* by one worker at a time: the reaper closes no row of a worker, and
\* begin_exec_run starts nothing beside a row that is not closed.
THEOREM CommandsDoNotOverlap ==
    ASSUME TimeoutsChange = FALSE PROVE Spec => []NoOverlap
  <1>1. OverlapInv => NoOverlap
    BY OneWorkerAtMost
  <1> QED BY <1>1, OverlapInvariant, PTL

-----------------------------------------------------------------------------
(* A scheduled time is claimed once *)

LEMMA ClaimInit == Init => ClaimInv
  <1> SUFFICES ASSUME Init PROVE ClaimInv
    OBVIOUS
  <1>1. TypeOK
    BY InitTypes
  <1>2. \A f \in Firers : fire[f].pc # "due"
    BY PassFacts DEF Init
  <1>3. row.next = NextAfter(0) /\ edit = NoEdit /\ \A s \in Slots : claimed[s] = 0
    BY DEF Init
  <1>4. row.next # Never => row.next \in Slots
    BY <1>3, NextAfterFacts
  <1> QED BY <1>1, <1>2, <1>3, <1>4
          DEF ClaimInv, ClaimsArePast, NextIsUnclaimed, ReadersAreCurrent, EditIsFresh,
              AtMostOncePerSlot

LEMMA SlotFacts ==
    ASSUME TypeOK
    PROVE  /\ Slots \subseteq Nat \ {0} /\ now \in Nat
           /\ \A s \in Slots : claimed[s] \in Nat
           /\ \A f \in Firers : fire[f].pc = "due" =>
                 fire[f].at \in Nat /\ fire[f].saw.next \in Nat
  <1>1. Slots \subseteq Nat \ {0} /\ now \in Nat /\ \A s \in Slots : claimed[s] \in Nat
    BY AutomationAssumption, Typed DEF TypeOK
  <1>2. \A f \in Firers : fire[f].pc = "due" => fire[f].at \in Times /\ fire[f].saw.next \in Times
    BY Typed, PassFacts, RowFacts
  <1> QED BY <1>1, <1>2, AutomationAssumption DEF Times

\* A step that moves no clock, no row and no claim, and reads nothing.
LEMMA ClaimQuiet ==
    ASSUME ClaimInv, TypeOK', row' = row \/ row' = Gone,
           UNCHANGED <<now, claimed, manual, edit>>,
           \A g \in Firers : fire'[g] = fire[g] \/ fire'[g].pc # "due"
    PROVE  ClaimInv'
  <1>1. Standing' => row' = row /\ Standing
    BY RowFacts DEF Standing
  <1>2. ClaimsArePast' /\ EditIsFresh' /\ AtMostOncePerSlot'
    BY DEF ClaimInv, ClaimsArePast, EditIsFresh, AtMostOncePerSlot
  <1>3. NextIsUnclaimed'
    BY <1>1 DEF ClaimInv, NextIsUnclaimed
  <1>4. ReadersAreCurrent'
    BY <1>1 DEF ClaimInv, ReadersAreCurrent
  <1> QED BY <1>2, <1>3, <1>4 DEF ClaimInv

LEMMA ScanClaims ==
    ASSUME ClaimInv, NEW f \in Firers, Scan(f) PROVE ClaimInv'
  <1>t. TypeOK /\ TypeOK'
    BY ScanTypes DEF ClaimInv
  <1>k. UNCHANGED <<now, row, claimed, manual, edit>>
    BY <1>t, ScanDoes
  <1>1. CASE PassIs(f, Idle)
    BY <1>t, <1>k, <1>1, PassFacts, ClaimQuiet DEF PassIs
  <1>2. CASE \E p \in Passes : /\ PassIs(f, p) /\ p.pc = "due" /\ p.saw = row /\ p.at = now
                               /\ row \in Rows /\ row.next # Never /\ row.next <= now
    <2>1. fire'[f].saw = row /\ fire'[f].at = now /\ row.next # Never /\ row.next <= now
      BY <1>2 DEF PassIs
    <2>2. \A g \in Firers \ {f} : fire'[g] = fire[g]
      BY <1>2 DEF PassIs
    <2>3. ClaimsArePast' /\ EditIsFresh' /\ AtMostOncePerSlot' /\ NextIsUnclaimed'
      BY <1>k DEF ClaimInv, ClaimsArePast, EditIsFresh, AtMostOncePerSlot, NextIsUnclaimed, Standing
    <2>4. \A s \in Slots : s > now => claimed[s] = 0
      BY <1>t, SlotFacts DEF ClaimInv, ClaimsArePast
    <2>5. ReadersAreCurrent'
      BY <1>t, <1>k, <2>1, <2>2, <2>4, SlotFacts DEF ClaimInv, ReadersAreCurrent, Standing
    <2> QED BY <1>t, <2>3, <2>5 DEF ClaimInv
  <1> QED BY <1>t, <1>1, <1>2, ScanDoes

LEMMA WinClaims ==
    ASSUME ClaimInv, TypeOK', NEW f \in Firers, fire[f].pc = "due",
           row \in Rows, row' \in Rows, row.next = fire[f].saw.next,
           row'.next = NextAfter(fire[f].at),
           claimed' = IF manual THEN claimed
                      ELSE [claimed EXCEPT ![row.next] = claimed[row.next] + 1],
           manual' = FALSE, PassIs(f, Won(fire[f].saw)), UNCHANGED <<now, edit>>
    PROVE  ClaimInv'
  <1> DEFINE at   == fire[f].at
             seen == fire[f].saw.next
  <1>t. TypeOK /\ claimed \in [Slots -> Nat] /\ at \in Nat /\ seen \in Nat /\ fire[f].saw \in Rows
    BY SlotFacts, Typed, PassFacts DEF ClaimInv, TypeOK
  <1>s. Standing /\ Standing'
    BY RowFacts DEF Standing
  <1>1. seen # Never /\ seen <= at /\ at <= now /\ \A s \in Slots : s > at => claimed[s] = 0
    BY <1>s DEF ClaimInv, ReadersAreCurrent
  <1>2. NextAfter(at) # Never => NextAfter(at) \in Slots /\ NextAfter(at) > at
    BY <1>t, NextAfterFacts
  <1>3. ~manual => seen \in Slots /\ claimed[seen] = 0
    BY <1>t, <1>1, <1>s, SlotFacts DEF ClaimInv, NextIsUnclaimed
  <1>4. \A s \in Slots : claimed'[s] = claimed[s] \/ (s = seen /\ claimed[seen] = 0 /\ claimed'[s] = 1)
    <2>1. CASE manual
      BY <2>1
    <2>2. CASE ~manual
      BY <1>t, <1>3, <2>2
    <2> QED BY <2>1, <2>2
  <1>5. /\ \A g \in Firers \ {f} : fire'[g] = fire[g]
        /\ fire'[f].pc # "due"
    BY <1>t, WonFacts DEF PassIs
  <1>6. now \in Nat /\ Slots \subseteq Nat /\ NextAfter(at) \in Nat
    BY <1>t, SlotFacts, NextAfterFacts DEF Times
  <1>7. \A s \in Slots : s > at => claimed'[s] = 0
    BY <1>t, <1>1, <1>4, <1>6
  <1> HIDE DEF at, seen
  <1>8. ClaimsArePast'
    BY <1>t, <1>1, <1>4, <1>6 DEF ClaimInv, ClaimsArePast
  <1>9. AtMostOncePerSlot'
    BY <1>4 DEF ClaimInv, AtMostOncePerSlot
  <1>10. EditIsFresh'
    BY DEF ClaimInv, EditIsFresh
  <1>11. row'.next = NextAfter(at)
    BY DEF at
  <1>12. NextIsUnclaimed'
    <2>1. row'.next # Never =>
             row'.next \in Slots /\ \A s \in Slots : s >= row'.next => claimed'[s] = 0
      BY <1>t, <1>2, <1>6, <1>7, <1>11
    <2> QED BY <2>1 DEF NextIsUnclaimed
  <1>13. ASSUME NEW g \in Firers, fire'[g].pc = "due"
         PROVE  /\ fire'[g].saw.next # Never /\ fire'[g].saw.next <= fire'[g].at
                /\ fire'[g].at <= now
                /\ row'.next = fire'[g].saw.next => \A s \in Slots : s > fire'[g].at => claimed'[s] = 0
    <2>1. fire'[g] = fire[g] /\ fire[g].pc = "due"
      BY <1>5, <1>13
    <2>2. /\ fire[g].saw.next # Never /\ fire[g].saw.next <= fire[g].at /\ fire[g].at <= now
          /\ fire[g].saw.next \in Nat /\ fire[g].at \in Nat
      BY <1>t, <2>1, SlotFacts DEF ClaimInv, ReadersAreCurrent
    <2>3. ASSUME row'.next = fire[g].saw.next PROVE fire[g].at >= at
      BY <1>t, <1>2, <1>6, <1>11, <2>2, <2>3
    <2>4. row'.next = fire[g].saw.next => \A s \in Slots : s > fire[g].at => claimed'[s] = 0
      BY <1>t, <1>6, <1>7, <2>2, <2>3
    <2> QED BY <2>1, <2>2, <2>4
  <1>14. ReadersAreCurrent'
    BY <1>13 DEF ReadersAreCurrent
  <1> QED BY <1>8, <1>9, <1>10, <1>12, <1>14 DEF ClaimInv

LEMMA ClaimClaims ==
    ASSUME ClaimInv, NEW f \in Firers, Claim(f) PROVE ClaimInv'
  <1>t. TypeOK /\ TypeOK'
    BY ClaimTypes DEF ClaimInv
  <1>1. CASE PassIs(f, Idle) /\ UNCHANGED <<row, claimed, manual, now, edit>>
    BY <1>t, <1>1, PassFacts, ClaimQuiet DEF PassIs
  <1>2. CASE ~(PassIs(f, Idle) /\ UNCHANGED <<row, claimed, manual, now, edit>>)
    <2>1. /\ fire[f].pc = "due" /\ row \in Rows /\ row' \in Rows /\ row.next = fire[f].saw.next
          /\ row'.next = NextAfter(fire[f].at)
          /\ claimed' = IF manual THEN claimed
                        ELSE [claimed EXCEPT ![row.next] = claimed[row.next] + 1]
          /\ manual' = FALSE /\ PassIs(f, Won(fire[f].saw)) /\ UNCHANGED <<now, edit>>
      BY <1>t, <1>2, ClaimDoes, Zenon
    <2> QED BY <1>t, <2>1, WinClaims
  <1> QED BY <1>1, <1>2

\* The other steps of a pass, and a crash, end it.
LEMMA RestClaims ==
    ASSUME ClaimInv, NEW f \in Firers,
           Reap(f) \/ Deliver(f) \/ BeginExec(f) \/ BeginFails(f) \/ Crash(f)
    PROVE  ClaimInv'
  <1>t. TypeOK /\ TypeOK'
    BY ReapTypes, DeliverTypes, BeginExecTypes, CrashTypes DEF ClaimInv
  <1>1. \E p \in {Idle, Reported} : PassIs(f, p)
    BY <1>t, ReapDoes, DeliverDoes, BeginExecDoes, CrashDoes
  <1>2. \A g \in Firers : fire'[g] = fire[g] \/ fire'[g].pc # "due"
    BY <1>1, PassFacts DEF PassIs
  <1>3. UNCHANGED <<row, now, claimed, manual, edit>>
    BY <1>t, ReapDoes, DeliverDoes, BeginExecDoes, CrashDoes
  <1> QED BY <1>t, <1>2, <1>3, ClaimQuiet

LEMMA ReadForEditClaims ==
    ASSUME ClaimInv, ReadForEdit PROVE ClaimInv'
  <1>t. TypeOK /\ TypeOK'
    BY UserTypes DEF ClaimInv
  <1>1. UNCHANGED <<now, row, fire, claimed, manual>>
    BY <1>t, ReadForEditDoes
  <1>2. EditIsFresh'
    BY <1>t, <1>1, ReadForEditDoes, NextAfterFacts, Typed DEF EditIsFresh
  <1> QED BY <1>t, <1>1, <1>2
          DEF ClaimInv, ClaimsArePast, NextIsUnclaimed, ReadersAreCurrent, AtMostOncePerSlot,
              Standing

LEMMA WriteEditClaims ==
    ASSUME ClaimInv, WriteEdit PROVE ClaimInv'
  <1>t. TypeOK /\ TypeOK'
    BY UserTypes DEF ClaimInv
  <1>1. /\ edit # NoEdit /\ edit' = NoEdit /\ manual' = FALSE /\ UNCHANGED <<now, fire, claimed>>
        /\ (row' = row /\ ~Standing) \/ row' = edit
    BY DEF WriteEdit, Standing
  <1>2. ClaimsArePast' /\ EditIsFresh' /\ AtMostOncePerSlot'
    BY <1>1 DEF ClaimInv, ClaimsArePast, EditIsFresh, AtMostOncePerSlot
  <1>3. Standing' => row' = edit /\ (edit.next = Never \/ (edit.next \in Slots /\ edit.next > now))
    BY <1>1 DEF ClaimInv, EditIsFresh, Standing
  <1>4. \A s \in Slots : s > now => claimed'[s] = 0
    BY <1>t, <1>1, SlotFacts DEF ClaimInv, ClaimsArePast
  <1>5. NextIsUnclaimed'
    BY <1>t, <1>3, <1>4, SlotFacts DEF NextIsUnclaimed
  <1>6. ReadersAreCurrent'
    BY <1>t, <1>1, <1>3, SlotFacts DEF ClaimInv, ReadersAreCurrent
  <1> QED BY <1>t, <1>2, <1>5, <1>6 DEF ClaimInv

LEMMA TriggerClaims ==
    ASSUME ClaimInv, Trigger PROVE ClaimInv'
  <1>t. TypeOK /\ TypeOK'
    BY UserTypes DEF ClaimInv
  <1>1. /\ row \in Rows /\ row'.next = now /\ manual' = TRUE
        /\ UNCHANGED <<now, fire, edit, claimed>>
    BY <1>t, TriggerDoes
  <1>2. ClaimsArePast' /\ EditIsFresh' /\ AtMostOncePerSlot' /\ NextIsUnclaimed'
    BY <1>1 DEF ClaimInv, ClaimsArePast, EditIsFresh, AtMostOncePerSlot, NextIsUnclaimed
  <1>3. \A s \in Slots : s > now => claimed'[s] = 0
    BY <1>t, <1>1, SlotFacts DEF ClaimInv, ClaimsArePast
  <1>4. ReadersAreCurrent'
    BY <1>t, <1>1, <1>3, SlotFacts DEF ClaimInv, ReadersAreCurrent
  <1> QED BY <1>t, <1>2, <1>4 DEF ClaimInv

LEMMA AdvanceClaims ==
    ASSUME ClaimInv, edit = NoEdit, Advance PROVE ClaimInv'
  <1>t. TypeOK /\ TypeOK'
    BY TimeTypes DEF ClaimInv
  <1>1. now' = now + 1 /\ UNCHANGED <<row, fire, edit, manual, claimed>>
    BY DEF Advance
  <1>2. ClaimsArePast'
    BY <1>t, <1>1, SlotFacts DEF ClaimInv, ClaimsArePast
  <1>3. NextIsUnclaimed' /\ AtMostOncePerSlot' /\ EditIsFresh'
    BY <1>1 DEF ClaimInv, NextIsUnclaimed, AtMostOncePerSlot, EditIsFresh, Standing
  <1>4. ReadersAreCurrent'
    BY <1>t, <1>1, SlotFacts DEF ClaimInv, ReadersAreCurrent, Standing
  <1> QED BY <1>t, <1>2, <1>3, <1>4 DEF ClaimInv

LEMMA StillClaims ==
    ASSUME ClaimInv, Delete \/ StrayEnds \/ (\E w \in workers : Finish(w)) \/ UNCHANGED vars
    PROVE  ClaimInv'
  <1>t. TypeOK /\ TypeOK'
    BY UserTypes, TimeTypes, FinishTypes DEF ClaimInv
  <1>1. fire' = fire /\ (row' = row \/ row' = Gone) /\ UNCHANGED <<now, claimed, manual, edit>>
    <2>1. CASE Delete
      BY <1>t, <2>1, DeleteDoes
    <2>2. CASE StrayEnds
      BY <2>2 DEF StrayEnds
    <2>3. ASSUME NEW w \in workers, Finish(w) PROVE UNCHANGED <<fire, row, now, claimed, manual, edit>>
      BY <1>t, <2>3, FinishDoes
    <2>4. CASE UNCHANGED vars
      BY <2>4 DEF vars
    <2> QED BY <2>1, <2>2, <2>3, <2>4
  <1> QED BY <1>t, <1>1, ClaimQuiet

LEMMA ClaimNext ==
    ASSUME EditsRace = FALSE PROVE ClaimInv /\ [Next]_vars => ClaimInv'
  <1> SUFFICES ASSUME ClaimInv, [Next]_vars PROVE ClaimInv'
    OBVIOUS
  <1>1. ASSUME NEW f \in Firers, Pass(f) \/ Crash(f) PROVE ClaimInv'
    BY <1>1, ScanClaims, ClaimClaims, RestClaims DEF Pass
  <1>2. ASSUME edit = NoEdit, Others PROVE ClaimInv'
    BY <1>1, <1>2, TriggerClaims, AdvanceClaims, StillClaims DEF Others
  <1> QED BY <1>2, ReadForEditClaims, WriteEditClaims, StillClaims DEF Next

\* What keeps a scheduled time from being claimed twice.
THEOREM ClaimInvariant ==
    ASSUME EditsRace = FALSE PROVE Spec => []ClaimInv
  BY ClaimInit, ClaimNext, PTL DEF Spec

\* claim_due_automation is at-most-once for every set of processes, whatever
\* passes, crashes, triggers and removals come between, as long as an edit is
\* written before anything else happens.
THEOREM ClaimedAtMostOnce ==
    ASSUME EditsRace = FALSE PROVE Spec => []AtMostOncePerSlot
  <1>1. ClaimInv => AtMostOncePerSlot
    BY DEF ClaimInv
  <1> QED BY <1>1, ClaimInvariant, PTL
=============================================================================
