-------------------------- MODULE SessionSync_proofs --------------------------
(***************************************************************************)
(* What holds of SessionSync for every number of instances, whatever their *)
(* users and the command line do and whatever fails: its types, and that a *)
(* recorded pane is never lost.  And that a session of one instance, which *)
(* kills, relaunches, unloads and deletes it and is itself restarted, has  *)
(* one agent beside a command line that ends it and brings it back.        *)
(***************************************************************************)
EXTENDS SessionSync, FiniteSetTheorems, TLAPS

-----------------------------------------------------------------------------
(* The invariant *)

\* The row records panes of agents that were launched, and it is there before
\* anything is recorded in it.
RowIsFirst ==
    /\ row \in [exists : BOOLEAN, live : BOOLEAN, pane : 0..launches]
    /\ row.live \/ row.pane # 0 => row.exists

CountsAgree ==
    /\ panes \subseteq 1..launches /\ launches \in 0..MaxLaunch
    /\ teardowns \in 0..ops /\ ops \in 0..MaxOps
    /\ cli \in {"idle", "create", "delete", "spawn"}

MemoriesAreTyped ==
    /\ mem \in [Inst -> Unlisted..launches] /\ undo \in [Inst -> Unlisted..launches]
    /\ job \in [Inst -> Job]
    /\ up \in [Inst -> BOOLEAN] /\ known \in [Inst -> BOOLEAN]
    /\ dirty \in [Inst -> BOOLEAN] /\ picker \in [Inst -> BOOLEAN]

\* What an instance has of the session: no more than its list leaves to do,
\* nothing while it is down, and nothing of a session that never was.
Holds(i) ==
    /\ job[i].do \in {"adopt", "attach", "respawn"} => mem[i] = Unlisted
    /\ ~up[i] \/ ~row.exists =>
          mem[i] = Unlisted /\ undo[i] = Unlisted /\ job[i] = Idle /\ ~picker[i]
    /\ ~up[i] => ~known[i] /\ ~dirty[i]

SyncInv == RowIsFirst /\ CountsAgree /\ MemoriesAreTyped /\ \A i \in Inst : Holds(i)

LEMMA Facts ==
    /\ MaxOps \in Nat /\ MaxLaunch \in Nat /\ Unlisted = -1 /\ Ghost = 0
    /\ Idle \in Job /\ Idle.do = "idle"
    /\ Missed \in Job /\ Missed.do = "missed"
    /\ \A x \in {"adopt", "spawn", "attach", "respawn", "claim"}, p \in 0..MaxLaunch :
          /\ [do |-> x, pane |-> p] \in Job /\ [do |-> x, pane |-> p].do = x
          /\ [do |-> x, pane |-> p].pane = p /\ [do |-> x, pane |-> p] # Idle
    /\ \A x \in {"spawn", "respawn", "claim"} :
          Todo(x) \in Job /\ Todo(x).do = x /\ Todo(x).pane = Ghost /\ Todo(x) # Idle
  BY SyncAssumption DEF Unlisted, Ghost, Idle, Missed, Todo, Job

\* A list that is written back brings the row back if it has a pane, and
\* takes no pane from it.
LEMMA SavedFacts ==
    ASSUME NEW n \in Nat, NEW r \in [exists : BOOLEAN, live : BOOLEAN, pane : 0..n],
           NEW m \in Unlisted..n
    PROVE  /\ Saved(r, m) \in [exists : BOOLEAN, live : BOOLEAN, pane : 0..n]
           /\ Saved(r, m).exists = r.exists
           /\ Saved(r, m).live => r.live \/ m > Ghost
           /\ Saved(r, m).pane = IF m > Ghost THEN m ELSE r.pane
  <1>1. CASE m > Ghost
    <2>1. m \in 0..n
      BY <1>1 DEF Ghost, Unlisted
    <2>2. Saved(r, m) = [r EXCEPT !.live = TRUE, !.pane = m]
      BY <1>1 DEF Saved
    <2> QED BY <1>1, <2>1, <2>2
  <1>2. CASE ~(m > Ghost)
    BY <1>2 DEF Saved
  <1> QED BY <1>1, <1>2

LEMMA SavedRow ==
    ASSUME NEW n \in Nat, NEW l \in 0..n, NEW m \in Unlisted..n,
           NEW r \in [exists : BOOLEAN, live : BOOLEAN, pane : 0..l],
           r.live \/ r.pane # 0 => r.exists, r.exists \/ m = Unlisted
    PROVE  /\ Saved(r, m) \in [exists : BOOLEAN, live : BOOLEAN, pane : 0..n]
           /\ Saved(r, m).live \/ Saved(r, m).pane # 0 => Saved(r, m).exists
           /\ r.pane # 0 => Saved(r, m).pane # 0
  <1>1. r \in [exists : BOOLEAN, live : BOOLEAN, pane : 0..n]
    OBVIOUS
  <1>2. /\ Saved(r, m) \in [exists : BOOLEAN, live : BOOLEAN, pane : 0..n]
        /\ Saved(r, m).exists = r.exists
        /\ Saved(r, m).live => r.live \/ m > Ghost
        /\ Saved(r, m).pane = IF m > Ghost THEN m ELSE r.pane
    BY <1>1, SavedFacts
  <1> QED BY <1>2 DEF Ghost, Unlisted

\* The windows that are found are windows, or none.
LEMMA FoundFacts ==
    ASSUME SyncInv PROVE Found \subseteq panes \cup {Ghost} /\ Found \subseteq 0..MaxLaunch
  <1>1. Found \subseteq panes \cup {Ghost}
    BY DEF Found, Match
  <1>2. panes \subseteq 0..MaxLaunch /\ Ghost \in 0..MaxLaunch
    BY Facts DEF SyncInv, CountsAgree
  <1> QED BY <1>1, <1>2

\* What a poll makes of the session is a job for one that is not listed.
LEMMA LearnFacts ==
    ASSUME SyncInv, NEW i \in Inst, Free(i), Learn(i)
    PROVE  /\ job' \in [Inst -> Job] /\ \A j \in Inst \ {i} : job'[j] = job[j]
           /\ \/ job'[i] \in {Idle, job[i]}
              \/ row.live /\ mem[i] = Unlisted /\ job'[i].do \in {"adopt", "spawn"}
  <1>1. job \in [Inst -> Job]
    BY DEF SyncInv, MemoriesAreTyped
  <1>2. CASE ~known[i] /\ row.live /\ mem[i] = Unlisted
    <2>1. PICK p \in Found : job' = [job EXCEPT ![i] =
              IF p = Ghost THEN Todo("spawn") ELSE [do |-> "adopt", pane |-> p]]
      BY <1>2 DEF Learn, Added
    <2>2. p \in 0..MaxLaunch
      BY FoundFacts
    <2>3. job'[i] \in Job /\ job'[i].do \in {"adopt", "spawn"}
      BY <1>1, <2>1, <2>2, Facts
    <2> QED BY <1>1, <1>2, <2>1, <2>3
  <1>3. CASE ~(~known[i] /\ row.live /\ mem[i] = Unlisted)
    <2>1. job' = job \/ job' = [job EXCEPT ![i] = Idle]
      BY <1>3 DEF Learn
    <2> QED BY <1>1, <2>1, Facts
  <1> QED BY <1>2, <1>3

LEMMA PollStep ==
    ASSUME SyncInv, NEW i \in Inst, Poll(i) PROVE SyncInv'
  <1> USE Facts, LearnFacts DEF SyncInv
  <1>1. RowIsFirst'
    BY DEF Poll, RowIsFirst
  <1>2. CountsAgree'
    BY DEF Poll, CountsAgree
  <1>3. MemoriesAreTyped'
    <2>1. job' \in [Inst -> Job] /\ launches' = launches
      BY DEF Poll
    <2>2. mem' \in [Inst -> Unlisted..launches]
      BY DEF Poll, MemoriesAreTyped, CountsAgree
    <2>3. dirty' \in [Inst -> BOOLEAN] /\ known' \in [Inst -> BOOLEAN]
      BY DEF Poll, MemoriesAreTyped, RowIsFirst
    <2> QED BY <2>1, <2>2, <2>3 DEF Poll, MemoriesAreTyped
  <1>4. ASSUME NEW j \in Inst PROVE Holds(j)'
    BY DEF Poll, Free, RowIsFirst, MemoriesAreTyped, Holds
  <1> QED BY <1>1, <1>2, <1>3, <1>4

\* A pane that is there is one to list, of a row that is there.
LEMMA PaneOfRow ==
    ASSUME SyncInv, NEW p \in panes, row.exists
    PROVE  /\ p \in Unlisted..launches
           /\ Saved(row, p).exists
           /\ Saved(row, p) \in [exists : BOOLEAN, live : BOOLEAN, pane : 0..launches]
  <1>1. p \in Unlisted..launches /\ launches \in Nat
    BY Facts DEF SyncInv, CountsAgree
  <1>2. row \in [exists : BOOLEAN, live : BOOLEAN, pane : 0..launches]
    BY DEF SyncInv, RowIsFirst
  <1> QED BY <1>1, <1>2, SavedFacts

LEMMA AdoptStep ==
    ASSUME SyncInv, NEW i \in Inst, Adopt(i) PROVE SyncInv'
  <1> USE Facts DEF SyncInv
  <1>0. /\ row' = Saved(row, job[i].pane) /\ launches' = launches /\ up[i]
        /\ job[i].pane \in panes /\ row.exists
    BY DEF Adopt, Holds
  <1>1. RowIsFirst'
    BY <1>0, PaneOfRow DEF RowIsFirst
  <1>2. CountsAgree'
    BY DEF Adopt, CountsAgree
  <1>3. MemoriesAreTyped'
    <2>1. job[i].pane \in Unlisted..launches
      BY <1>0, PaneOfRow
    <2>2. mem' \in [Inst -> Unlisted..launches']
      BY <1>0, <2>1 DEF Adopt, MemoriesAreTyped
    <2> QED BY <1>0, <2>2 DEF Adopt, WroteBy, MemoriesAreTyped
  <1>4. ASSUME NEW j \in Inst PROVE Holds(j)'
    <2>1. row'.exists
      BY <1>0, PaneOfRow
    <2> QED BY <1>0, <2>1 DEF Adopt, WroteBy, MemoriesAreTyped, Holds
  <1> QED BY <1>1, <1>2, <1>3, <1>4

LEMMA AdoptFailsStep ==
    ASSUME SyncInv, NEW i \in Inst, AdoptFails(i) PROVE SyncInv'
  <1> USE Facts DEF SyncInv
  <1>1. RowIsFirst'
    BY DEF AdoptFails, RowIsFirst
  <1>2. CountsAgree'
    BY DEF AdoptFails, CountsAgree
  <1>3. MemoriesAreTyped'
    BY DEF AdoptFails, MemoriesAreTyped
  <1>4. ASSUME NEW j \in Inst PROVE Holds(j)'
    BY DEF AdoptFails, MemoriesAreTyped, Holds
  <1> QED BY <1>1, <1>2, <1>3, <1>4

LEMMA SpawnStep ==
    ASSUME SyncInv, NEW i \in Inst, Spawn(i) PROVE SyncInv'
  <1> USE Facts DEF SyncInv
  <1>0. /\ launches' = Launched /\ Launched \in Nat /\ launches \in 0..Launched
        /\ Launched \in Unlisted..Launched /\ Launched \in 0..MaxLaunch /\ Launched \in 1..Launched
    BY DEF Spawn, Launched, Launch, CountsAgree
  <1>r. row.exists /\ up[i]
    BY DEF Spawn, Holds
  <1>1. RowIsFirst'
    BY <1>0, <1>r, SavedRow DEF Spawn, RowIsFirst
  <1>2. CountsAgree'
    BY <1>0 DEF Spawn, Launch, CountsAgree
  <1>3. MemoriesAreTyped'
    <2>1. mem' \in [Inst -> Unlisted..launches'] /\ undo' \in [Inst -> Unlisted..launches']
      BY <1>0 DEF Spawn, MemoriesAreTyped
    <2>2. job' \in [Inst -> Job]
      BY DEF Spawn, MemoriesAreTyped
    <2> QED BY <2>1, <2>2 DEF Spawn, WroteBy, MemoriesAreTyped
  <1>4. ASSUME NEW j \in Inst PROVE Holds(j)'
    <2>1. row'.exists
      <3>1. row \in [exists : BOOLEAN, live : BOOLEAN, pane : 0..Launched]
        BY <1>0 DEF RowIsFirst
      <3>2. Saved(row, Launched).exists = row.exists
        BY <1>0, <3>1, SavedFacts
      <3> QED BY <1>r, <3>2 DEF Spawn
    <2>2. job'[i] \in {Todo("claim"), Idle} /\ job'[i].do \notin {"adopt", "attach", "respawn"}
      BY DEF Spawn, MemoriesAreTyped
    <2>3. \A k \in Inst \ {i} : job'[k] = job[k] /\ mem'[k] = mem[k]
      BY DEF Spawn, MemoriesAreTyped
    <2>4. UNCHANGED <<up, undo, known, picker>> /\ (~up[j] => ~dirty'[j])
      BY <1>r DEF Spawn, WroteBy, MemoriesAreTyped, Holds
    <2>5. CASE j = i
      BY <1>r, <2>1, <2>2, <2>4, <2>5 DEF Holds
    <2>6. CASE j # i
      BY <1>r, <2>1, <2>3, <2>4, <2>6 DEF Holds
    <2> QED BY <2>5, <2>6
  <1> QED BY <1>1, <1>2, <1>3, <1>4

LEMMA SpawnFailsStep ==
    ASSUME SyncInv, NEW i \in Inst, SpawnFails(i) PROVE SyncInv'
  <1> USE Facts DEF SyncInv
  <1>1. RowIsFirst'
    BY DEF SpawnFails, RowIsFirst
  <1>2. CountsAgree'
    BY DEF SpawnFails, CountsAgree
  <1>3. MemoriesAreTyped'
    BY DEF SpawnFails, MemoriesAreTyped
  <1>4. ASSUME NEW j \in Inst PROVE Holds(j)'
    BY DEF SpawnFails, MemoriesAreTyped, Holds
  <1> QED BY <1>1, <1>2, <1>3, <1>4

LEMMA AttachStep ==
    ASSUME SyncInv, NEW i \in Inst, Attach(i) PROVE SyncInv'
  <1> USE Facts DEF SyncInv
  <1>0. /\ row.exists /\ up[i] /\ mem[i] = Unlisted
        /\ UNCHANGED <<row, panes, launches, up, undo, known, dirty, picker>>
    BY DEF Attach, Holds
  <1>1. RowIsFirst'
    BY <1>0 DEF RowIsFirst
  <1>2. CountsAgree'
    BY DEF Attach, CountsAgree
  <1>3. MemoriesAreTyped'
    <2>1. panes \subseteq Unlisted..launches /\ Ghost \in Unlisted..launches
      BY DEF CountsAgree
    <2>2. \/ mem' = mem
          \/ job[i].pane \in panes /\ mem' = [mem EXCEPT ![i] = job[i].pane]
          \/ mem' = [mem EXCEPT ![i] = Ghost]
      BY DEF Attach
    <2>m. mem \in [Inst -> Unlisted..launches]
      BY DEF MemoriesAreTyped
    <2>3. mem' \in [Inst -> Unlisted..launches]
      BY <2>1, <2>2, <2>m, Zenon
    <2>4. job' \in [Inst -> Job]
      BY DEF Attach, MemoriesAreTyped
    <2> QED BY <1>0, <2>3, <2>4 DEF MemoriesAreTyped
  <1>4. ASSUME NEW j \in Inst PROVE Holds(j)'
    <2>1. \/ job'[i] = Todo("claim")
          \/ job'[i] = Todo("respawn") /\ mem'[i] = Unlisted
      BY <1>0 DEF Attach, MemoriesAreTyped
    <2>2. j # i => job'[j] = job[j] /\ mem'[j] = mem[j]
      BY DEF Attach, MemoriesAreTyped
    <2> QED BY <1>0, <2>1, <2>2 DEF Holds
  <1> QED BY <1>1, <1>2, <1>3, <1>4

LEMMA ClaimStep ==
    ASSUME SyncInv, NEW i \in Inst, Claim(i) PROVE SyncInv'
  <1> USE Facts DEF SyncInv
  <1>0. row' = Saved(row, mem[i]) /\ mem[i] \in Unlisted..launches /\ launches' = launches
    BY DEF Claim, MemoriesAreTyped
  <1>r. row.exists /\ up[i] /\ launches \in Nat /\ launches \in 0..launches
    BY DEF Claim, Holds, CountsAgree
  <1>1. RowIsFirst'
    BY <1>0, <1>r, SavedRow DEF RowIsFirst
  <1>2. CountsAgree'
    BY DEF Claim, CountsAgree
  <1>3. MemoriesAreTyped'
    BY DEF Claim, WroteBy, MemoriesAreTyped
  <1>4. ASSUME NEW j \in Inst PROVE Holds(j)'
    <2>1. row'.exists
      BY <1>0, <1>r, SavedFacts DEF RowIsFirst
    <2> QED BY <1>r, <2>1 DEF Claim, WroteBy, MemoriesAreTyped, Holds
  <1> QED BY <1>1, <1>2, <1>3, <1>4

LEMMA ExpireStep ==
    ASSUME SyncInv, NEW i \in Inst, Expire(i) PROVE SyncInv'
  <1> USE Facts DEF SyncInv
  <1>1. RowIsFirst'
    BY DEF Expire, WithoutPane, Free, RowIsFirst, CountsAgree, MemoriesAreTyped, Holds
  <1>2. CountsAgree'
    <2>1. panes' \subseteq panes
      BY DEF Expire, WithoutPane
    <2> QED BY <2>1 DEF Expire, Free, RowIsFirst, CountsAgree, MemoriesAreTyped
  <1>3. MemoriesAreTyped'
    BY DEF Expire, WithoutPane, Free, RowIsFirst, CountsAgree, MemoriesAreTyped
  <1>4. ASSUME NEW j \in Inst PROVE Holds(j)'
    BY DEF Expire, WithoutPane, Free, RowIsFirst, CountsAgree, MemoriesAreTyped, Holds
  <1> QED BY <1>1, <1>2, <1>3, <1>4

LEMMA CreateStep ==
    ASSUME SyncInv, NEW i \in Inst, Create(i) PROVE SyncInv'
  <1> USE Facts DEF SyncInv
  <1>1. RowIsFirst'
    BY DEF Create, WroteBy, Launched, Launch, Op, Free, RowIsFirst, CountsAgree, MemoriesAreTyped, Holds
  <1>2. CountsAgree'
    BY DEF Create, WroteBy, Launched, Launch, Op, Free, CountsAgree, MemoriesAreTyped
  <1>3. MemoriesAreTyped'
    BY DEF Create, WroteBy, Launched, Launch, Op, Free, RowIsFirst, CountsAgree, MemoriesAreTyped
  <1>4. ASSUME NEW j \in Inst PROVE Holds(j)'
    BY DEF Create, WroteBy, Launched, Launch, Op, Free, RowIsFirst, CountsAgree, MemoriesAreTyped, Holds
  <1> QED BY <1>1, <1>2, <1>3, <1>4

LEMMA DeleteStep ==
    ASSUME SyncInv, NEW i \in Inst, Delete(i) PROVE SyncInv'
  <1> USE Facts DEF SyncInv
  <1>1. RowIsFirst'
    BY DEF Delete, WroteBy, WithoutPane, Op, Free, RowIsFirst, CountsAgree, MemoriesAreTyped, Holds
  <1>2. CountsAgree'
    <2>1. panes' \subseteq panes
      BY DEF Delete, WithoutPane
    <2> QED BY <2>1 DEF Delete, WroteBy, Op, Free, RowIsFirst, CountsAgree, MemoriesAreTyped
  <1>3. MemoriesAreTyped'
    BY DEF Delete, WroteBy, WithoutPane, Op, Free, RowIsFirst, CountsAgree, MemoriesAreTyped
  <1>4. ASSUME NEW j \in Inst PROVE Holds(j)'
    BY DEF Delete, WroteBy, WithoutPane, Op, Free, RowIsFirst, CountsAgree, MemoriesAreTyped, Holds
  <1> QED BY <1>1, <1>2, <1>3, <1>4

LEMMA HardDeleteStep ==
    ASSUME SyncInv, NEW i \in Inst, HardDelete(i) PROVE SyncInv'
  <1> USE Facts DEF SyncInv
  <1>1. RowIsFirst'
    BY DEF HardDelete, WroteBy, WithoutPane, Op, Free, RowIsFirst, CountsAgree, MemoriesAreTyped, Holds
  <1>2. CountsAgree'
    <2>1. panes' \subseteq panes
      BY DEF HardDelete, WithoutPane
    <2> QED BY <2>1 DEF HardDelete, WroteBy, Op, Free, RowIsFirst, CountsAgree, MemoriesAreTyped
  <1>3. MemoriesAreTyped'
    BY DEF HardDelete, WroteBy, WithoutPane, Op, Free, RowIsFirst, CountsAgree, MemoriesAreTyped
  <1>4. ASSUME NEW j \in Inst PROVE Holds(j)'
    BY DEF HardDelete, WroteBy, WithoutPane, Op, Free, RowIsFirst, CountsAgree, MemoriesAreTyped, Holds
  <1> QED BY <1>1, <1>2, <1>3, <1>4

\* What an undo makes of the row.
LEMMA UndoneRow ==
    ASSUME SyncInv, NEW i \in Inst, undo[i] # Unlisted, Undone(i), launches' = launches
    PROVE  RowIsFirst' /\ row'.exists
  <1> USE Facts DEF SyncInv
  <1> DEFINE m == IF mem[i] # Unlisted THEN mem[i] ELSE undo[i]
             r == [row EXCEPT !.live = TRUE]
  <1>1. m \in Unlisted..launches /\ launches \in Nat
    BY DEF CountsAgree, MemoriesAreTyped
  <1>2. row.exists
    BY DEF Holds
  <1>3. /\ r \in [exists : BOOLEAN, live : BOOLEAN, pane : 0..launches] /\ r.exists
    BY <1>2 DEF RowIsFirst
  <1>4. row' = Saved(r, m)
    BY DEF Undone
  <1> HIDE DEF m, r
  <1>5. Saved(r, m).exists = r.exists
    BY <1>1, <1>3, SavedFacts
  <1> QED BY <1>1, <1>3, <1>4, <1>5, SavedRow DEF RowIsFirst

LEMMA UndoStep ==
    ASSUME SyncInv, NEW i \in Inst, Undo(i) PROVE SyncInv'
  <1> USE Facts DEF SyncInv
  <1>1. RowIsFirst'
    BY UndoneRow DEF Undo, Free
  <1>2. CountsAgree'
    BY DEF Undo, Op, Free, Undone, WroteBy, CountsAgree, MemoriesAreTyped
  <1>3. MemoriesAreTyped'
    BY DEF Undo, Op, Free, Undone, WroteBy, RowIsFirst, CountsAgree, MemoriesAreTyped
  <1>4. ASSUME NEW j \in Inst PROVE Holds(j)'
    <2>1. row'.exists /\ row.exists
      BY UndoneRow DEF Undo, Holds
    <2> QED BY <2>1 DEF Undo, Free, Undone, WroteBy, MemoriesAreTyped, Holds
  <1> QED BY <1>1, <1>2, <1>3, <1>4

LEMMA OpenPickerStep ==
    ASSUME SyncInv, NEW i \in Inst, OpenPicker(i) PROVE SyncInv'
  <1> USE Facts DEF SyncInv
  <1>1. RowIsFirst'
    BY DEF OpenPicker, Free, RowIsFirst, CountsAgree, MemoriesAreTyped, Holds
  <1>2. CountsAgree'
    BY DEF OpenPicker, Free, CountsAgree, MemoriesAreTyped
  <1>3. MemoriesAreTyped'
    BY DEF OpenPicker, Free, RowIsFirst, CountsAgree, MemoriesAreTyped
  <1>4. ASSUME NEW j \in Inst PROVE Holds(j)'
    BY DEF OpenPicker, Free, RowIsFirst, CountsAgree, MemoriesAreTyped, Holds
  <1> QED BY <1>1, <1>2, <1>3, <1>4

LEMMA RestoreStep ==
    ASSUME SyncInv, NEW i \in Inst, Restore(i) PROVE SyncInv'
  <1> USE Facts DEF SyncInv
  <1>0. RowIsFirst' /\ row'.exists
    <2>1. row.exists
      BY DEF Restore, Holds, MemoriesAreTyped
    <2> DEFINE r == [row EXCEPT !.live = TRUE]
    <2>2. r \in [exists : BOOLEAN, live : BOOLEAN, pane : 0..launches] /\ r.exists
      BY <2>1 DEF RowIsFirst
    <2>3. CASE undo[i] # Unlisted /\ Undone(i) /\ launches' = launches
      BY <2>3, UndoneRow
    <2>4. CASE row' = r /\ launches' = launches
      BY <2>2, <2>4 DEF RowIsFirst
    <2>5. CASE row' = Saved(r, Launched) /\ Launch(panes)
      <3>1. launches' = Launched /\ Launched \in Nat /\ launches \in 0..Launched
        BY <2>5 DEF Launch, Launched, CountsAgree
      <3>2. Launched \in Unlisted..Launched
        BY <3>1
      <3> HIDE DEF r
      <3>3. /\ Saved(r, Launched) \in [exists : BOOLEAN, live : BOOLEAN, pane : 0..Launched]
            /\ Saved(r, Launched).live \/ Saved(r, Launched).pane # 0 => Saved(r, Launched).exists
        BY <2>2, <3>1, <3>2, SavedRow
      <3>4. r \in [exists : BOOLEAN, live : BOOLEAN, pane : 0..Launched]
        BY <2>2, <3>1
      <3>5. Saved(r, Launched).exists
        BY <2>2, <3>1, <3>2, <3>4, SavedFacts
      <3> QED BY <2>5, <3>1, <3>3, <3>5 DEF RowIsFirst
    <2> QED BY <2>3, <2>4, <2>5 DEF Restore
  <1>1. RowIsFirst'
    BY <1>0
  <1>2. CountsAgree'
    BY DEF Restore, WroteBy, Launched, Launch, Op, Free, Undone, CountsAgree, MemoriesAreTyped
  <1>3. MemoriesAreTyped'
    BY DEF Restore, WroteBy, Launched, Launch, Op, Free, Undone, RowIsFirst, CountsAgree, MemoriesAreTyped
  <1>4. ASSUME NEW j \in Inst PROVE Holds(j)'
    <2>1. row.exists
      BY DEF Restore, Holds, MemoriesAreTyped
    <2> QED BY <1>0, <2>1 DEF Restore, WroteBy, Free, Undone, MemoriesAreTyped, Holds
  <1> QED BY <1>1, <1>2, <1>3, <1>4

LEMMA RestartStep ==
    ASSUME SyncInv, NEW i \in Inst, Restart(i) PROVE SyncInv'
  <1> USE Facts DEF SyncInv
  <1>1. RowIsFirst'
    BY DEF Restart, WithoutPane, Op, Free, RowIsFirst, CountsAgree, MemoriesAreTyped, Holds
  <1>2. CountsAgree'
    <2>1. panes' \subseteq panes
      BY DEF Restart, WithoutPane
    <2>2. /\ launches' = launches /\ teardowns' \in 0..ops' /\ ops' \in 0..MaxOps
          /\ cli' \in {"idle", "create", "delete", "spawn"}
      BY DEF Restart, Op, CountsAgree
    <2> QED BY <2>1, <2>2 DEF CountsAgree
  <1>3. MemoriesAreTyped'
    BY DEF Restart, WithoutPane, Op, Free, RowIsFirst, CountsAgree, MemoriesAreTyped
  <1>4. ASSUME NEW j \in Inst PROVE Holds(j)'
    BY DEF Restart, WithoutPane, Op, Free, RowIsFirst, CountsAgree, MemoriesAreTyped, Holds
  <1> QED BY <1>1, <1>2, <1>3, <1>4

LEMMA UnloadStep ==
    ASSUME SyncInv, NEW i \in Inst, Unload(i) PROVE SyncInv'
  <1> USE Facts DEF SyncInv
  <1>1. RowIsFirst'
    <2>1. row' = Saved(row, mem[i]) /\ launches \in 0..launches' /\ launches' \in Nat
      BY DEF Unload, WroteBy, WithoutPane, Op, Free, CountsAgree
    <2>2. mem[i] \in Unlisted..launches' /\ (row.exists \/ mem[i] = Unlisted)
      BY DEF Unload, WroteBy, WithoutPane, Op, Free, RowIsFirst, CountsAgree, MemoriesAreTyped, Holds
    <2> QED BY <2>1, <2>2, SavedRow DEF RowIsFirst
  <1>2. CountsAgree'
    <2>1. panes' \subseteq panes
      BY DEF Unload, WithoutPane
    <2>2. /\ launches' = launches /\ teardowns' \in 0..ops' /\ ops' \in 0..MaxOps
          /\ cli' \in {"idle", "create", "delete", "spawn"}
      BY DEF Unload, Op, CountsAgree
    <2> QED BY <2>1, <2>2 DEF CountsAgree
  <1>3. MemoriesAreTyped'
    BY DEF Unload, WroteBy, WithoutPane, Op, Free, RowIsFirst, CountsAgree, MemoriesAreTyped
  <1>4. ASSUME NEW j \in Inst PROVE Holds(j)'
    BY DEF Unload, Saved, WroteBy, WithoutPane, Op, Free, RowIsFirst, CountsAgree, MemoriesAreTyped, Holds
  <1> QED BY <1>1, <1>2, <1>3, <1>4

LEMMA SaveStep ==
    ASSUME SyncInv, NEW i \in Inst, Save(i) PROVE SyncInv'
  <1> USE Facts DEF SyncInv
  <1>1. RowIsFirst'
    <2>1. row' = Saved(row, mem[i]) /\ launches \in 0..launches' /\ launches' \in Nat
      BY DEF Save, WroteBy, Op, Free, CountsAgree
    <2>2. mem[i] \in Unlisted..launches' /\ (row.exists \/ mem[i] = Unlisted)
      BY DEF Save, WroteBy, Op, Free, RowIsFirst, CountsAgree, MemoriesAreTyped, Holds
    <2> QED BY <2>1, <2>2, SavedRow DEF RowIsFirst
  <1>2. CountsAgree'
    BY DEF Save, WroteBy, Op, Free, CountsAgree, MemoriesAreTyped
  <1>3. MemoriesAreTyped'
    BY DEF Save, WroteBy, Op, Free, RowIsFirst, CountsAgree, MemoriesAreTyped
  <1>4. ASSUME NEW j \in Inst PROVE Holds(j)'
    BY DEF Save, Saved, WroteBy, Op, Free, RowIsFirst, CountsAgree, MemoriesAreTyped, Holds
  <1> QED BY <1>1, <1>2, <1>3, <1>4

LEMMA QuitStep ==
    ASSUME SyncInv, NEW i \in Inst, Quit(i) PROVE SyncInv'
  <1> USE Facts DEF SyncInv
  <1>1. RowIsFirst'
    <2>1. row' = Saved(row, mem[i]) /\ launches \in 0..launches' /\ launches' \in Nat
      BY DEF Quit, WithoutPane, Op, Free, Down, CountsAgree
    <2>2. mem[i] \in Unlisted..launches' /\ (row.exists \/ mem[i] = Unlisted)
      BY DEF Quit, WithoutPane, Op, Free, Down, RowIsFirst, CountsAgree, MemoriesAreTyped, Holds
    <2> QED BY <2>1, <2>2, SavedRow DEF RowIsFirst
  <1>2. CountsAgree'
    <2>1. panes' \subseteq panes
      BY DEF Quit, WithoutPane
    <2>2. /\ launches' = launches /\ teardowns' \in 0..ops' /\ ops' \in 0..MaxOps
          /\ cli' \in {"idle", "create", "delete", "spawn"}
      BY DEF Quit, Op, CountsAgree
    <2> QED BY <2>1, <2>2 DEF CountsAgree
  <1>3. MemoriesAreTyped'
    BY DEF Quit, WithoutPane, Op, Free, Down, RowIsFirst, CountsAgree, MemoriesAreTyped
  <1>4. ASSUME NEW j \in Inst PROVE Holds(j)'
    <2>1. row'.exists = row.exists
      BY SavedFacts DEF Quit, CountsAgree, RowIsFirst, MemoriesAreTyped
    <2>2. CASE j = i
      <3>1. dirty' = [k \in Inst |-> k # i /\ up[k]]
        BY DEF Quit
      <3>2. ~dirty'[i]
        BY <3>1
      <3>3. /\ mem'[i] = Unlisted /\ undo'[i] = Unlisted /\ job'[i] = Idle
            /\ known'[i] = FALSE /\ picker'[i] = FALSE
        BY DEF Quit, Down, MemoriesAreTyped
      <3> QED BY <2>2, <3>2, <3>3 DEF Holds
    <2>3. CASE j # i
      BY <2>1, <2>3 DEF Quit, Down, MemoriesAreTyped, Holds
    <2> QED BY <2>2, <2>3
  <1> QED BY <1>1, <1>2, <1>3, <1>4

LEMMA CrashStep ==
    ASSUME SyncInv, NEW i \in Inst, Crash(i) PROVE SyncInv'
  <1> USE Facts DEF SyncInv
  <1>1. RowIsFirst'
    BY DEF Crash, Op, Down, RowIsFirst, CountsAgree, MemoriesAreTyped, Holds
  <1>2. CountsAgree'
    BY DEF Crash, Op, Down, CountsAgree, MemoriesAreTyped
  <1>3. MemoriesAreTyped'
    BY DEF Crash, Op, Down, RowIsFirst, CountsAgree, MemoriesAreTyped
  <1>4. ASSUME NEW j \in Inst PROVE Holds(j)'
    BY DEF Crash, Op, Down, RowIsFirst, CountsAgree, MemoriesAreTyped, Holds
  <1> QED BY <1>1, <1>2, <1>3, <1>4

LEMMA StartStep ==
    ASSUME SyncInv, NEW i \in Inst, Start(i) PROVE SyncInv'
  <1> USE Facts DEF SyncInv
  <1>1. RowIsFirst'
    BY DEF Start, RowIsFirst
  <1>2. CountsAgree'
    BY DEF Start, Op, CountsAgree
  <1>j. /\ job' \in [Inst -> Job] /\ \A j \in Inst \ {i} : job'[j] = job[j]
        /\ job'[i] = job[i] \/ row.live
    <2>1. job \in [Inst -> Job] /\ Found \subseteq 0..MaxLaunch
      BY FoundFacts DEF MemoriesAreTyped
    <2>2. CASE row.live
      <3>1. PICK p \in Found : job' = [job EXCEPT ![i] = [do |-> "attach", pane |-> p]]
        BY <2>2 DEF Start
      <3>2. [do |-> "attach", pane |-> p] \in Job
        BY <2>1
      <3> QED BY <2>1, <2>2, <3>1, <3>2
    <2>3. CASE ~row.live
      BY <2>1, <2>3 DEF Start
    <2> QED BY <2>2, <2>3
  <1> DEFINE Seen == IF row.exists /\ "reads" \in Faults THEN BOOLEAN ELSE {row.live}
  <1>s. \A seen \in Seen : seen \in BOOLEAN
    BY DEF RowIsFirst
  <1>k. PICK seen \in Seen : /\ known' = [known EXCEPT ![i] = seen]
                             /\ dirty' = [dirty EXCEPT ![i] = seen # row.live]
    BY DEF Start
  <1> HIDE DEF Seen
  <1>3. MemoriesAreTyped'
    <2>1. known' \in [Inst -> BOOLEAN] /\ dirty' \in [Inst -> BOOLEAN]
      <3>1. seen \in BOOLEAN /\ (seen # row.live) \in BOOLEAN
        BY <1>s
      <3> QED BY <1>k, <3>1, Zenon DEF MemoriesAreTyped
    <2>2. up' \in [Inst -> BOOLEAN]
      BY DEF Start, MemoriesAreTyped
    <2> QED BY <1>j, <2>1, <2>2 DEF Start, MemoriesAreTyped
  <1>4. ASSUME NEW j \in Inst PROVE Holds(j)'
    <2>1. mem[i] = Unlisted /\ (row.live => row.exists) /\ job[i] = Idle
      BY DEF Start, Holds, RowIsFirst
    <2>2. up'[i] /\ (j # i => up'[j] = up[j] /\ known'[j] = known[j] /\ dirty'[j] = dirty[j])
      <3>1. up'[i] /\ (j # i => up'[j] = up[j])
        BY DEF Start, MemoriesAreTyped
      <3>2. j # i => known'[j] = known[j] /\ dirty'[j] = dirty[j]
        BY <1>k, Zenon DEF MemoriesAreTyped
      <3> QED BY <3>1, <3>2
    <2>3. UNCHANGED <<row, mem, undo, picker>>
      BY DEF Start
    <2>4. CASE j = i
      BY <1>j, <2>1, <2>2, <2>3, <2>4 DEF Holds
    <2>5. CASE j # i
      BY <1>j, <2>2, <2>3, <2>5 DEF Holds
    <2> QED BY <2>4, <2>5
  <1> QED BY <1>1, <1>2, <1>3, <1>4

LEMMA TeardownStep ==
    ASSUME SyncInv, Teardown PROVE SyncInv'
  <1> USE Facts DEF SyncInv
  <1>1. RowIsFirst'
    BY DEF Teardown, WithoutWindow, RowIsFirst, CountsAgree, MemoriesAreTyped, Holds
  <1>2. CountsAgree'
    <2>1. panes' \subseteq panes
      BY DEF Teardown, WithoutWindow
    <2>2. /\ launches' = launches /\ teardowns' \in 0..ops' /\ ops' \in 0..MaxOps
          /\ cli' \in {"idle", "create", "delete", "spawn"}
      BY DEF Teardown, CountsAgree
    <2> QED BY <2>1, <2>2 DEF CountsAgree
  <1>3. MemoriesAreTyped'
    BY DEF Teardown, WithoutWindow, RowIsFirst, CountsAgree, MemoriesAreTyped
  <1>4. ASSUME NEW j \in Inst PROVE Holds(j)'
    BY DEF Teardown, WithoutWindow, RowIsFirst, CountsAgree, MemoriesAreTyped, Holds
  <1> QED BY <1>1, <1>2, <1>3, <1>4

LEMMA CliOpenStep ==
    ASSUME SyncInv, CliOpen PROVE SyncInv'
  <1> USE Facts DEF SyncInv
  <1>1. RowIsFirst'
    BY DEF CliOpen, Launch, Launched, RowIsFirst, CountsAgree
  <1>2. CountsAgree'
    BY DEF CliOpen, Launch, Op, Launched, CountsAgree
  <1>3. MemoriesAreTyped'
    BY DEF CliOpen, Launch, Launched, CountsAgree, MemoriesAreTyped
  <1>4. ASSUME NEW j \in Inst PROVE Holds(j)'
    BY DEF CliOpen, Holds
  <1> QED BY <1>1, <1>2, <1>3, <1>4

LEMMA CliRecordStep ==
    ASSUME SyncInv, CliRecord PROVE SyncInv'
  <1> USE Facts DEF SyncInv
  <1>1. RowIsFirst'
    BY DEF CliRecord, RowIsFirst, CountsAgree
  <1>2. CountsAgree'
    BY DEF CliRecord, CountsAgree
  <1>3. MemoriesAreTyped'
    BY DEF CliRecord, WroteOutside, MemoriesAreTyped
  <1>4. ASSUME NEW j \in Inst PROVE Holds(j)'
    BY DEF CliRecord, WroteOutside, MemoriesAreTyped, Holds
  <1> QED BY <1>1, <1>2, <1>3, <1>4

LEMMA CliStopsStep ==
    ASSUME SyncInv, CliStops PROVE SyncInv'
  <1> USE Facts DEF SyncInv
  <1>1. RowIsFirst'
    BY DEF CliStops, RowIsFirst
  <1>2. CountsAgree'
    <2>1. panes' \subseteq panes
      BY DEF CliStops, WithoutWindow
    <2> QED BY <2>1 DEF CliStops, CountsAgree
  <1>3. MemoriesAreTyped'
    BY DEF CliStops, MemoriesAreTyped
  <1>4. ASSUME NEW j \in Inst PROVE Holds(j)'
    BY DEF CliStops, Holds
  <1> QED BY <1>1, <1>2, <1>3, <1>4

LEMMA CliDeleteStep ==
    ASSUME SyncInv, CliDelete PROVE SyncInv'
  <1> USE Facts DEF SyncInv
  <1>1. RowIsFirst'
    BY DEF CliDelete, WroteOutside, Op, RowIsFirst, CountsAgree, MemoriesAreTyped, Holds
  <1>2. CountsAgree'
    BY DEF CliDelete, WroteOutside, Op, CountsAgree, MemoriesAreTyped
  <1>3. MemoriesAreTyped'
    BY DEF CliDelete, WroteOutside, Op, RowIsFirst, CountsAgree, MemoriesAreTyped
  <1>4. ASSUME NEW j \in Inst PROVE Holds(j)'
    BY DEF CliDelete, WroteOutside, Op, RowIsFirst, CountsAgree, MemoriesAreTyped, Holds
  <1> QED BY <1>1, <1>2, <1>3, <1>4

LEMMA CliKillStep ==
    ASSUME SyncInv, CliKill PROVE SyncInv'
  <1> USE Facts DEF SyncInv
  <1>1. RowIsFirst'
    BY DEF CliKill, WithoutWindow, Op, RowIsFirst, CountsAgree, MemoriesAreTyped, Holds
  <1>2. CountsAgree'
    <2>1. panes' \subseteq panes
      BY DEF CliKill, WithoutWindow
    <2>2. /\ launches' = launches /\ teardowns' \in 0..ops' /\ ops' \in 0..MaxOps
          /\ cli' \in {"idle", "create", "delete", "spawn"}
      BY DEF CliKill, Op, CountsAgree
    <2> QED BY <2>1, <2>2 DEF CountsAgree
  <1>3. MemoriesAreTyped'
    BY DEF CliKill, WithoutWindow, Op, RowIsFirst, CountsAgree, MemoriesAreTyped
  <1>4. ASSUME NEW j \in Inst PROVE Holds(j)'
    BY DEF CliKill, WithoutWindow, Op, RowIsFirst, CountsAgree, MemoriesAreTyped, Holds
  <1> QED BY <1>1, <1>2, <1>3, <1>4

LEMMA CliForcedStep ==
    ASSUME SyncInv, CliForced PROVE SyncInv'
  <1> USE Facts DEF SyncInv
  <1>1. RowIsFirst'
    BY DEF CliForced, WroteOutside, RowIsFirst, CountsAgree, MemoriesAreTyped, Holds
  <1>2. CountsAgree'
    BY DEF CliForced, WroteOutside, CountsAgree, MemoriesAreTyped
  <1>3. MemoriesAreTyped'
    BY DEF CliForced, WroteOutside, RowIsFirst, CountsAgree, MemoriesAreTyped
  <1>4. ASSUME NEW j \in Inst PROVE Holds(j)'
    BY DEF CliForced, WroteOutside, RowIsFirst, CountsAgree, MemoriesAreTyped, Holds
  <1> QED BY <1>1, <1>2, <1>3, <1>4

LEMMA CliRestartedStep ==
    ASSUME SyncInv, CliRestarted PROVE SyncInv'
  <1> USE Facts DEF SyncInv
  <1>1. RowIsFirst'
    BY DEF CliRestarted, WroteOutside, Launch, Launched, RowIsFirst, CountsAgree, MemoriesAreTyped, Holds
  <1>2. CountsAgree'
    BY DEF CliRestarted, WroteOutside, Launch, Launched, CountsAgree, MemoriesAreTyped
  <1>3. MemoriesAreTyped'
    BY DEF CliRestarted, WroteOutside, Launch, Launched, RowIsFirst, CountsAgree, MemoriesAreTyped
  <1>4. ASSUME NEW j \in Inst PROVE Holds(j)'
    BY DEF CliRestarted, WroteOutside, Launch, Launched, RowIsFirst, CountsAgree, MemoriesAreTyped, Holds
  <1> QED BY <1>1, <1>2, <1>3, <1>4

LEMMA CliRestoreStep ==
    ASSUME SyncInv, CliRestore PROVE SyncInv'
  <1> USE Facts DEF SyncInv
  <1>1. RowIsFirst'
    BY DEF CliRestore, WroteOutside, Op, RowIsFirst, CountsAgree, MemoriesAreTyped, Holds
  <1>2. CountsAgree'
    BY DEF CliRestore, WroteOutside, Op, CountsAgree, MemoriesAreTyped
  <1>3. MemoriesAreTyped'
    BY DEF CliRestore, WroteOutside, Op, RowIsFirst, CountsAgree, MemoriesAreTyped
  <1>4. ASSUME NEW j \in Inst PROVE Holds(j)'
    BY DEF CliRestore, WroteOutside, Op, RowIsFirst, CountsAgree, MemoriesAreTyped, Holds
  <1> QED BY <1>1, <1>2, <1>3, <1>4

LEMMA TouchStep ==
    ASSUME SyncInv, Touch PROVE SyncInv'
  <1> USE Facts DEF SyncInv
  <1>1. RowIsFirst'
    BY DEF Touch, WroteOutside, Op, RowIsFirst, CountsAgree, MemoriesAreTyped, Holds
  <1>2. CountsAgree'
    BY DEF Touch, WroteOutside, Op, CountsAgree, MemoriesAreTyped
  <1>3. MemoriesAreTyped'
    BY DEF Touch, WroteOutside, Op, RowIsFirst, CountsAgree, MemoriesAreTyped
  <1>4. ASSUME NEW j \in Inst PROVE Holds(j)'
    BY DEF Touch, WroteOutside, Op, RowIsFirst, CountsAgree, MemoriesAreTyped, Holds
  <1> QED BY <1>1, <1>2, <1>3, <1>4

-----------------------------------------------------------------------------
(* Types, and the pane that was recorded *)

LEMMA SyncInit == Init => SyncInv
  <1> SUFFICES ASSUME Init PROVE SyncInv
    OBVIOUS
  <1> USE Facts DEF Init
  <1>1. RowIsFirst
    BY DEF RowIsFirst, NoRow
  <1>2. CountsAgree
    BY DEF CountsAgree
  <1>3. MemoriesAreTyped
    BY <1>2 DEF MemoriesAreTyped, CountsAgree
  <1>4. ASSUME NEW i \in Inst PROVE Holds(i)
    BY DEF Holds
  <1> QED BY <1>1, <1>2, <1>3, <1>4 DEF SyncInv

LEMMA SyncNext == SyncInv /\ [Next]_vars => SyncInv'
  <1> SUFFICES ASSUME SyncInv, [Next]_vars PROVE SyncInv'
    OBVIOUS
  <1>1. ASSUME NEW i \in Inst, Works(i) PROVE SyncInv'
    BY <1>1, PollStep, AdoptStep, AdoptFailsStep, SpawnStep, SpawnFailsStep, AttachStep,
       ClaimStep, ExpireStep DEF Works
  <1>2. ASSUME NEW i \in Inst, Uses(i) PROVE SyncInv'
    BY <1>2, CreateStep, DeleteStep, HardDeleteStep, UndoStep, OpenPickerStep, RestoreStep,
       RestartStep, UnloadStep, SaveStep, QuitStep, CrashStep, StartStep DEF Uses
  <1>3. ASSUME Commands \/ Teardown PROVE SyncInv'
    BY <1>3, CliOpenStep, CliRecordStep, CliStopsStep, CliDeleteStep, CliKillStep,
       CliForcedStep, CliRestartedStep, CliRestoreStep, TouchStep, TeardownStep DEF Commands
  <1>4. CASE UNCHANGED vars
    BY <1>4 DEF vars, SyncInv, RowIsFirst, CountsAgree, MemoriesAreTyped, Holds
  <1> QED BY <1>1, <1>2, <1>3, <1>4 DEF Next

\* The inductive invariant holds, for every set of instances and of commands.
THEOREM SyncInvariant == Spec => []SyncInv
  BY SyncInit, SyncNext, PTL DEF Spec

LEMMA SyncTypes == SyncInv => TypeOK
  <1> SUFFICES ASSUME SyncInv PROVE TypeOK
    OBVIOUS
  <1>1. /\ row \in [exists : BOOLEAN, live : BOOLEAN, pane : 0..launches]
        /\ row.live => row.exists
    BY DEF SyncInv, RowIsFirst
  <1>2. /\ panes \subseteq 1..launches /\ launches \in 0..MaxLaunch
        /\ cli \in {"idle", "create", "delete", "spawn"} /\ ops \in 0..MaxOps
    BY DEF SyncInv, CountsAgree
  <1>3. teardowns \in 0..MaxOps
    BY Facts DEF SyncInv, CountsAgree
  <1>4. \A i \in Inst : Holds(i)
    BY DEF SyncInv
  <1> QED BY <1>1, <1>2, <1>3, <1>4 DEF SyncInv, MemoriesAreTyped, Holds, TypeOK

\* Every variable keeps its type, and what a poll or a start has still to do
\* is for a session that is not in the list.
THEOREM SyncTypeCorrect == Spec => []TypeOK
  BY SyncTypes, SyncInvariant, PTL

\* No routine write takes a pane from a row that has one.
LEMMA SavedPane ==
    ASSUME NEW r \in [exists : BOOLEAN, live : BOOLEAN, pane : Nat], r.pane # 0, NEW m
    PROVE  Saved(r, m).pane # 0
  <1>1. CASE m > Ghost
    <2>1. m # 0
      BY <1>1 DEF Ghost
    <2> QED BY <1>1, <2>1 DEF Saved
  <1>2. CASE ~(m > Ghost)
    BY <1>2 DEF Saved
  <1> QED BY <1>1, <1>2

\* The window of a command comes before the row of its session: that row
\* records nothing yet.
OpensFirst == cli = "create" => ~row.exists

LEMMA OpensFirstStep ==
    ASSUME SyncInv, OpensFirst, [Next]_vars PROVE OpensFirst'
  <1> DEFINE Rows == [exists : BOOLEAN, live : BOOLEAN, pane : 0..launches]
  <1>1. row \in Rows
    BY DEF SyncInv, RowIsFirst
  <1>2. \A r \in Rows : \A m : Saved(r, m).exists = r.exists
    BY DEF Saved
  <1>3. [row EXCEPT !.live = TRUE] \in Rows /\ [row EXCEPT !.live = FALSE] \in Rows
    BY <1>1
  <1>4. /\ [row EXCEPT !.live = TRUE].exists = row.exists
        /\ [row EXCEPT !.live = FALSE].exists = row.exists
    BY <1>1
  <1>5. ASSUME NEW i \in Inst, Works(i) PROVE cli' = cli /\ row'.exists = row.exists
    BY <1>1, <1>2, <1>5
       DEF Works, Poll, Adopt, AdoptFails, Spawn, SpawnFails, Attach, Claim, Expire
  <1>6. ASSUME NEW i \in Inst, Uses(i)
        PROVE  cli' = cli /\ (row'.exists = row.exists \/ cli # "create")
    <2>1. CASE Undo(i) \/ Restore(i)
      BY <1>1, <1>2, <1>3, <1>4, <2>1 DEF Undo, Restore, Undone
    <2>2. CASE Create(i)
      BY <2>2 DEF Create
    <2>3. CASE \/ Delete(i) \/ HardDelete(i) \/ OpenPicker(i) \/ Restart(i)
               \/ Unload(i) \/ Save(i) \/ Quit(i) \/ Crash(i) \/ Start(i)
      BY <1>1, <1>2, <1>4, <2>3 DEF Delete, HardDelete, OpenPicker, Restart, Unload, Save,
                                     Quit, Crash, Start
    <2> QED BY <1>6, <2>1, <2>2, <2>3 DEF Uses
  <1>7. ASSUME Commands \/ Teardown \/ UNCHANGED vars PROVE OpensFirst'
    <2>1. CASE CliOpen \/ CliRecord \/ CliStops
      BY <2>1 DEF CliOpen, CliRecord, CliStops, OpensFirst
    <2>2. CASE \/ CliDelete \/ CliKill \/ CliForced \/ CliRestarted \/ CliRestore \/ Touch
               \/ Teardown \/ UNCHANGED vars
      BY <1>4, <2>2 DEF CliDelete, CliKill, CliForced, CliRestarted, CliRestore, Touch,
                        Teardown, vars, OpensFirst
    <2> QED BY <1>7, <2>1, <2>2 DEF Commands
  <1> QED BY <1>5, <1>6, <1>7 DEF Next, OpensFirst

LEMMA PaneStep ==
    ASSUME SyncInv, OpensFirst, [Next]_vars, row.pane # 0 PROVE row'.pane # 0
  <1> DEFINE Recorded == [exists : BOOLEAN, live : BOOLEAN, pane : Nat]
             r        == [row EXCEPT !.live = TRUE]
             gone     == [row EXCEPT !.live = FALSE]
  <1>1. row \in Recorded /\ row.exists
    BY Facts DEF SyncInv, RowIsFirst, CountsAgree
  <1>2. r \in Recorded /\ r.pane # 0 /\ gone \in Recorded /\ gone.pane # 0
    BY <1>1
  <1>3. \A m : Saved(row, m).pane # 0 /\ Saved(r, m).pane # 0
    BY <1>1, <1>2, SavedPane
  <1>4. ASSUME NEW i \in Inst, Works(i) PROVE row' = row \/ \E m : row' = Saved(row, m)
    BY <1>4 DEF Works, Poll, Adopt, AdoptFails, Spawn, SpawnFails, Attach, Claim, Expire
  <1>5. ASSUME NEW i \in Inst, Uses(i)
        PROVE  row' \in {row, r, gone} \/ \E m : row' = Saved(row, m) \/ row' = Saved(r, m)
    <2>1. CASE Undo(i) \/ Restore(i)
      BY <2>1 DEF Undo, Restore, Undone
    <2>2. CASE \/ Create(i) \/ Delete(i) \/ HardDelete(i) \/ OpenPicker(i) \/ Restart(i)
               \/ Unload(i) \/ Save(i) \/ Quit(i) \/ Crash(i) \/ Start(i)
      BY <1>1, <2>2 DEF Create, Delete, HardDelete, OpenPicker, Restart, Unload, Save, Quit,
                        Crash, Start
    <2> QED BY <1>5, <2>1, <2>2 DEF Uses
  <1>6. ASSUME Commands \/ Teardown \/ UNCHANGED vars PROVE row' \in {row, r, gone}
    <2>1. ~CliRecord
      BY <1>1 DEF CliRecord, OpensFirst
    <2> QED BY <1>1, <1>6, <2>1 DEF Commands, CliOpen, CliStops, CliDelete, CliKill,
               CliForced, CliRestarted, CliRestore, Touch, Teardown, vars
  <1> HIDE DEF r, gone
  <1> QED BY <1>2, <1>3, <1>4, <1>5, <1>6 DEF Next

\* A recorded pane is never lost to an instance that has none to record, for
\* every number of instances and whatever is done or fails: save_state skips
\* the placeholders, and a delete and a restore touch only the mark.
THEOREM RecordedPaneIsKept == Spec => PaneIsKept
  <1>1. Init => OpensFirst
    BY DEF Init, OpensFirst
  <1>2. SyncInv /\ OpensFirst /\ [Next]_vars => OpensFirst'
    BY OpensFirstStep
  <1>3. SyncInv /\ OpensFirst /\ [Next]_vars => [row.pane # 0 => row'.pane # 0]_vars
    BY PaneStep
  <1> QED BY <1>1, <1>2, <1>3, SyncInvariant, PTL DEF Spec, PaneIsKept
-----------------------------------------------------------------------------
(* One agent *)

\* One friring beside a command line that does not restart, and windows that
\* are found and let themselves be taken over.  Nothing is restored by hand:
\* a pane that was kept for an undo is not the one the list would get.
OneFriring ==
    /\ \A i, j \in Inst : i = j
    /\ "undo" \notin TuiOps /\ "restore" \notin TuiOps /\ "restart" \notin CliOps
    /\ Faults \subseteq {"spawn", "reads"}

\* What an instance is about to do, and what it lists, agrees with the windows:
\* it launches when there is none, it found the one there is, and its ghost is
\* of none.
Fits(i) ==
    /\ job[i].do \in {"spawn", "respawn"} => panes = {}
    /\ job[i].do = "attach" => panes \subseteq {job[i].pane}
    /\ mem[i] = Ghost => panes = {}

\* No second window, and none before there is a row but the one of a command
\* that is about to write it.
OneWindow ==
    /\ \A p, q \in panes : p = q
    /\ ~row.exists /\ cli # "create" => panes = {}

AgentInv ==
    SyncInv /\ OpensFirst /\ OneWindow /\ cli # "spawn" /\ \A i \in Inst : Fits(i)

LEMMA AgentInit == Init => AgentInv
  <1> SUFFICES ASSUME Init PROVE AgentInv
    OBVIOUS
  <1>1. SyncInv
    BY SyncInit
  <1>2. OpensFirst /\ OneWindow /\ cli # "spawn"
    BY DEF Init, OpensFirst, OneWindow, NoRow
  <1>3. \A i \in Inst : Fits(i)
    BY DEF Init, Fits
  <1> QED BY <1>1, <1>2, <1>3 DEF AgentInv

\* A launch into no window.
LEMMA FirstWindow ==
    ASSUME NEW ps, ps = {}, Launch(ps)
    PROVE  panes' # {} /\ \A p, q \in panes' : p = q
  BY DEF Launch

\* A step that opens no window, and leaves to every instance a list and a job
\* that fit.
LEMMA Shrinks ==
    ASSUME AgentInv, panes' \subseteq panes, row'.exists = row.exists, cli' = cli,
           \A i \in Inst : Fits(i)'
    PROVE  OneWindow' /\ cli' # "spawn" /\ \A i \in Inst : Fits(i)'
  BY DEF AgentInv, OneWindow

LEMMA SavedExists ==
    ASSUME SyncInv
    PROVE  /\ \A m : Saved(row, m).exists = row.exists
           /\ [row EXCEPT !.live = FALSE].exists = row.exists
           /\ [row EXCEPT !.live = TRUE].exists = row.exists
  <1>1. row \in [exists : BOOLEAN, live : BOOLEAN, pane : 0..launches]
    BY DEF SyncInv, RowIsFirst
  <1> QED BY <1>1 DEF Saved

\* A look at the server brings the one window there is, or none.
LEMMA FoundOne ==
    ASSUME OneFriring, AgentInv, NEW p \in Found
    PROVE  panes \subseteq {p} /\ (p = Ghost => panes = {})
  <1>1. "discover" \notin Faults
    BY DEF OneFriring
  <1>2. Match = {} => panes = {}
    BY DEF Match
  <1>3. panes \subseteq 1..launches /\ launches \in Nat /\ Match \subseteq panes
    BY DEF AgentInv, SyncInv, CountsAgree, Match
  <1>4. CASE Match = {}
    BY <1>2, <1>4
  <1>5. CASE Match # {}
    <2>1. p \in panes
      BY <1>1, <1>3, <1>5 DEF Found
    <2>2. p # Ghost
      BY <1>3, <2>1 DEF Ghost
    <2> QED BY <2>1, <2>2 DEF AgentInv, OneWindow
  <1> QED BY <1>4, <1>5

LEMMA LookAgent ==
    ASSUME OneFriring, AgentInv, NEW i \in Inst, Poll(i) \/ Start(i)
    PROVE  OneWindow' /\ cli' # "spawn" /\ \A j \in Inst : Fits(j)'
  <1>1. UNCHANGED <<panes, row, cli>>
    BY DEF Poll, Start
  <1>2. /\ \A j \in Inst : j = i
        /\ job \in [Inst -> Job] /\ mem \in [Inst -> Unlisted..launches] /\ launches \in Nat
    BY DEF OneFriring, AgentInv, SyncInv, MemoriesAreTyped, CountsAgree
  <1>3. mem'[i] = Ghost => mem[i] = Ghost
    BY <1>2 DEF Poll, Start, Unlisted, Ghost
  <1>4. \/ job' = job \/ job' = [job EXCEPT ![i] = Idle]
        \/ \E p \in Found : job' = [job EXCEPT ![i] =
              IF p = Ghost THEN Todo("spawn") ELSE [do |-> "adopt", pane |-> p]]
        \/ \E p \in Found : job' = [job EXCEPT ![i] = [do |-> "attach", pane |-> p]]
    BY DEF Poll, Learn, Added, Start
  <1> DEFINE Agrees == /\ job'[i].do \in {"spawn", "respawn"} => panes = {}
                       /\ job'[i].do = "attach" => panes \subseteq {job'[i].pane}
  <1>5. Agrees
    <2>1. CASE job' = job
      BY <2>1 DEF AgentInv, Fits
    <2>2. CASE job' = [job EXCEPT ![i] = Idle]
      BY <1>2, <2>2, Facts
    <2>3. ASSUME NEW p \in Found, job' = [job EXCEPT ![i] =
              IF p = Ghost THEN Todo("spawn") ELSE [do |-> "adopt", pane |-> p]]
          PROVE  Agrees
      BY <1>2, <2>3, FoundOne, Facts
    <2>4. ASSUME NEW p \in Found, job' = [job EXCEPT ![i] = [do |-> "attach", pane |-> p]]
          PROVE  Agrees
      BY <1>2, <2>4, FoundOne
    <2> QED BY <1>4, <2>1, <2>2, <2>3, <2>4
  <1>6. Fits(i)'
    BY <1>1, <1>3, <1>5 DEF AgentInv, Fits
  <1> QED BY <1>1, <1>2, <1>6, Shrinks

\* What was found is taken over; what was to be launched is the only window.
LEMMA WorkAgent ==
    ASSUME OneFriring, AgentInv, NEW i \in Inst,
           Adopt(i) \/ AdoptFails(i) \/ SpawnFails(i) \/ Attach(i) \/ Claim(i) \/ Expire(i)
    PROVE  OneWindow' /\ cli' # "spawn" /\ \A j \in Inst : Fits(j)'
  <1> USE Facts
  <1>1. panes' \subseteq panes /\ cli' = cli /\ row'.exists = row.exists
    BY SavedExists DEF Adopt, AdoptFails, SpawnFails, Attach, Claim, Expire, WithoutPane, AgentInv
  <1>2. /\ \A j \in Inst : j = i
        /\ job \in [Inst -> Job] /\ mem \in [Inst -> Unlisted..launches]
        /\ panes \subseteq 1..launches /\ launches \in Nat /\ Fits(i)
    BY DEF OneFriring, AgentInv, SyncInv, MemoriesAreTyped, CountsAgree
  <1>3. CASE Adopt(i)
    <2>1. mem'[i] \in panes /\ job'[i] = Idle
      BY <1>2, <1>3 DEF Adopt
    <2>2. mem'[i] # Ghost
      BY <1>2, <2>1
    <2> QED BY <1>1, <1>2, <2>1, <2>2, Shrinks DEF Fits
  <1>4. CASE AdoptFails(i) \/ SpawnFails(i) \/ Claim(i)
    <2>1. mem' = mem /\ panes' = panes
      BY <1>4 DEF AdoptFails, SpawnFails, Claim
    <2>2. job'[i] \in {Idle, Missed, Todo("claim")}
      BY <1>2, <1>4 DEF AdoptFails, SpawnFails, Claim
    <2>3. job'[i].do \in {"idle", "missed", "claim"}
      BY <2>2
    <2> QED BY <1>1, <1>2, <2>1, <2>3, Shrinks DEF Fits
  <1>5. CASE Attach(i)
    <2>1. panes \subseteq {job[i].pane} /\ panes' = panes /\ "adopt" \notin Faults
      BY <1>2, <1>5 DEF Attach, Fits, OneFriring
    <2>2. CASE job[i].pane \in panes
      <3>1. mem'[i] = job[i].pane /\ job'[i] = Todo("claim")
        BY <1>2, <1>5, <2>1, <2>2 DEF Attach, CannotAdopt
      <3>2. mem'[i] # Ghost /\ job'[i].do = "claim"
        BY <1>2, <2>2, <3>1
      <3> QED BY <1>1, <1>2, <3>2, Shrinks DEF Fits
    <2>3. CASE job[i].pane \notin panes
      <3>1. panes' = {}
        BY <2>1, <2>3
      <3>2. Fits(i)'
        BY <3>1 DEF Fits
      <3> QED BY <1>1, <1>2, <3>2, Shrinks
    <2> QED BY <2>2, <2>3
  <1>6. CASE Expire(i)
    <2>1. mem' = mem /\ job' = job
      BY <1>6 DEF Expire
    <2> QED BY <1>1, <1>2, <2>1, Shrinks DEF Fits
  <1> QED BY <1>3, <1>4, <1>5, <1>6

LEMMA SpawnAgent ==
    ASSUME OneFriring, AgentInv, NEW i \in Inst, Spawn(i)
    PROVE  OneWindow' /\ cli' # "spawn" /\ \A j \in Inst : Fits(j)'
  <1> USE Facts
  <1>1. /\ \A j \in Inst : j = i
        /\ job \in [Inst -> Job] /\ mem \in [Inst -> Unlisted..launches]
        /\ launches \in Nat /\ Fits(i) /\ Holds(i)
    BY DEF OneFriring, AgentInv, SyncInv, MemoriesAreTyped, CountsAgree
  <1>2. panes = {} /\ row.exists
    BY <1>1 DEF Spawn, Fits, Holds
  <1>3. row'.exists /\ cli' = cli /\ \A p, q \in panes' : p = q
    BY <1>2, SavedExists, FirstWindow DEF Spawn, AgentInv
  <1>4. job'[i] \in {Todo("claim"), Idle} /\ mem'[i] = Launched
    BY <1>1 DEF Spawn
  <1>5. job'[i].do \in {"claim", "idle"} /\ mem'[i] # Ghost
    BY <1>1, <1>4 DEF Launched
  <1> QED BY <1>1, <1>3, <1>5 DEF OneWindow, Fits, AgentInv

\* A session is created where there is no window of its name.
LEMMA CreateAgent ==
    ASSUME OneFriring, AgentInv, CliOpen \/ CliRecord \/ \E i \in Inst : Create(i)
    PROVE  OneWindow' /\ cli' # "spawn" /\ \A j \in Inst : Fits(j)'
  <1> USE Facts
  <1>1. ~row.exists /\ \A j \in Inst : mem[j] = Unlisted /\ job[j] = Idle
    BY DEF CliOpen, CliRecord, Create, AgentInv, OpensFirst, SyncInv, Holds
  <1>2. CASE CliRecord
    <2>1. UNCHANGED <<panes, mem, job>> /\ row'.exists /\ cli' = "idle"
      BY <1>2 DEF CliRecord
    <2> QED BY <1>1, <2>1 DEF AgentInv, OneWindow, Fits
  <1>3. CASE CliOpen
    <2>1. panes = {} /\ Launch(panes) /\ cli' = "create" /\ UNCHANGED <<mem, job>>
      BY <1>1, <1>3 DEF CliOpen, AgentInv, OneWindow
    <2>2. \A p, q \in panes' : p = q
      BY <2>1, FirstWindow
    <2> QED BY <1>1, <2>1, <2>2 DEF OneWindow, Fits
  <1>4. ASSUME NEW i \in Inst, Create(i) PROVE OneWindow' /\ cli' # "spawn" /\ \A j \in Inst : Fits(j)'
    <2>1. panes = {} /\ Launch(panes) /\ row'.exists /\ cli' = cli /\ job' = job
      BY <1>1, <1>4 DEF Create, AgentInv, OneWindow
    <2>2. \A p, q \in panes' : p = q
      BY <2>1, FirstWindow
    <2>3. mem'[i] # Ghost
      BY <1>4 DEF Create, Launched, AgentInv, SyncInv, MemoriesAreTyped, CountsAgree
    <2>4. \A j \in Inst : j = i
      BY DEF OneFriring
    <2> QED BY <1>1, <2>1, <2>2, <2>3, <2>4 DEF AgentInv, OneWindow, Fits
  <1> QED BY <1>2, <1>3, <1>4

\* A user who deletes, unloads or leaves takes windows away; a restart launches
\* once the window is gone.
LEMMA UserAgent ==
    ASSUME OneFriring, AgentInv, NEW i \in Inst,
           \/ Delete(i) \/ HardDelete(i) \/ OpenPicker(i) \/ Restart(i) \/ Unload(i)
           \/ Save(i) \/ Quit(i) \/ Crash(i)
    PROVE  OneWindow' /\ cli' # "spawn" /\ \A j \in Inst : Fits(j)'
  <1> USE Facts
  <1>1. panes' \subseteq panes /\ cli' = cli /\ row'.exists = row.exists
    <2>1. panes' \subseteq panes /\ cli' = cli
      BY DEF Delete, HardDelete, OpenPicker, Restart, Unload, Save, Quit, Crash, WithoutPane
    <2>2. \/ row' = row \/ row' = [row EXCEPT !.live = FALSE] \/ row' = Saved(row, mem[i])
      BY DEF Delete, HardDelete, OpenPicker, Restart, Unload, Save, Quit, Crash
    <2>3. row'.exists = row.exists
      <3>1. /\ \A m : Saved(row, m).exists = row.exists
            /\ [row EXCEPT !.live = FALSE].exists = row.exists
        BY SavedExists DEF AgentInv
      <3>2. CASE row' = Saved(row, mem[i])
        BY <3>1, <3>2
      <3>3. CASE row' = [row EXCEPT !.live = FALSE]
        BY <3>1, <3>3
      <3> QED BY <2>2, <3>2, <3>3
    <2> QED BY <2>1, <2>3
  <1>2. /\ \A j \in Inst : j = i
        /\ job \in [Inst -> Job] /\ mem \in [Inst -> Unlisted..launches]
        /\ panes \subseteq 1..launches /\ launches \in Nat /\ Fits(i)
        /\ \A p, q \in panes : p = q
    BY DEF OneFriring, AgentInv, SyncInv, MemoriesAreTyped, CountsAgree, OneWindow
  <1>3. CASE Delete(i) \/ HardDelete(i) \/ Quit(i) \/ Crash(i)
    <2>1. mem'[i] = Unlisted /\ job'[i] \in {job[i], Idle}
      BY <1>2, <1>3 DEF Delete, HardDelete, Quit, Crash, Down
    <2>2. Fits(i)'
      BY <1>1, <1>2, <2>1 DEF Fits
    <2> QED BY <1>1, <1>2, <2>2, Shrinks
  <1>4. CASE OpenPicker(i) \/ Save(i)
    <2>1. mem' = mem /\ job' = job /\ panes' = panes
      BY <1>4 DEF OpenPicker, Save
    <2> QED BY <1>1, <1>2, <2>1, Shrinks DEF Fits
  <1>5. CASE Restart(i)
    <2>1. panes' = {}
      <3>1. mem[i] \in panes \/ panes = {}
        BY <1>2, <1>5 DEF Restart, Fits
      <3>2. \A p \in panes : p = mem[i]
        BY <1>2, <3>1
      <3>3. panes' = panes \ {mem[i]}
        BY <1>5 DEF Restart, WithoutPane
      <3> QED BY <3>2, <3>3
    <2>2. Fits(i)'
      BY <2>1 DEF Fits
    <2> QED BY <1>1, <1>2, <2>2, Shrinks
  <1>6. CASE Unload(i)
    <2>1. job' = job /\ mem[i] # Ghost
      BY <1>6 DEF Unload
    <2>2. mem'[i] = Ghost => panes' = {}
      <3>1. mem'[i] = Ghost => mem[i] \in panes
        BY <1>2, <1>6, <2>1 DEF Unload
      <3>2. panes' = panes \ {mem[i]}
        BY <1>6 DEF Unload, WithoutPane
      <3> QED BY <1>2, <3>1, <3>2
    <2>3. Fits(i)'
      BY <1>1, <1>2, <2>1, <2>2 DEF Fits
    <2> QED BY <1>1, <1>2, <2>3, Shrinks
  <1> QED BY <1>3, <1>4, <1>5, <1>6

LEMMA OtherAgent ==
    ASSUME OneFriring, AgentInv,
           CliDelete \/ CliKill \/ CliForced \/ CliRestore \/ Touch \/ Teardown
    PROVE  OneWindow' /\ cli' # "spawn" /\ \A j \in Inst : Fits(j)'
  <1>1. panes' \subseteq panes /\ row'.exists = row.exists /\ mem' = mem /\ job' = job
    BY SavedExists DEF CliDelete, CliKill, CliForced, CliRestore, Touch, Teardown, WithoutWindow,
                       AgentInv
  <1>2. cli' = cli \/ (cli # "create" /\ cli' \in {"delete", "idle"})
    BY DEF CliDelete, CliKill, CliForced, CliRestore, Touch, Teardown, Op, OneFriring
  <1>3. \A j \in Inst : Fits(j)'
    BY <1>1 DEF AgentInv, Fits
  <1> QED BY <1>1, <1>2, <1>3 DEF AgentInv, OneWindow

LEMMA AgentNext ==
    ASSUME OneFriring PROVE AgentInv /\ [Next]_vars => AgentInv'
  <1> SUFFICES ASSUME AgentInv, [Next]_vars PROVE AgentInv'
    OBVIOUS
  <1>1. SyncInv' /\ OpensFirst'
    BY SyncNext, OpensFirstStep DEF AgentInv
  <1> DEFINE Goal == OneWindow' /\ cli' # "spawn" /\ \A j \in Inst : Fits(j)'
  <1>2. ASSUME NEW i \in Inst, Works(i) PROVE Goal
    BY <1>2, LookAgent, WorkAgent, SpawnAgent DEF Works
  <1>3. ASSUME NEW i \in Inst, Uses(i) PROVE Goal
    <2>1. ~Undo(i) /\ ~Restore(i)
      BY DEF Undo, Restore, Op, OneFriring
    <2> QED BY <1>3, <2>1, CreateAgent, UserAgent, LookAgent DEF Uses
  <1>4. ASSUME Commands \/ Teardown PROVE Goal
    <2>1. ~CliRestarted /\ ~CliStops
      BY DEF CliRestarted, CliStops, OneFriring, AgentInv
    <2> QED BY <1>4, <2>1, CreateAgent, OtherAgent DEF Commands
  <1>5. CASE UNCHANGED vars
    BY <1>1, <1>5 DEF vars, AgentInv, OneWindow, Fits
  <1> QED BY <1>1, <1>2, <1>3, <1>4, <1>5 DEF Next, AgentInv

\* Beside one friring, whatever is deleted, killed, unloaded, restarted,
\* crashed and restored by the command line, a session never has two agents:
\* each launch is of a window that was looked for and was not there.
THEOREM SessionHasOneAgent ==
    ASSUME OneFriring PROVE Spec => []OneAgent
  <1>1. AgentInv => OneAgent
    <2> SUFFICES ASSUME AgentInv PROVE OneAgent
      OBVIOUS
    <2>1. panes = {} \/ \E p \in panes : panes = {p}
      BY DEF AgentInv, OneWindow
    <2>2. \A p : Cardinality({p}) = 1
      BY FS_Singleton
    <2>3. Cardinality({}) = 0
      BY FS_EmptySet
    <2> QED BY <2>1, <2>2, <2>3 DEF OneAgent
  <1> QED BY <1>1, AgentInit, AgentNext, PTL DEF Spec
=============================================================================
