---------------------------- MODULE SessionSync ----------------------------
(***************************************************************************)
(* One session in the database and every friring instance's own list of    *)
(* sessions (sync/, storage/sessions.rs, app/mod.rs).  Instances and the   *)
(* command line meet only in the row and in the tmux server.  An instance  *)
(* polls: when another connection wrote, it compares the rows with the     *)
(* snapshot of its last poll, drops what went and adopts or launches what  *)
(* came.  It writes its whole list back after whatever it does, and it     *)
(* keeps the pane of a session it deleted until its undo runs out.  What   *)
(* it asks of tmux may fail: it is told of no window, cannot take one over *)
(* or cannot launch, and goes on without.                                  *)
(*                                                                         *)
(* Every launch of the agent makes a window of the same name; launches are *)
(* numbered, and their numbers are the pane ids.                           *)
(***************************************************************************)
EXTENDS Integers, FiniteSets

CONSTANTS
    Inst,       \* friring instances
    TuiOps,     \* what their users do
    CliOps,     \* what the command line does
    Faults,     \* what may go wrong
    Lazy,       \* lazy_session_restore: a start launches nothing
    MaxOps,     \* bound: both together
    MaxLaunch   \* bound: agents launched

ASSUME SyncAssumption ==
    /\ MaxOps \in Nat /\ MaxLaunch \in Nat
    /\ TuiOps \subseteq {"create", "delete", "hard", "undo", "restore", "restart",
                         "unload", "save", "quit", "crash", "start"}
    /\ CliOps \subseteq {"create", "delete", "force", "restore", "restart", "touch"}
    /\ Faults \subseteq {"discover", "adopt", "spawn", "reads", "die"}
    /\ Lazy \in BOOLEAN

Unlisted == -1
Ghost    == 0       \* listed, with no agent of its own

VARIABLES
    row,       \* the sessions row
    panes,     \* the windows of its name that have an agent
    up,        \* instances that run
    mem,       \* instance |-> Unlisted, Ghost, or the pane it drives
    undo,      \* instance |-> its pending delete, as mem
    known,     \* instance |-> its snapshot lists the row
    dirty,     \* instance |-> data_version moved since it last looked
    job,       \* instance |-> what it found and has not acted on
    picker,    \* instance |-> its restore list shows the row
    teardowns, \* background teardowns of hard deletes
    cli,       \* a command between its two steps
    launches, ops

vars == <<row, panes, up, mem, undo, known, dirty, job, picker, teardowns, cli, launches, ops>>

Todo(what) == [do |-> what, pane |-> Ghost]
Idle   == Todo("idle")
\* Nothing more to do: the session is known, and it was not taken over.
Missed == Todo("missed")

Job == [do : {"idle", "missed", "adopt", "spawn", "attach", "respawn", "claim"},
        pane : 0..MaxLaunch]

\* backend_id: empty until an instance recorded the pane.
NoRow == [exists |-> FALSE, live |-> FALSE, pane |-> 0]

Free(i) == up[i] /\ job[i] \in {Idle, Missed}

-----------------------------------------------------------------------------
(* The row and the windows *)

\* Mutant: placeholders are written back too.
SavedAnyway(r, m) == IF m >= Ghost THEN [r EXCEPT !.live = TRUE, !.pane = m] ELSE r

\* save_state over session m: the whole row, deleted_at = NULL included;
\* placeholders are not written.
Saved(r, m) == IF m > Ghost THEN [r EXCEPT !.live = TRUE, !.pane = m] ELSE r

\* A commit by i shows in every other connection's data_version.
WroteBy(i) == dirty' = [j \in Inst |-> IF j = i THEN dirty[j] ELSE up[j]]
WroteOutside == dirty' = up

\* kill-pane.
WithoutPane(ps, p) == ps \ {p}
\* kill-window by name: a name two windows have names none of them.
WithoutWindow(ps) == IF Cardinality(ps) = 1 THEN {} ELSE ps

Launched == launches + 1
Launch(ps) ==
    /\ launches < MaxLaunch
    /\ launches' = Launched
    /\ panes' = ps \cup {Launched}

\* find_matching_discovered: a window of this name, the recorded pane first.
Match == IF row.pane \in panes THEN {row.pane} ELSE panes

\* ready_and_discover: a server that does not answer has no windows.  Ghost
\* stands for none.
Found == IF Match = {} THEN {Ghost}
         ELSE IF "discover" \in Faults THEN Match \cup {Ghost} ELSE Match

Op(set, o) == o \in set /\ ops < MaxOps /\ ops' = ops + 1

-----------------------------------------------------------------------------
(* The poll *)

\* What a poll does about a session it did not know: take over a window of
\* its name, or launch one.
Added(i) ==
    \E p \in Found : job' = [job EXCEPT ![i] =
        IF p = Ghost THEN Todo("spawn") ELSE [do |-> "adopt", pane |-> p]]

\* The delta, for a session that is not in the list; one it missed it misses
\* until the row has gone.
Learn(i) ==
    IF ~known[i] /\ row.live /\ mem[i] = Unlisted THEN Added(i)
    ELSE job' = IF row.live THEN job ELSE [job EXCEPT ![i] = Idle]

\* Mutant: a session that went is only forgotten by the snapshot.
PollKeeps(i) ==
    /\ Free(i) /\ dirty[i]
    /\ dirty' = [dirty EXCEPT ![i] = FALSE]
    /\ known' = [known EXCEPT ![i] = row.live]
    /\ Learn(i)
    /\ UNCHANGED <<row, panes, up, mem, undo, picker, teardowns, cli, launches, ops>>

\* Mutant: what the poll applied is written back.
PollSaves(i) ==
    /\ Free(i) /\ dirty[i]
    /\ dirty' = [j \in Inst |-> IF j = i THEN FALSE ELSE up[j]]
    /\ known' = [known EXCEPT ![i] = row.live]
    /\ mem' = IF known[i] /\ ~row.live THEN [mem EXCEPT ![i] = Unlisted] ELSE mem
    /\ row' = Saved(row, mem'[i])
    /\ Learn(i)
    /\ UNCHANGED <<panes, up, undo, picker, teardowns, cli, launches, ops>>

\* Mutant: a session the snapshot lacks is taken for new, listed or not.
PollAgain(i) ==
    /\ Free(i) /\ dirty[i]
    /\ dirty' = [dirty EXCEPT ![i] = FALSE]
    /\ known' = [known EXCEPT ![i] = row.live]
    /\ mem' = IF known[i] /\ ~row.live THEN [mem EXCEPT ![i] = Unlisted] ELSE mem
    /\ IF ~known[i] /\ row.live THEN Added(i) ELSE UNCHANGED job
    /\ UNCHANGED <<row, panes, up, undo, picker, teardowns, cli, launches, ops>>

\* poll_external_changes: nothing without a foreign commit.  An update of a
\* session that is listed brings its name and the like, never its pane.
Poll(i) ==
    /\ Free(i) /\ dirty[i]
    /\ dirty' = [dirty EXCEPT ![i] = FALSE]
    /\ known' = [known EXCEPT ![i] = row.live]
    /\ mem' = IF known[i] /\ ~row.live THEN [mem EXCEPT ![i] = Unlisted] ELSE mem
    /\ Learn(i)
    /\ UNCHANGED <<row, panes, up, undo, picker, teardowns, cli, launches, ops>>

\* The window that was found is taken over and its pane recorded.
Adopt(i) ==
    /\ up[i] /\ job[i].do = "adopt"
    /\ job[i].pane \in panes
    /\ job' = [job EXCEPT ![i] = Idle]
    /\ mem' = [mem EXCEPT ![i] = job[i].pane]
    /\ row' = Saved(row, job[i].pane)
    /\ WroteBy(i)
    /\ UNCHANGED <<panes, up, undo, known, picker, teardowns, cli, launches, ops>>

CannotAdopt(p) == p \notin panes \/ "adopt" \in Faults

\* A window that has gone, or does not let itself be taken over: the snapshot
\* has the session already, and nothing is tried again.
AdoptFails(i) ==
    /\ up[i] /\ job[i].do = "adopt"
    /\ CannotAdopt(job[i].pane)
    /\ job' = [job EXCEPT ![i] = Missed]
    /\ UNCHANGED <<row, panes, up, mem, undo, known, dirty, picker, teardowns, cli, launches, ops>>

\* None was found, or the one there was killed for a restart.
Spawn(i) ==
    /\ up[i] /\ job[i].do \in {"spawn", "respawn"}
    /\ Launch(panes)
    /\ job' = [job EXCEPT ![i] = IF job[i].do = "respawn" THEN Todo("claim") ELSE Idle]
    /\ mem' = [mem EXCEPT ![i] = Launched]
    /\ row' = Saved(row, Launched)
    /\ WroteBy(i)
    /\ UNCHANGED <<up, undo, known, picker, teardowns, cli, ops>>

\* No profile, no server, no window: the error is shown, and a session that
\* was restarted stays in the list with the pane it had.
SpawnFails(i) ==
    /\ up[i] /\ job[i].do \in {"spawn", "respawn"} /\ "spawn" \in Faults
    /\ job' = [job EXCEPT ![i] = IF job[i].do = "respawn" THEN Todo("claim")
                                ELSE IF mem[i] = Unlisted THEN Missed ELSE Idle]
    /\ UNCHANGED <<row, panes, up, mem, undo, known, dirty, picker, teardowns, cli, launches, ops>>

-----------------------------------------------------------------------------
(* What the user of an instance does *)

\* A launch that fails leaves nothing.
Create(i) ==
    /\ Free(i) /\ ~row.exists /\ cli # "create" /\ Op(TuiOps, "create")
    /\ Launch(panes)
    /\ mem' = [mem EXCEPT ![i] = Launched]
    /\ row' = [exists |-> TRUE, live |-> TRUE, pane |-> Launched]
    /\ WroteBy(i)
    /\ UNCHANGED <<up, undo, known, job, picker, teardowns, cli>>

\* close_active_session: out of the list, its pane kept for the undo; an
\* earlier pending delete is finalized.
Delete(i) ==
    /\ Free(i) /\ mem[i] # Unlisted /\ Op(TuiOps, "delete")
    /\ row' = [row EXCEPT !.live = FALSE]
    /\ panes' = WithoutPane(panes, undo[i])
    /\ undo' = [undo EXCEPT ![i] = mem[i]]
    /\ mem' = [mem EXCEPT ![i] = Unlisted]
    /\ WroteBy(i)
    /\ UNCHANGED <<up, known, job, picker, teardowns, cli, launches>>

\* confirm_hard_delete_session: its pane at once, the window of that name and
\* the worktrees in the background, if the row was still there.
HardDelete(i) ==
    /\ Free(i) /\ mem[i] # Unlisted /\ Op(TuiOps, "hard")
    /\ row' = [row EXCEPT !.live = FALSE]
    /\ teardowns' = teardowns + (IF row.live THEN 1 ELSE 0)
    /\ panes' = WithoutPane(panes, mem[i])
    /\ mem' = [mem EXCEPT ![i] = Unlisted]
    /\ WroteBy(i)
    /\ UNCHANGED <<up, undo, known, job, picker, cli, launches>>

Teardown ==
    /\ teardowns > 0
    /\ teardowns' = teardowns - 1
    /\ panes' = WithoutWindow(panes)
    /\ UNCHANGED <<row, up, mem, undo, known, dirty, job, picker, cli, launches, ops>>

\* finalize_pending_delete, by the timer: the row is not looked at.
Expire(i) ==
    /\ Free(i) /\ undo[i] # Unlisted
    /\ panes' = WithoutPane(panes, undo[i])
    /\ undo' = [undo EXCEPT ![i] = Unlisted]
    /\ UNCHANGED <<row, up, mem, known, dirty, job, picker, teardowns, cli, launches, ops>>

\* undo_delete: a session another instance brought back stays as it is listed.
Undone(i) ==
    LET m == IF mem[i] # Unlisted THEN mem[i] ELSE undo[i]
    IN /\ mem' = [mem EXCEPT ![i] = m]
       /\ row' = Saved([row EXCEPT !.live = TRUE], m)
       /\ undo' = [undo EXCEPT ![i] = Unlisted]
       /\ WroteBy(i)

Undo(i) ==
    /\ Free(i) /\ undo[i] # Unlisted /\ Op(TuiOps, "undo")
    /\ Undone(i)
    /\ UNCHANGED <<panes, up, known, job, picker, teardowns, cli, launches>>

\* The list of deleted sessions is a copy.
OpenPicker(i) ==
    /\ Free(i) /\ ~picker[i] /\ "restore" \in TuiOps /\ row.exists /\ ~row.live
    /\ picker' = [picker EXCEPT ![i] = TRUE]
    /\ UNCHANGED <<row, panes, up, mem, undo, known, dirty, job, teardowns, cli, launches, ops>>

\* restore_deleted_session: the undo's session, the one that is listed, or a
\* new agent, whatever window the name has.  The row is restored before the
\* launch, and stays so when that fails.
Restore(i) ==
    /\ Free(i) /\ picker[i] /\ Op(TuiOps, "restore")
    /\ picker' = [picker EXCEPT ![i] = FALSE]
    /\ \/ /\ undo[i] # Unlisted
          /\ Undone(i)
          /\ UNCHANGED <<panes, launches>>
       \/ /\ undo[i] = Unlisted /\ mem[i] # Unlisted
          /\ row' = [row EXCEPT !.live = TRUE]
          /\ WroteBy(i)
          /\ UNCHANGED <<mem, undo, panes, launches>>
       \/ /\ undo[i] = Unlisted /\ mem[i] = Unlisted
          /\ Launch(panes)
          /\ mem' = [mem EXCEPT ![i] = Launched]
          /\ row' = Saved([row EXCEPT !.live = TRUE], Launched)
          /\ WroteBy(i)
          /\ UNCHANGED undo
       \/ /\ undo[i] = Unlisted /\ mem[i] = Unlisted /\ "spawn" \in Faults
          /\ row' = [row EXCEPT !.live = TRUE]
          /\ WroteBy(i)
          /\ UNCHANGED <<mem, undo, panes, launches>>
    /\ UNCHANGED <<up, known, job, teardowns, cli>>

\* restart_active_session: kill, then spawn; a pane that cannot be killed
\* keeps its session.  A ghost has none, and is loaded.
Restart(i) ==
    /\ Free(i) /\ Op(TuiOps, "restart")
    /\ mem[i] \in panes \cup {Ghost}
    /\ panes' = WithoutPane(panes, mem[i])
    /\ job' = [job EXCEPT ![i] = Todo("spawn")]
    /\ UNCHANGED <<row, up, mem, undo, known, dirty, picker, teardowns, cli, launches>>

\* unload_active_session saves, then kills: a failed kill changes nothing more.
Unload(i) ==
    /\ Free(i) /\ mem[i] > Ghost /\ Op(TuiOps, "unload")
    /\ row' = Saved(row, mem[i])
    /\ WroteBy(i)
    /\ panes' = WithoutPane(panes, mem[i])
    /\ mem' = IF mem[i] \in panes THEN [mem EXCEPT ![i] = Ghost] ELSE mem
    /\ UNCHANGED <<up, undo, known, job, picker, teardowns, cli, launches>>

\* Whatever ends in save_state: a rename, a move, another session's doings.
Save(i) ==
    /\ Free(i) /\ Op(TuiOps, "save")
    /\ row' = Saved(row, mem[i])
    /\ WroteBy(i)
    /\ UNCHANGED <<panes, up, mem, undo, known, job, picker, teardowns, cli, launches>>

Down(i) ==
    /\ up' = [up EXCEPT ![i] = FALSE]
    /\ mem' = [mem EXCEPT ![i] = Unlisted]
    /\ undo' = [undo EXCEPT ![i] = Unlisted]
    /\ known' = [known EXCEPT ![i] = FALSE]
    /\ job' = [job EXCEPT ![i] = Idle]
    /\ picker' = [picker EXCEPT ![i] = FALSE]

Quit(i) ==
    /\ Free(i) /\ Op(TuiOps, "quit")
    /\ panes' = WithoutPane(panes, undo[i])
    /\ row' = Saved(row, mem[i])
    /\ dirty' = [j \in Inst |-> j # i /\ up[j]]
    /\ Down(i)
    /\ UNCHANGED <<teardowns, cli, launches>>

Crash(i) ==
    /\ up[i] /\ Op(TuiOps, "crash")
    /\ dirty' = [dirty EXCEPT ![i] = FALSE]
    /\ Down(i)
    /\ UNCHANGED <<row, panes, teardowns, cli, launches>>

\* App::new takes the snapshot, and restore_sessions looks for the windows of
\* the rows it reads after that.
Start(i) ==
    /\ ~up[i] /\ Op(TuiOps, "start")
    /\ up' = [up EXCEPT ![i] = TRUE]
    /\ \E seen \in IF row.exists /\ "reads" \in Faults THEN BOOLEAN ELSE {row.live} :
         /\ known' = [known EXCEPT ![i] = seen]
         /\ dirty' = [dirty EXCEPT ![i] = seen # row.live]
    /\ IF row.live
       THEN \E p \in Found : job' = [job EXCEPT ![i] = [do |-> "attach", pane |-> p]]
       ELSE UNCHANGED job
    /\ UNCHANGED <<row, panes, mem, undo, picker, teardowns, cli, launches>>

\* restore_single_session: the window, or else a ghost (unloaded, or restored
\* lazily) or a new agent, beside the window that could not be taken over.
Attach(i) ==
    /\ up[i] /\ job[i].do = "attach"
    /\ \/ /\ job[i].pane \in panes
          /\ mem' = [mem EXCEPT ![i] = job[i].pane]
          /\ job' = [job EXCEPT ![i] = Todo("claim")]
       \/ /\ CannotAdopt(job[i].pane)
          /\ mem' = [mem EXCEPT ![i] = Ghost]
          /\ job' = [job EXCEPT ![i] = Todo("claim")]
       \/ /\ CannotAdopt(job[i].pane) /\ ~Lazy
          /\ job' = [job EXCEPT ![i] = Todo("respawn")]
          /\ UNCHANGED mem
    /\ UNCHANGED <<row, panes, up, undo, known, dirty, picker, teardowns, cli, launches, ops>>

\* restore_sessions ends in a save_state of what it restored, whatever became
\* of the rows since they were read.
Claim(i) ==
    /\ up[i] /\ job[i].do = "claim"
    /\ row' = Saved(row, mem[i])
    /\ WroteBy(i)
    /\ job' = [job EXCEPT ![i] = IF known[i] /\ mem[i] = Unlisted THEN Missed ELSE Idle]
    /\ UNCHANGED <<panes, up, mem, undo, known, picker, teardowns, cli, launches, ops>>

-----------------------------------------------------------------------------
(* The command line *)

\* spawn_session_headless: the window, then a row that does not know its pane.
CliOpen ==
    /\ cli = "idle" /\ ~row.exists /\ Op(CliOps, "create")
    /\ cli' = "create"
    /\ Launch(panes)
    /\ UNCHANGED <<row, up, mem, undo, known, dirty, job, picker, teardowns>>

CliRecord ==
    /\ cli = "create"
    /\ cli' = "idle"
    /\ row' = [exists |-> TRUE, live |-> TRUE, pane |-> 0]
    /\ WroteOutside
    /\ UNCHANGED <<panes, up, mem, undo, known, job, picker, teardowns, launches, ops>>

\* A command that goes no further: it died, could not launch what it killed,
\* or, its row refused, took the window back.
CliStops ==
    /\ cli # "idle" /\ "die" \in Faults
    /\ cli' = "idle"
    /\ panes' \in {panes} \cup IF cli = "create" THEN {WithoutWindow(panes)} ELSE {}
    /\ UNCHANGED <<row, up, mem, undo, known, dirty, job, picker, teardowns, launches, ops>>

\* Without --force the window stays.
CliDelete ==
    /\ cli = "idle" /\ row.live /\ Op(CliOps, "delete")
    /\ row' = [row EXCEPT !.live = FALSE]
    /\ WroteOutside
    /\ UNCHANGED <<panes, up, mem, undo, known, job, picker, teardowns, cli, launches>>

\* `restart' kills and spawns; a delete with --force kills and then deletes.
CliKill ==
    /\ cli = "idle" /\ row.live
    /\ \/ Op(CliOps, "force") /\ cli' = "delete"
       \/ Op(CliOps, "restart") /\ cli' = "spawn"
    /\ panes' = WithoutWindow(panes)
    /\ UNCHANGED <<row, up, mem, undo, known, dirty, job, picker, teardowns, launches>>

CliForced ==
    /\ cli = "delete"
    /\ cli' = "idle"
    /\ row' = [row EXCEPT !.live = FALSE]
    /\ WroteOutside
    /\ UNCHANGED <<panes, up, mem, undo, known, job, picker, teardowns, launches, ops>>

\* The row is left with the pane that was killed.
CliRestarted ==
    /\ cli = "spawn"
    /\ cli' = "idle"
    /\ Launch(panes)
    /\ WroteOutside
    /\ UNCHANGED <<row, up, mem, undo, known, job, picker, teardowns, ops>>

\* The row only: instances see it at their next poll.
CliRestore ==
    /\ cli = "idle" /\ row.exists /\ ~row.live /\ Op(CliOps, "restore")
    /\ row' = [row EXCEPT !.live = TRUE]
    /\ WroteOutside
    /\ UNCHANGED <<panes, up, mem, undo, known, job, picker, teardowns, cli, launches>>

\* A commit about something else: a hook's report, a message.
Touch ==
    /\ Op(CliOps, "touch") /\ dirty # up
    /\ WroteOutside
    /\ UNCHANGED <<row, panes, up, mem, undo, known, job, picker, teardowns, cli, launches>>

-----------------------------------------------------------------------------
Init ==
    /\ row = NoRow /\ panes = {} /\ up = [i \in Inst |-> TRUE]
    /\ mem = [i \in Inst |-> Unlisted] /\ undo = mem
    /\ known = [i \in Inst |-> FALSE] /\ dirty = known /\ picker = known
    /\ job = [i \in Inst |-> Idle]
    /\ teardowns = 0 /\ cli = "idle" /\ launches = 0 /\ ops = 0

Works(i) ==
    \/ Poll(i) \/ Adopt(i) \/ AdoptFails(i) \/ Spawn(i) \/ SpawnFails(i)
    \/ Attach(i) \/ Claim(i) \/ Expire(i)

Uses(i) ==
    \/ Create(i) \/ Delete(i) \/ HardDelete(i) \/ Undo(i) \/ OpenPicker(i) \/ Restore(i)
    \/ Restart(i) \/ Unload(i) \/ Save(i) \/ Quit(i) \/ Crash(i) \/ Start(i)

Commands ==
    \/ CliOpen \/ CliRecord \/ CliDelete \/ CliKill \/ CliForced \/ CliRestarted
    \/ CliRestore \/ CliStops \/ Touch

Next == (\E i \in Inst : Works(i) \/ Uses(i)) \/ Commands \/ Teardown

Spec == Init /\ [][Next]_vars

\* The tick polls, and acts on what it found before it does anything else.
FairSpec == Spec /\ \A i \in Inst : WF_vars(Works(i))

-----------------------------------------------------------------------------
(* Properties *)

\* Every variable has its type, and what a poll or a start has still to do is
\* for a session that is not in the list.
TypeOK ==
    /\ row \in [exists : BOOLEAN, live : BOOLEAN, pane : 0..launches]
    /\ row.live => row.exists
    /\ panes \subseteq 1..launches /\ launches \in 0..MaxLaunch
    /\ mem \in [Inst -> Unlisted..launches] /\ undo \in [Inst -> Unlisted..launches]
    /\ job \in [Inst -> Job] /\ teardowns \in 0..MaxOps /\ ops \in 0..MaxOps
    /\ cli \in {"idle", "create", "delete", "spawn"}
    /\ {up, known, dirty, picker} \subseteq [Inst -> BOOLEAN]
    \* What a poll or a start found is for a session that is not listed.
    /\ \A i \in Inst : job[i].do \in {"adopt", "attach", "respawn"} => mem[i] = Unlisted
    \* An instance that is down holds nothing and misses nothing.
    /\ \A i \in Inst : ~up[i] =>
         /\ mem[i] = Unlisted /\ undo[i] = Unlisted /\ job[i] = Idle
         /\ ~known[i] /\ ~dirty[i] /\ ~picker[i]

\* Every instance lists what every other one does: once its users and the
\* command line have let be, an instance lists no session whose row has gone,
\* and shows every one whose row is there, but those it tried and failed to
\* take over or to launch.
Converges ==
    <>[](\A i \in Inst : up[i] =>
            /\ mem[i] # Unlisted => row.live
            /\ row.live => mem[i] # Unlisted \/ job[i] = Missed)

\* What one instance does in answer to another's write is not answered in its
\* turn: the polls come to find nothing new.
Settles == <>[](\A i \in Inst : ~dirty[i])

\* A session has one agent: an instance takes over the window another process
\* opened for it, and does not open a second of that name
\* (apply_added_sessions).
OneAgent == Cardinality(panes) <= 1

\* A recorded pane is never lost to an instance that has none to record
\* (the placeholders of save_state).
PaneIsKept == [][row.pane # 0 => row'.pane # 0]_vars

\* A session that was brought back outlives the undo of the instance that
\* deleted it: "the shared pane and the already-visible session remain
\* authoritative" (undo_delete).
RestoredSurvivesExpiry ==
    [][\A i \in Inst : Expire(i) /\ row.live /\ undo[i] \in panes =>
           \A j \in Inst : mem[j] # undo[i]]_vars

\* Deleting is final until somebody restores: no instance's routine write
\* brings the row back.
DeletionsStick == [][\A i \in Inst : Save(i) => row'.live = row.live]_vars

\* The teardown of a hard delete takes no agent that was launched after it.
TeardownSparesRestored ==
    [][Teardown /\ row.live => panes' = panes]_vars
=============================================================================
