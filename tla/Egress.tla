------------------------------- MODULE Egress -------------------------------
(***************************************************************************)
(* The egress proxy of one session (sandbox/egress.rs, its callers in      *)
(* agent/backend.rs, app/mod.rs and app/bridge_saga.rs, its columns in     *)
(* storage/sessions.rs).  A launch binds a listener with a token of its    *)
(* own before there is an agent to use it; the launch that gets a pane     *)
(* commits it, which retires the one before, and every other one lets it   *)
(* go.  A friring that starts finds the agent running and the record of    *)
(* its endpoint and token, and has to listen there again.                  *)
(*                                                                         *)
(* The session is an ordinary one, launched on the user's thread, or a     *)
(* bridge child, launched by its saga behind a gate.  The supervisor       *)
(* serves its mailbox in order and every bind and every question waits for *)
(* its answer, so a command counts as carried out when it is sent.  One    *)
(* friring runs at a time.                                                 *)
(***************************************************************************)
EXTENDS Naturals

CONSTANTS
    Endpoints,     \* ports, or the two socket paths of a session
    Nowhere,       \* no endpoint
    MaxLaunches,   \* bound: launches that bind
    CrashInLaunch  \* friring may die between a pane and the record of it

ASSUME EgressAssumption ==
    /\ Nowhere \notin Endpoints
    /\ MaxLaunches \in Nat /\ CrashInLaunch \in BOOLEAN

VARIABLES
    kind,     \* "ordinary" or "child"
    filters,  \* the profile asks for a proxy
    up,       \* friring runs
    agent,    \* the pane: what its agent was told, and whether a gate holds it
    slot,     \* the supervisor's committed instance
    pending,  \* ... and the one a launch prepared
    launch,   \* the ordinary launch under way
    child,    \* the gated launch under way
    mem,      \* the session in the list
    row,      \* its columns in the database
    launches  \* instances bound; the last one's token

vars == <<kind, filters, up, agent, slot, pending, launch, child, mem, row, launches>>

NoProxy == [ep |-> Nowhere, tok |-> 0]
Proxies == [ep : Endpoints, tok : 1..MaxLaunches] \cup {NoProxy}

Agents  == [proxy : Proxies, gated : BOOLEAN]
NoAgent == [proxy |-> NoProxy, gated |-> FALSE, none |-> TRUE]

States   == {"none", "preparing", "active", "unrestorable"}
Record   == {r \in [ep : Endpoints \cup {Nowhere}, tok : 0..MaxLaunches, state : States] :
                (r.ep = Nowhere) = (r.tok = 0) /\ (r.ep = Nowhere) = (r.state = "none")}
NoRecord == [ep |-> Nowhere, tok |-> 0, state |-> "none"]

\* tok 0: friring only adopted this session.
Listed  == [list : {"live"}, ep : Endpoints \cup {Nowhere}, tok : 0..MaxLaunches, state : States]
Absent  == [list |-> "no", ep |-> Nowhere, tok |-> 0, state |-> "none"]
Ghost   == [Absent EXCEPT !.list = "ghost"]

Idle    == [pc |-> "idle", how |-> "none", proxy |-> NoProxy]
Thread  == [pc : {"composed", "killed", "opened", "unsaved"}, how : {"spawn", "restart"},
            proxy : Proxies] \cup {Idle}
Saga    == [pc : {"begun", "composed", "opened", "rowed", "live"}, how : {"gated"},
            proxy : Proxies] \cup {Idle}

Free     == up /\ launch = Idle
Settled  == Free /\ child = Idle

-----------------------------------------------------------------------------
(* The supervisor *)

\* Mutant: the instance is the session's as soon as it is bound.
PreparedAtOnce(p) ==
    /\ slot' = p
    /\ pending' = NoProxy

\* Start: an instance no launch took is stopped first.
Prepared(p) ==
    /\ pending' = p
    /\ UNCHANGED slot

\* PendingEgress::commit: Take, of the instance that is still pending, or
\* Clear, of a launch that needs no proxy.
Committed(p) ==
    /\ slot' = IF p = NoProxy THEN NoProxy ELSE IF pending = p THEN p ELSE slot
    /\ pending' = IF p = NoProxy \/ pending = p THEN NoProxy ELSE pending

\* Mutant: a launch that fails forgets what it bound.
Abandoned(p) == UNCHANGED pending

\* Its drop: Discard, and nothing for a Clear.
Discarded(p) == pending' = IF p # NoProxy /\ pending = p THEN NoProxy ELSE pending

Stopped == slot' = NoProxy /\ pending' = NoProxy

\* What the launch is composed against: a free endpoint and a token of its
\* own, or no proxy.
Composed(p) ==
    \/ /\ filters /\ launches < MaxLaunches
       /\ p \in [ep : Endpoints \ {slot.ep}, tok : {launches + 1}]
       /\ launches' = launches + 1
       /\ Prepared(p)
    \/ ~filters /\ p = NoProxy /\ UNCHANGED <<slot, pending, launches>>

StateOf(p, acknowledged) ==
    IF p = NoProxy THEN "none" ELSE IF acknowledged THEN "active" ELSE "preparing"

-----------------------------------------------------------------------------
(* The record *)

\* Mutant: what is not in memory is written as nothing.
SavedFromMemory ==
    IF mem.list # "live" \/ mem.ep = Nowhere THEN row
    ELSE [ep |-> mem.ep, tok |-> mem.tok, state |-> mem.state]

\* save_state: no placeholder, and nothing when nothing was recorded; the
\* token of a session friring only adopted is read back.
Saved ==
    IF mem.list # "live" \/ mem.ep = Nowhere THEN row
    ELSE [ep |-> mem.ep, tok |-> IF mem.tok = 0 THEN row.tok ELSE mem.tok, state |-> mem.state]

Save ==
    /\ Free
    /\ row' = Saved
    /\ UNCHANGED <<kind, filters, up, agent, slot, pending, launch, child, mem, launches>>

-----------------------------------------------------------------------------
(* An ordinary launch *)

Step(pc) == launch' = [launch EXCEPT !.pc = pc]

\* Session::spawn of a session that has no pane, or Session::restart; a bind
\* that fails refuses the launch.
Compose ==
    /\ Free /\ kind = "ordinary"
    /\ \E p \in Proxies, how \in {"spawn", "restart"} :
          /\ how = "spawn" => mem.list = "no" /\ agent = NoAgent
          /\ how = "restart" => mem.list # "no"
          /\ Composed(p)
          /\ launch' = [pc |-> "composed", how |-> how, proxy |-> p]
    /\ UNCHANGED <<kind, filters, up, agent, child, mem, row>>

\* A ghost has no pane to kill.
KillOld ==
    /\ launch.pc = "composed" /\ launch.how = "restart"
    /\ agent' = IF mem.list = "ghost" THEN agent ELSE NoAgent
    /\ Step("killed")
    /\ UNCHANGED <<kind, filters, up, slot, pending, child, mem, row, launches>>

OpenPane ==
    /\ launch.pc = IF launch.how = "restart" THEN "killed" ELSE "composed"
    /\ agent' = [proxy |-> launch.proxy, gated |-> FALSE]
    /\ Step("opened")
    /\ UNCHANGED <<kind, filters, up, slot, pending, child, mem, row, launches>>

\* The kill, or the pane, or anything between them.
LaunchFails ==
    /\ launch.pc \in {"composed", "killed"}
    /\ Discarded(launch.proxy)
    /\ launch' = Idle
    /\ UNCHANGED <<kind, filters, up, agent, slot, child, mem, row, launches>>

\* Session::spawn asks before it commits, Session::restart after.
Finish ==
    /\ launch.pc = "opened"
    /\ Committed(launch.proxy)
    /\ mem' = [list |-> "live", ep |-> launch.proxy.ep, tok |-> launch.proxy.tok,
               state |-> StateOf(launch.proxy,
                            (IF launch.how = "spawn" THEN slot ELSE slot') # NoProxy)]
    /\ Step("unsaved")
    /\ UNCHANGED <<kind, filters, up, agent, child, row, launches>>

SaveLaunch ==
    /\ launch.pc = "unsaved"
    /\ row' = Saved
    /\ launch' = Idle
    /\ UNCHANGED <<kind, filters, up, agent, slot, pending, child, mem, launches>>

-----------------------------------------------------------------------------
(* The launch of a bridge child *)

Go(pc) == child' = [child EXCEPT !.pc = pc]

\* A create, or a resume, which kills the pane it knows and retires the entry.
BeginGated ==
    /\ Settled /\ kind = "child"
    /\ mem.list = "live" \/ agent = NoAgent
    /\ agent' = NoAgent /\ mem' = Absent
    /\ child' = [pc |-> "begun", how |-> "gated", proxy |-> NoProxy]
    /\ UNCHANGED <<kind, filters, up, slot, pending, launch, row, launches>>

ComposeGated ==
    /\ Free /\ child.pc = "begun"
    /\ \E p \in Proxies :
          /\ Composed(p)
          /\ child' = [child EXCEPT !.pc = "composed", !.proxy = p]
    /\ UNCHANGED <<kind, filters, up, agent, launch, mem, row>>

OpenGated ==
    /\ Free /\ child.pc = "composed"
    /\ agent' = [proxy |-> child.proxy, gated |-> TRUE]
    /\ Go("opened")
    /\ UNCHANGED <<kind, filters, up, slot, pending, launch, mem, row, launches>>

\* S6: the row, then the entry.
CommitChild ==
    /\ Free /\ child.pc = "opened"
    /\ mem' = [list |-> "live", ep |-> child.proxy.ep, tok |-> child.proxy.tok,
               state |-> StateOf(child.proxy, FALSE)]
    /\ row' = IF child.proxy = NoProxy THEN row
              ELSE [ep |-> mem'.ep, tok |-> mem'.tok, state |-> mem'.state]
    /\ Go("rowed")
    /\ UNCHANGED <<kind, filters, up, agent, slot, pending, launch, launches>>

\* Mutant: the claim is only dropped.
AwaitNothing ==
    /\ Free /\ child.pc = "rowed"
    /\ Discarded(child.proxy)
    /\ Go("live")
    /\ UNCHANGED <<kind, filters, up, agent, slot, launch, mem, row, launches>>

\* S7: the claim is committed, and the supervisor asked whether it holds one.
AwaitEgress ==
    LET needs == mem.list = "live" /\ mem.state = "preparing"
    IN  /\ Free /\ child.pc = "rowed"
        /\ Committed(child.proxy)
        /\ needs => slot' # NoProxy
        /\ mem' = IF needs THEN [mem EXCEPT !.state = "active"] ELSE mem
        /\ row' = IF needs THEN [row EXCEPT !.state = "active"] ELSE row
        /\ Go("live")
        /\ UNCHANGED <<kind, filters, up, agent, launch, launches>>

\* S8: the pane is the recorded one.
ReleaseGate ==
    /\ Free /\ child.pc = "live"
    /\ mem.list = "live" /\ agent # NoAgent
    /\ agent' = [agent EXCEPT !.gated = FALSE]
    /\ child' = Idle
    /\ UNCHANGED <<kind, filters, up, slot, pending, launch, mem, row, launches>>

\* unwind_child_launch: the pane it knows, which may not die; the entry; and
\* every instance.
GatedFails ==
    /\ Free /\ child # Idle
    /\ agent' \in IF child.pc = "opened" \/ mem.list = "live" THEN {agent, NoAgent} ELSE {agent}
    /\ Stopped
    /\ mem' = Absent /\ child' = Idle
    /\ UNCHANGED <<kind, filters, up, launch, row, launches>>

-----------------------------------------------------------------------------
(* The life of the session *)

\* Mutant: an unloaded session keeps its way out.
UnloadKeepsProxy ==
    /\ Free /\ mem.list = "live"
    /\ row' = Saved
    /\ agent' = NoAgent /\ mem' = Ghost
    /\ UNCHANGED <<kind, filters, up, slot, pending, launch, child, launches>>

\* unload_active_session; a pane that does not die keeps everything.
Unload ==
    /\ Free /\ mem.list = "live"
    /\ row' = Saved
    /\ agent' = NoAgent /\ mem' = Ghost
    /\ Stopped
    /\ UNCHANGED <<kind, filters, up, launch, child, launches>>

\* Deleted for good: the pane, as far as it can be, and all this key owns.
Delete ==
    /\ Settled /\ mem.list # "no"
    /\ agent' \in {agent, NoAgent}
    /\ Stopped
    /\ mem' = Absent
    /\ UNCHANGED <<kind, filters, up, launch, child, row, launches>>

\* apply_removed_sessions: another process deleted the row.
Removed ==
    /\ Free /\ mem.list # "no"
    /\ mem' = Absent
    /\ UNCHANGED <<kind, filters, up, agent, slot, pending, launch, child, row, launches>>

\* Mutant: the restored instance mints a token.
RebindFresh(p) ==
    /\ row.ep # slot.ep
    /\ p = [ep |-> row.ep, tok |-> launches]

\* establish_at: this endpoint, this token, or nothing.
Rebind(p) ==
    /\ row.ep # slot.ep
    /\ p = [ep |-> row.ep, tok |-> row.tok]

\* The pane is there: a friring that started, or a row that was brought back,
\* finds it.  Nothing to restore where nothing was recorded.  A saga's next
\* tick comes before a second poll.
Adopt ==
    /\ Free /\ mem.list = "no" /\ agent # NoAgent
    /\ child.pc \in {"idle", "live"}
    /\ \/ row.ep = Nowhere /\ UNCHANGED <<row, slot, pending>>
       \/ /\ row.ep # Nowhere /\ filters
          /\ \E p \in Proxies : Rebind(p) /\ slot' = p
          /\ pending' = NoProxy
          /\ row' = [row EXCEPT !.state = "active"]
       \/ /\ row.ep # Nowhere
          /\ pending' = IF filters THEN NoProxy ELSE pending
          /\ row' = [row EXCEPT !.state = "unrestorable"]
          /\ UNCHANGED slot
    /\ mem' = [list |-> "live", ep |-> row.ep, tok |-> 0, state |-> row'.state]
    /\ UNCHANGED <<kind, filters, up, agent, launch, child, launches>>

\* ... or it is gone.
Haunt ==
    /\ Settled /\ mem.list = "no" /\ agent = NoAgent
    /\ mem' = Ghost
    /\ Stopped
    /\ UNCHANGED <<kind, filters, up, agent, launch, child, row, launches>>

EditProfile ==
    /\ Free
    /\ filters' = ~filters
    /\ UNCHANGED <<kind, up, agent, slot, pending, launch, child, mem, row, launches>>

-----------------------------------------------------------------------------
(* The process *)

Down ==
    /\ up' = FALSE
    /\ Stopped
    /\ mem' = Absent /\ launch' = Idle
    /\ UNCHANGED <<kind, filters, agent, child, launches>>

Quit == Settled /\ Down /\ row' = Saved

\* The recovery of a gated launch is its saga's.
Crash ==
    /\ up /\ child = Idle
    /\ launch = Idle \/ CrashInLaunch
    /\ Down /\ UNCHANGED row

Start ==
    /\ ~up /\ up' = TRUE
    /\ UNCHANGED <<kind, filters, agent, slot, pending, launch, child, mem, row, launches>>

\* The multiplexer went meanwhile.
PaneLost ==
    /\ ~up /\ agent # NoAgent
    /\ agent' = NoAgent
    /\ UNCHANGED <<kind, filters, up, slot, pending, launch, child, mem, row, launches>>

-----------------------------------------------------------------------------
Init ==
    /\ kind \in {"ordinary", "child"} /\ filters \in BOOLEAN /\ up = TRUE
    /\ agent = NoAgent /\ slot = NoProxy /\ pending = NoProxy
    /\ launch = Idle /\ child = Idle
    /\ mem = Absent /\ row = NoRecord /\ launches = 0

Launches == Compose \/ KillOld \/ OpenPane \/ LaunchFails \/ Finish \/ SaveLaunch

Gated ==
    \/ BeginGated \/ ComposeGated \/ OpenGated \/ CommitChild \/ AwaitEgress \/ ReleaseGate
    \/ GatedFails

Next ==
    \/ Launches \/ Gated
    \/ Save \/ Unload \/ Delete \/ Removed \/ Adopt \/ Haunt \/ EditProfile
    \/ Quit \/ Crash \/ Start \/ PaneLost

Spec == Init /\ [][Next]_vars

-----------------------------------------------------------------------------
(* Properties *)

\* Every variable has its type; a recorded endpoint has its token and its state.
TypeOK ==
    /\ kind \in {"ordinary", "child"} /\ {filters, up} \subseteq BOOLEAN
    /\ agent \in Agents \cup {NoAgent}
    /\ {slot, pending} \subseteq Proxies
    /\ launch \in Thread /\ child \in Saga
    /\ mem \in Listed \cup {Absent, Ghost} /\ row \in Record
    /\ launches \in 0..MaxLaunches

\* The agent that runs is the one that is served: at its endpoint and with its
\* token, whatever launches failed and however often friring was restarted, or
\* the record says that it could not be.
RunningIsServed ==
    Settled /\ mem.list = "live" /\ agent # NoAgent /\ ~agent.gated /\ agent.proxy # NoProxy
    /\ mem.state # "unrestorable"
        => slot = agent.proxy

\* No failure on the way to a launch "may cost the session the boundary it is
\* already using".
BoundaryIsKept ==
    [][agent # NoAgent /\ agent' = agent /\ slot = agent.proxy
       /\ mem.list = "live" /\ mem'.list = "live" => slot' = slot]_vars

\* The recorded token is never rotated under a running agent: it changes to
\* the token the agent in the pane was given.
TokenFollowsAgent ==
    [][row'.tok # row.tok => agent # NoAgent /\ row'.tok = agent.proxy.tok]_vars

\* A child's gate opens on an agent that is served, or that needs no proxy.
GateIsFiltered ==
    [][agent # NoAgent /\ agent.gated /\ agent' # NoAgent /\ ~agent'.gated
          => agent.proxy \in {slot, NoProxy}]_vars

\* Nothing listens for nobody: what is pending is the launch's under way, and
\* an unloaded session has no way out.
NothingIsLeft ==
    /\ pending # NoProxy => pending \in {launch.proxy, child.proxy}
    /\ mem.list = "ghost" /\ launch = Idle => slot = NoProxy

\* `active': the supervisor holds this session's committed instance; the other
\* states are of sessions that are not served.
ServedIsActive ==
    Settled /\ mem.list = "live" /\ agent # NoAgent /\ ~agent.gated /\ agent.proxy # NoProxy
    /\ slot = agent.proxy
        => mem.state = "active"

\* An agent that was launched without a proxy has no listener behind it.
UnfilteredHasNone ==
    Settled /\ agent # NoAgent /\ agent.proxy = NoProxy => slot = NoProxy

=============================================================================
