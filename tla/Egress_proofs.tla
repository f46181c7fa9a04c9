---------------------------- MODULE Egress_proofs ----------------------------
(***************************************************************************)
(* What holds of Egress for every set of endpoints and any number of       *)
(* launches: its types, that an agent that runs is served, and that no     *)
(* step takes the boundary from it or leaves a listener behind.  All of it *)
(* follows from one inductive invariant, EgressInv: what a launch has done *)
(* so far fixes what is bound, what runs and what is on record.            *)
(***************************************************************************)
EXTENDS Egress, TLAPS

\* Whose launch it is, and that a friring that is down has none under way.
OneLaunch ==
    /\ launch # Idle => kind = "ordinary" /\ up
    /\ child # Idle => kind = "child" /\ up
    /\ launch = Idle /\ child = Idle => pending = NoProxy

\* How far an ordinary launch got.
LaunchIsBound ==
    /\ launch.pc \in {"composed", "killed", "opened"} => pending = launch.proxy
    /\ launch.pc \in {"composed", "killed"} /\ launch.how = "spawn" => mem.list = "no"
    /\ launch.pc = "killed" /\ mem.list = "live" => agent = NoAgent
    /\ launch.pc \in {"opened", "unsaved"} => agent = [proxy |-> launch.proxy, gated |-> FALSE]
    /\ launch.pc = "unsaved" =>
          /\ pending = NoProxy /\ slot = launch.proxy
          /\ mem.list = "live" /\ mem.ep = launch.proxy.ep /\ mem.tok = launch.proxy.tok

\* How far the launch of a child got: its pane, if it was not unloaded.
ChildIsGated ==
    /\ child.pc \in {"begun", "composed", "opened"} => mem = Absent
    /\ child.pc \in {"begun", "composed"} => agent = NoAgent
    /\ child.pc = "opened" => agent # NoAgent
    /\ child.pc \in {"opened", "rowed", "live"} /\ agent # NoAgent =>
          agent = [proxy |-> child.proxy, gated |-> TRUE]
    /\ kind = "ordinary" /\ agent # NoAgent => ~agent.gated

\* ... and its instance.
ChildIsBound ==
    /\ child.pc \in {"begun", "live"} => pending = NoProxy
    /\ child.pc \in {"composed", "opened"} => pending = child.proxy
    /\ child.pc = "rowed" =>
          /\ pending = child.proxy \/ pending = NoProxy
          /\ agent # NoAgent => pending = child.proxy
          /\ mem.list = "ghost" => pending = NoProxy
          /\ mem.list = "live" /\ mem.state = "preparing" => child.proxy # NoProxy
    /\ child.pc = "live" /\ agent # NoAgent /\ child.proxy # NoProxy => slot = child.proxy
    /\ child.pc \in {"rowed", "live"} /\ child.proxy # NoProxy =>
          row.ep = child.proxy.ep /\ row.tok = child.proxy.tok

\* What the list knows of a proxy is what the row says, until it is saved.
MemIsRecorded ==
    mem.list = "live" =>
        /\ mem.ep = Nowhere <=> mem.state = "none"
        /\ launch.pc # "unsaved" /\ mem.ep # Nowhere =>
              row.ep = mem.ep /\ mem.tok \in {0, row.tok}

GhostHasNone == mem.list = "ghost" => slot = NoProxy

EgressInv ==
    /\ TypeOK /\ OneLaunch /\ LaunchIsBound /\ ChildIsGated /\ ChildIsBound
    /\ MemIsRecorded /\ GhostHasNone

Proxied == agent # NoAgent /\ ~agent.gated /\ agent.proxy # NoProxy
           /\ launch.pc \notin {"opened", "unsaved"}

\* The record of an agent that runs behind a proxy is of that proxy.
AgentIsRecorded == Proxied => row.ep = agent.proxy.ep /\ row.tok = agent.proxy.tok

\* ... and the instance, where one could be had.
AgentIsServed ==
    Proxied /\ child = Idle /\ mem.list = "live" /\ mem.state # "unrestorable" =>
        slot = agent.proxy

ServedInv == AgentIsRecorded /\ AgentIsServed

-----------------------------------------------------------------------------
(* The values *)

LEMMA ProxyFacts ==
    /\ NoProxy \in Proxies /\ NoProxy.ep = Nowhere /\ NoProxy.tok = 0
    /\ \A p \in Proxies : /\ p.ep \in Endpoints \cup {Nowhere} /\ p.tok \in 0..MaxLaunches
                          /\ p = NoProxy <=> p.ep = Nowhere
                          /\ p = NoProxy <=> p.tok = 0
    /\ \A p, q \in Proxies : p.ep = q.ep /\ p.tok = q.tok => p = q
  BY EgressAssumption DEF Proxies, NoProxy

LEMMA AgentFacts ==
    /\ \A a \in Agents : a # NoAgent /\ a.proxy \in Proxies /\ a.gated \in BOOLEAN
    /\ \A p \in Proxies, g \in BOOLEAN :
          LET a == [proxy |-> p, gated |-> g] IN a \in Agents /\ a.proxy = p /\ a.gated = g
  BY DEF Agents, NoAgent

Threads == [pc : {"composed", "killed", "opened", "unsaved"}, how : {"spawn", "restart"},
            proxy : Proxies]
Sagas   == [pc : {"begun", "composed", "opened", "rowed", "live"}, how : {"gated"},
            proxy : Proxies]

LEMMA LaunchFacts ==
    /\ Thread = Threads \cup {Idle} /\ Saga = Sagas \cup {Idle}
    /\ Idle.pc = "idle" /\ Idle.proxy = NoProxy
    /\ \A t \in Thread \cup Saga : t = Idle <=> t.pc = "idle"
    /\ \A t \in Thread : t # Idle <=> t \in Threads
    /\ \A t \in Saga : t # Idle <=> t \in Sagas
  BY DEF Thread, Saga, Idle, Threads, Sagas

LEMMA MemFacts ==
    /\ Absent.list = "no" /\ Absent.ep = Nowhere
    /\ Ghost.list = "ghost" /\ Ghost.ep = Nowhere
    /\ \A m \in Listed \cup {Absent, Ghost} :
          /\ m.list = "live" <=> m \in Listed
          /\ m.list = "no" <=> m = Absent
          /\ m.list = "ghost" <=> m = Ghost
    /\ \A m \in Listed : /\ m.ep \in Endpoints \cup {Nowhere} /\ m.tok \in 0..MaxLaunches
                         /\ m.state \in States
  <1>1. Absent \in [list : {"no"}, ep : {Nowhere}, tok : {0}, state : {"none"}]
    BY DEF Absent
  <1>2. Ghost \in [list : {"ghost"}, ep : {Nowhere}, tok : {0}, state : {"none"}]
    BY <1>1 DEF Ghost
  <1> QED BY <1>1, <1>2 DEF Listed

LEMMA RecordFacts ==
    /\ NoRecord \in Record
    /\ \A r \in Record : /\ r.ep \in Endpoints \cup {Nowhere} /\ r.tok \in 0..MaxLaunches
                         /\ r.state \in States
                         /\ r.ep = Nowhere <=> r.tok = 0
                         /\ r.ep = Nowhere <=> r.state = "none"
    /\ \A p \in Proxies, s \in States : (p = NoProxy) = (s = "none") =>
          [ep |-> p.ep, tok |-> p.tok, state |-> s] \in Record
    /\ \A r \in Record, s \in States \ {"none"} : r.ep # Nowhere =>
          /\ [r EXCEPT !.state = s] \in Record
          /\ [r EXCEPT !.state = s].ep = r.ep /\ [r EXCEPT !.state = s].tok = r.tok
  <1> USE EgressAssumption
  <1>1. NoRecord \in Record
    BY DEF NoRecord, Record, States
  <1>2. \A r \in Record : /\ r.ep \in Endpoints \cup {Nowhere} /\ r.tok \in 0..MaxLaunches
                          /\ r.state \in States
                          /\ r.ep = Nowhere <=> r.tok = 0
                          /\ r.ep = Nowhere <=> r.state = "none"
    BY DEF Record
  <1>3. \A p \in Proxies, s \in States : (p = NoProxy) = (s = "none") =>
          [ep |-> p.ep, tok |-> p.tok, state |-> s] \in Record
    BY ProxyFacts DEF Record
  <1>4. ASSUME NEW r \in Record, NEW s \in States \ {"none"}, r.ep # Nowhere
        PROVE  /\ [r EXCEPT !.state = s] \in Record
               /\ [r EXCEPT !.state = s].ep = r.ep /\ [r EXCEPT !.state = s].tok = r.tok
    BY <1>4 DEF Record
  <1> QED BY <1>1, <1>2, <1>3, <1>4

LEMMA StepDoes ==
    ASSUME launch \in Thread, launch # Idle, NEW pc \in {"killed", "opened", "unsaved"}, Step(pc)
    PROVE  launch' \in Thread /\ launch'.pc = pc
           /\ launch'.how = launch.how /\ launch'.proxy = launch.proxy
  <1>1. launch \in Threads
    BY LaunchFacts
  <1>2. launch' \in Threads /\ launch'.pc = pc
        /\ launch'.how = launch.how /\ launch'.proxy = launch.proxy
    BY <1>1 DEF Step, Threads
  <1> QED BY <1>2, LaunchFacts

LEMMA GoDoes ==
    ASSUME child \in Saga, child # Idle, NEW pc \in {"opened", "rowed", "live"}, Go(pc)
    PROVE  child' \in Saga /\ child'.pc = pc /\ child'.proxy = child.proxy
  <1>1. child \in Sagas
    BY LaunchFacts
  <1>2. child' \in Sagas /\ child'.pc = pc /\ child'.proxy = child.proxy
    BY <1>1 DEF Go, Sagas
  <1> QED BY <1>2, LaunchFacts

LEMMA NewRecord ==
    ASSUME NEW e \in Endpoints, NEW t \in 0..MaxLaunches, t # 0, NEW s \in States, s # "none"
    PROVE  LET r == [ep |-> e, tok |-> t, state |-> s]
           IN  r \in Record /\ r.ep = e /\ r.tok = t /\ r.state = s
  BY EgressAssumption DEF Record

LEMMA NewMem ==
    ASSUME NEW p \in Proxies, NEW s \in States
    PROVE  LET m == [list |-> "live", ep |-> p.ep, tok |-> p.tok, state |-> s]
           IN  m \in Listed /\ m.list = "live" /\ m.ep = p.ep /\ m.tok = p.tok /\ m.state = s
  BY ProxyFacts DEF Listed

LEMMA NewLaunch ==
    ASSUME NEW pc \in {"composed", "killed", "opened", "unsaved"}, NEW how \in {"spawn", "restart"},
           NEW p \in Proxies
    PROVE  LET t == [pc |-> pc, how |-> how, proxy |-> p]
           IN  t \in Thread /\ t.pc = pc /\ t.how = how /\ t.proxy = p
  BY DEF Thread

LEMMA NewAgent ==
    ASSUME NEW p \in Proxies, NEW g \in BOOLEAN
    PROVE  LET a == [proxy |-> p, gated |-> g]
           IN  a \in Agents /\ a # NoAgent /\ a.proxy = p /\ a.gated = g
  BY DEF Agents, NoAgent

LEMMA StateFacts ==
    ASSUME NEW p \in Proxies, NEW b \in BOOLEAN
    PROVE  /\ StateOf(p, b) \in States
           /\ StateOf(p, b) = "none" <=> p = NoProxy
           /\ StateOf(p, b) = "preparing" => p # NoProxy
  BY DEF StateOf, States

\* A save writes what is on record already, unless a launch is to be saved.
LEMMA SavedFacts ==
    ASSUME TypeOK, MemIsRecorded, LaunchIsBound
    PROVE  /\ Saved \in Record
           /\ launch.pc # "unsaved" => Saved.ep = row.ep /\ Saved.tok = row.tok
           /\ mem.list = "live" /\ mem.ep # Nowhere =>
                 Saved.ep = mem.ep /\ (mem.tok # 0 => Saved.tok = mem.tok)
           /\ mem.list # "live" \/ mem.ep = Nowhere => Saved = row
  <1>1. CASE mem.list = "live" /\ mem.ep # Nowhere
    <2> DEFINE t == IF mem.tok = 0 THEN row.tok ELSE mem.tok
    <2>1. /\ mem.ep \in Endpoints /\ mem.tok \in 0..MaxLaunches
          /\ mem.state \in States /\ mem.state # "none"
      BY <1>1, MemFacts DEF TypeOK, MemIsRecorded
    <2>2. launch.pc = "unsaved" => mem.tok # 0
      BY <1>1, ProxyFacts, LaunchFacts DEF TypeOK, LaunchIsBound, Threads
    <2>3. launch.pc # "unsaved" => row.ep = mem.ep /\ t = row.tok /\ row.tok # 0
      BY <1>1, RecordFacts DEF TypeOK, MemIsRecorded
    <2>4. t \in 0..MaxLaunches /\ t # 0
      BY <2>1, <2>2, <2>3, RecordFacts DEF TypeOK
    <2>5. Saved = [ep |-> mem.ep, tok |-> t, state |-> mem.state]
      BY <1>1 DEF Saved
    <2> HIDE DEF t
    <2>6. Saved \in Record /\ Saved.ep = mem.ep /\ Saved.tok = t
      BY <2>1, <2>4, <2>5, NewRecord
    <2> QED BY <1>1, <2>3, <2>6 DEF t
  <1>2. CASE mem.list # "live" \/ mem.ep = Nowhere
    BY <1>2 DEF Saved, TypeOK
  <1> QED BY <1>1, <1>2

\* What a launch is composed against is new, or nothing.
LEMMA ComposedFacts ==
    ASSUME TypeOK, NEW p \in Proxies, Composed(p)
    PROVE  /\ launches' \in 0..MaxLaunches /\ UNCHANGED slot
           /\ pending' = p \/ (p = NoProxy /\ UNCHANGED pending)
  <1>1. launches' = launches \/ (launches < MaxLaunches /\ launches' = launches + 1)
    BY DEF Composed
  <1>2. launches' \in 0..MaxLaunches
    BY <1>1, EgressAssumption DEF TypeOK
  <1> QED BY <1>2 DEF Composed, Prepared

LEMMA CommittedFacts ==
    ASSUME TypeOK, NEW p \in Proxies, Committed(p)
    PROVE  /\ {slot', pending'} \subseteq Proxies
           /\ p = NoProxy => slot' = NoProxy /\ pending' = NoProxy
           /\ p # NoProxy /\ pending = p => slot' = p /\ pending' = NoProxy
           /\ p # NoProxy /\ pending # p => UNCHANGED <<slot, pending>>
  BY ProxyFacts DEF Committed, TypeOK

-----------------------------------------------------------------------------
(* What the steps of a launch do *)

LEMMA ComposeDoes ==
    ASSUME TypeOK, Compose
    PROVE  /\ Free /\ kind = "ordinary" /\ launches' \in 0..MaxLaunches
           /\ launch' \in Thread /\ launch'.pc = "composed" /\ launch'.proxy \in Proxies
           /\ launch'.how = "spawn" => mem.list = "no" /\ agent = NoAgent
           /\ pending' = launch'.proxy \/ (launch'.proxy = NoProxy /\ UNCHANGED pending)
           /\ UNCHANGED <<kind, filters, up, agent, slot, child, mem, row>>
  <1>1. PICK p \in Proxies, how \in {"spawn", "restart"} :
           /\ how = "spawn" => mem.list = "no" /\ agent = NoAgent
           /\ Composed(p)
           /\ launch' = [pc |-> "composed", how |-> how, proxy |-> p]
    BY DEF Compose
  <1>2. launch' \in Thread /\ launch'.pc = "composed" /\ launch'.how = how /\ launch'.proxy = p
    BY <1>1, NewLaunch
  <1> QED BY <1>1, <1>2, ComposedFacts DEF Compose

LEMMA OpenPaneDoes ==
    ASSUME TypeOK, OpenPane
    PROVE  /\ launch.pc \in {"composed", "killed"} /\ launch' \in Thread /\ launch'.pc = "opened"
           /\ launch'.proxy = launch.proxy /\ launch.proxy \in Proxies
           /\ agent' = [proxy |-> launch.proxy, gated |-> FALSE] /\ agent' \in Agents
           /\ UNCHANGED <<kind, filters, up, slot, pending, child, mem, row, launches>>
  <1>1. launch.pc \in {"composed", "killed"} /\ launch # Idle
    BY LaunchFacts DEF OpenPane
  <1>2. launch.proxy \in Proxies
    BY <1>1, LaunchFacts DEF TypeOK, Threads
  <1> QED BY <1>1, <1>2, StepDoes, NewAgent DEF OpenPane, TypeOK

LEMMA FinishDoes ==
    ASSUME TypeOK, Finish
    PROVE  /\ launch.pc = "opened" /\ launch' \in Thread /\ launch'.pc = "unsaved"
           /\ launch'.proxy = launch.proxy /\ launch.proxy \in Proxies
           /\ Committed(launch.proxy)
           /\ mem' \in Listed /\ mem'.list = "live"
           /\ mem'.ep = launch.proxy.ep /\ mem'.tok = launch.proxy.tok
           /\ mem'.state = "none" <=> launch.proxy = NoProxy
           /\ UNCHANGED <<kind, filters, up, agent, child, row, launches>>
  <1>1. launch.pc = "opened" /\ launch # Idle
    BY LaunchFacts DEF Finish
  <1>2. launch.proxy \in Proxies
    BY <1>1, LaunchFacts DEF TypeOK, Threads
  <1>3. PICK b \in BOOLEAN :
           mem' = [list |-> "live", ep |-> launch.proxy.ep, tok |-> launch.proxy.tok,
                   state |-> StateOf(launch.proxy, b)]
    BY DEF Finish
  <1>4. /\ mem' \in Listed /\ mem'.list = "live"
        /\ mem'.ep = launch.proxy.ep /\ mem'.tok = launch.proxy.tok
        /\ mem'.state = StateOf(launch.proxy, b)
    BY <1>2, <1>3, StateFacts, NewMem
  <1>5. mem'.state = "none" <=> launch.proxy = NoProxy
    BY <1>2, <1>4, StateFacts
  <1> QED BY <1>1, <1>2, <1>4, <1>5, StepDoes DEF Finish, TypeOK

LEMMA BeginGatedDoes ==
    ASSUME TypeOK, BeginGated
    PROVE  /\ Settled /\ kind = "child" /\ agent' = NoAgent /\ mem' = Absent
           /\ child' \in Saga /\ child'.pc = "begun" /\ child'.proxy = NoProxy
           /\ UNCHANGED <<kind, filters, up, slot, pending, launch, row, launches>>
  BY ProxyFacts DEF BeginGated, Saga

LEMMA ComposeGatedDoes ==
    ASSUME TypeOK, ComposeGated
    PROVE  /\ Free /\ child.pc = "begun" /\ launches' \in 0..MaxLaunches
           /\ child' \in Saga /\ child'.pc = "composed" /\ child'.proxy \in Proxies
           /\ pending' = child'.proxy \/ (child'.proxy = NoProxy /\ UNCHANGED pending)
           /\ UNCHANGED <<kind, filters, up, agent, slot, launch, mem, row>>
  <1>1. PICK p \in Proxies : Composed(p) /\ child' = [child EXCEPT !.pc = "composed", !.proxy = p]
    BY DEF ComposeGated
  <1>2. child \in Sagas
    BY LaunchFacts DEF ComposeGated, TypeOK
  <1>3. child' \in Sagas /\ child'.pc = "composed" /\ child'.proxy = p
    BY <1>1, <1>2 DEF Sagas
  <1> QED BY <1>1, <1>3, ComposedFacts, LaunchFacts DEF ComposeGated

LEMMA OpenGatedDoes ==
    ASSUME TypeOK, OpenGated
    PROVE  /\ Free /\ child.pc = "composed" /\ child' \in Saga /\ child'.pc = "opened"
           /\ child'.proxy = child.proxy
           /\ agent' = [proxy |-> child.proxy, gated |-> TRUE] /\ agent' \in Agents
           /\ UNCHANGED <<kind, filters, up, slot, pending, launch, mem, row, launches>>
  <1>1. child.pc = "composed" /\ child # Idle
    BY LaunchFacts DEF OpenGated
  <1>2. child.proxy \in Proxies
    BY <1>1, LaunchFacts DEF TypeOK, Sagas
  <1> QED BY <1>1, <1>2, GoDoes, NewAgent DEF OpenGated, TypeOK

LEMMA CommitChildDoes ==
    ASSUME TypeOK, CommitChild
    PROVE  /\ Free /\ child.pc = "opened" /\ child' \in Saga /\ child'.pc = "rowed"
           /\ child'.proxy = child.proxy /\ child.proxy \in Proxies
           /\ mem' \in Listed /\ mem'.list = "live"
           /\ mem'.ep = child.proxy.ep /\ mem'.tok = child.proxy.tok
           /\ mem'.state = "none" <=> child.proxy = NoProxy
           /\ row' \in Record
           /\ child.proxy = NoProxy => row' = row
           /\ child.proxy # NoProxy => row'.ep = mem'.ep /\ row'.tok = mem'.tok
           /\ UNCHANGED <<kind, filters, up, agent, slot, pending, launch, launches>>
  <1>1. child.pc = "opened" /\ child # Idle
    BY LaunchFacts DEF CommitChild
  <1>2. child.proxy \in Proxies
    BY <1>1, LaunchFacts DEF TypeOK, Sagas
  <1>3. /\ StateOf(child.proxy, FALSE) \in States
        /\ StateOf(child.proxy, FALSE) = "none" <=> child.proxy = NoProxy
    BY <1>2, StateFacts
  <1>4. /\ mem' \in Listed /\ mem'.list = "live"
        /\ mem'.ep = child.proxy.ep /\ mem'.tok = child.proxy.tok
        /\ mem'.state = StateOf(child.proxy, FALSE)
    BY <1>2, <1>3, NewMem DEF CommitChild
  <1>5. /\ row' \in Record
        /\ child.proxy = NoProxy => row' = row
        /\ child.proxy # NoProxy => row'.ep = mem'.ep /\ row'.tok = mem'.tok
    <2>1. CASE child.proxy = NoProxy
      BY <2>1 DEF CommitChild, TypeOK
    <2>2. CASE child.proxy # NoProxy
      <3>1. mem'.ep \in Endpoints /\ mem'.tok \in 0..MaxLaunches /\ mem'.tok # 0
        BY <1>2, <1>4, <2>2, ProxyFacts
      <3>2. row' = [ep |-> mem'.ep, tok |-> mem'.tok, state |-> mem'.state]
        BY <2>2 DEF CommitChild
      <3> QED BY <1>3, <1>4, <2>2, <3>1, <3>2, NewRecord
    <2> QED BY <2>1, <2>2
  <1> QED BY <1>1, <1>2, <1>3, <1>4, <1>5, GoDoes DEF CommitChild, TypeOK

LEMMA AwaitEgressDoes ==
    ASSUME TypeOK, MemIsRecorded, ChildIsBound, OneLaunch, AwaitEgress
    PROVE  /\ Free /\ child.pc = "rowed" /\ child' \in Saga /\ child'.pc = "live"
           /\ child'.proxy = child.proxy /\ child.proxy \in Proxies
           /\ Committed(child.proxy)
           /\ mem' \in Listed \cup {Absent, Ghost} /\ mem'.list = mem.list
           /\ mem'.ep = mem.ep /\ mem'.tok = mem.tok /\ (mem'.state = "none" <=> mem.state = "none")
           /\ mem.list # "live" => mem' = mem
           /\ row' \in Record /\ row'.ep = row.ep /\ row'.tok = row.tok
           /\ UNCHANGED <<kind, filters, up, agent, launch, launches>>
  <1>1. child.pc = "rowed" /\ child # Idle
    BY LaunchFacts DEF AwaitEgress
  <1>2. child.proxy \in Proxies
    BY <1>1, LaunchFacts DEF TypeOK, Sagas
  <1>3. CASE mem.list = "live" /\ mem.state = "preparing"
    <2>1. mem \in Listed /\ child.proxy # NoProxy
      BY <1>1, <1>3, MemFacts DEF TypeOK, ChildIsBound
    <2>2. mem' = [mem EXCEPT !.state = "active"] /\ row' = [row EXCEPT !.state = "active"]
      BY <1>3 DEF AwaitEgress
    <2>3. /\ mem' \in Listed /\ mem'.list = mem.list /\ mem'.ep = mem.ep /\ mem'.tok = mem.tok
          /\ mem'.state = "active"
      BY <2>1, <2>2 DEF Listed, States
    <2>4. row.ep # Nowhere
      BY <1>1, <1>2, <2>1, ProxyFacts DEF ChildIsBound
    <2>5. row' \in Record /\ row'.ep = row.ep /\ row'.tok = row.tok
      BY <2>2, <2>4, RecordFacts DEF TypeOK, States
    <2> QED BY <1>1, <1>2, <1>3, <2>3, <2>5, GoDoes DEF AwaitEgress, TypeOK
  <1>4. CASE ~(mem.list = "live" /\ mem.state = "preparing")
    <2>1. mem' = mem /\ row' = row
      BY <1>4 DEF AwaitEgress
    <2> QED BY <1>1, <1>2, <2>1, GoDoes DEF AwaitEgress, TypeOK
  <1> QED BY <1>3, <1>4

LEMMA ReleaseGateDoes ==
    ASSUME TypeOK, ChildIsGated, ReleaseGate
    PROVE  /\ Free /\ child.pc = "live" /\ mem.list = "live"
           /\ agent = [proxy |-> child.proxy, gated |-> TRUE]
           /\ agent' = [proxy |-> child.proxy, gated |-> FALSE] /\ agent' \in Agents
           /\ child.proxy \in Proxies
           /\ child' = Idle
           /\ UNCHANGED <<kind, filters, up, slot, pending, launch, mem, row, launches>>
  <1>1. child.proxy \in Proxies
    BY LaunchFacts DEF TypeOK, Sagas, ReleaseGate
  <1>2. agent = [proxy |-> child.proxy, gated |-> TRUE]
    BY DEF ReleaseGate, ChildIsGated
  <1>3. agent' = [proxy |-> child.proxy, gated |-> FALSE]
    BY <1>2 DEF ReleaseGate
  <1> QED BY <1>1, <1>2, <1>3, NewAgent DEF ReleaseGate

\* Adoption listens at the recorded endpoint, with the recorded token, or says
\* in the record that it could not.
LEMMA AdoptDoes ==
    ASSUME TypeOK, Adopt
    PROVE  /\ Free /\ mem.list = "no" /\ agent # NoAgent /\ child.pc \in {"idle", "live"}
           /\ slot' \in Proxies
           /\ pending' \in {pending, NoProxy}
           /\ \/ slot' = slot /\ (row.ep = Nowhere \/ mem'.state = "unrestorable")
              \/ slot'.ep = row.ep /\ slot'.tok = row.tok /\ row.ep # slot.ep
           /\ row' \in Record /\ row'.ep = row.ep /\ row'.tok = row.tok
           /\ mem' \in Listed /\ mem'.list = "live" /\ mem'.ep = row.ep /\ mem'.tok = 0
           /\ mem'.state = "none" <=> row.ep = Nowhere
           /\ UNCHANGED <<kind, filters, up, agent, launch, child, launches>>
  <1>1. /\ slot' \in Proxies /\ pending' \in {pending, NoProxy}
        /\ \/ slot' = slot /\ (row.ep = Nowhere \/ row'.state = "unrestorable")
           \/ slot'.ep = row.ep /\ slot'.tok = row.tok /\ row.ep # slot.ep
        /\ row' \in Record /\ row'.ep = row.ep /\ row'.tok = row.tok
    <2>1. CASE row.ep = Nowhere /\ UNCHANGED <<row, slot, pending>>
      BY <2>1 DEF TypeOK
    <2>2. CASE /\ row.ep # Nowhere
               /\ \E p \in Proxies : Rebind(p) /\ slot' = p
               /\ pending' = NoProxy /\ row' = [row EXCEPT !.state = "active"]
      <3>1. PICK p \in Proxies : Rebind(p) /\ slot' = p
        BY <2>2
      <3>2. p.ep = row.ep /\ p.tok = row.tok /\ row.ep # slot.ep
        BY <3>1 DEF Rebind
      <3>3. row' \in Record /\ row'.ep = row.ep /\ row'.tok = row.tok
        BY <2>2, RecordFacts DEF TypeOK, States
      <3> QED BY <2>2, <3>1, <3>2, <3>3
    <2>3. CASE /\ row.ep # Nowhere
               /\ pending' = IF filters THEN NoProxy ELSE pending
               /\ row' = [row EXCEPT !.state = "unrestorable"] /\ UNCHANGED slot
      <3>1. row' \in Record /\ row'.ep = row.ep /\ row'.tok = row.tok
        BY <2>3, RecordFacts DEF TypeOK, States
      <3>2. row'.state = "unrestorable"
        BY <2>3 DEF TypeOK, Record
      <3> QED BY <2>3, <3>1, <3>2 DEF TypeOK
    <2> QED BY <2>1, <2>2, <2>3 DEF Adopt
  <1>2. /\ mem' = [list |-> "live", ep |-> row.ep, tok |-> 0, state |-> row'.state]
        /\ row.ep \in Endpoints \cup {Nowhere} /\ row'.state \in States
        /\ row'.state = "none" <=> row.ep = Nowhere
    BY <1>1, RecordFacts DEF Adopt, TypeOK
  <1>3. /\ mem' \in Listed /\ mem'.list = "live" /\ mem'.ep = row.ep /\ mem'.tok = 0
        /\ mem'.state = row'.state
    BY <1>2, EgressAssumption DEF Listed
  <1> QED BY <1>1, <1>2, <1>3 DEF Adopt

-----------------------------------------------------------------------------
(* Every step keeps the invariant *)

LEMMA SaveKeeps ==
    ASSUME EgressInv, Save
    PROVE  EgressInv'
  <1> USE SavedFacts, ProxyFacts, AgentFacts, LaunchFacts, MemFacts, RecordFacts DEF EgressInv, Save, Free
  <1>1. TypeOK'
    BY DEF TypeOK
  <1>2. OneLaunch' /\ GhostHasNone'
    BY DEF TypeOK, OneLaunch, LaunchIsBound, ChildIsBound, GhostHasNone
  <1>3. LaunchIsBound'
    BY DEF TypeOK, OneLaunch, LaunchIsBound
  <1>4. ChildIsGated'
    BY DEF TypeOK, OneLaunch, ChildIsGated
  <1>5. ChildIsBound'
    BY DEF TypeOK, OneLaunch, ChildIsGated, ChildIsBound
  <1>6. MemIsRecorded'
    BY DEF TypeOK, MemIsRecorded, OneLaunch
  <1> QED BY <1>1, <1>2, <1>3, <1>4, <1>5, <1>6

LEMMA ComposeKeeps ==
    ASSUME EgressInv, Compose
    PROVE  EgressInv'
  <1> USE ComposeDoes, ProxyFacts, AgentFacts, LaunchFacts, MemFacts, RecordFacts DEF EgressInv, Free
  <1>1. TypeOK'
    BY DEF TypeOK
  <1>2. OneLaunch' /\ GhostHasNone'
    BY DEF TypeOK, OneLaunch, LaunchIsBound, ChildIsBound, GhostHasNone
  <1>3. LaunchIsBound'
    BY DEF TypeOK, OneLaunch, LaunchIsBound
  <1>4. ChildIsGated'
    BY DEF TypeOK, OneLaunch, ChildIsGated
  <1>5. ChildIsBound'
    BY DEF TypeOK, OneLaunch, ChildIsGated, ChildIsBound
  <1>6. MemIsRecorded'
    BY DEF TypeOK, MemIsRecorded, OneLaunch
  <1> QED BY <1>1, <1>2, <1>3, <1>4, <1>5, <1>6

LEMMA KillOldKeeps ==
    ASSUME EgressInv, KillOld
    PROVE  EgressInv'
  <1> USE StepDoes, ProxyFacts, AgentFacts, LaunchFacts, MemFacts, RecordFacts DEF EgressInv, KillOld
  <1>1. TypeOK'
    BY DEF TypeOK
  <1>2. OneLaunch' /\ GhostHasNone'
    BY DEF TypeOK, OneLaunch, LaunchIsBound, ChildIsBound, GhostHasNone
  <1>3. LaunchIsBound'
    BY DEF TypeOK, OneLaunch, LaunchIsBound
  <1>4. ChildIsGated'
    BY DEF TypeOK, OneLaunch, ChildIsGated
  <1>5. ChildIsBound'
    BY DEF TypeOK, OneLaunch, ChildIsGated, ChildIsBound
  <1>6. MemIsRecorded'
    BY DEF TypeOK, MemIsRecorded, OneLaunch
  <1> QED BY <1>1, <1>2, <1>3, <1>4, <1>5, <1>6

LEMMA OpenPaneKeeps ==
    ASSUME EgressInv, OpenPane
    PROVE  EgressInv'
  <1> USE OpenPaneDoes, ProxyFacts, AgentFacts, LaunchFacts, MemFacts, RecordFacts DEF EgressInv
  <1>1. TypeOK'
    BY DEF TypeOK
  <1>2. OneLaunch' /\ GhostHasNone'
    BY DEF TypeOK, OneLaunch, LaunchIsBound, ChildIsBound, GhostHasNone
  <1>3. LaunchIsBound'
    BY DEF TypeOK, OneLaunch, LaunchIsBound
  <1>4. ChildIsGated'
    BY DEF TypeOK, OneLaunch, ChildIsGated
  <1>5. ChildIsBound'
    BY DEF TypeOK, OneLaunch, ChildIsGated, ChildIsBound
  <1>6. MemIsRecorded'
    BY DEF TypeOK, MemIsRecorded, OneLaunch
  <1> QED BY <1>1, <1>2, <1>3, <1>4, <1>5, <1>6

LEMMA LaunchFailsKeeps ==
    ASSUME EgressInv, LaunchFails
    PROVE  EgressInv'
  <1> USE ProxyFacts, AgentFacts, LaunchFacts, MemFacts, RecordFacts DEF EgressInv, LaunchFails, Discarded
  <1>1. TypeOK'
    BY DEF TypeOK
  <1>2. OneLaunch' /\ GhostHasNone'
    BY DEF TypeOK, OneLaunch, LaunchIsBound, ChildIsBound, GhostHasNone
  <1>3. LaunchIsBound'
    BY DEF TypeOK, OneLaunch, LaunchIsBound
  <1>4. ChildIsGated'
    BY DEF TypeOK, OneLaunch, ChildIsGated
  <1>5. ChildIsBound'
    BY DEF TypeOK, OneLaunch, ChildIsGated, ChildIsBound
  <1>6. MemIsRecorded'
    BY DEF TypeOK, MemIsRecorded, OneLaunch
  <1> QED BY <1>1, <1>2, <1>3, <1>4, <1>5, <1>6

LEMMA FinishKeeps ==
    ASSUME EgressInv, Finish
    PROVE  EgressInv'
  <1> USE FinishDoes, CommittedFacts, ProxyFacts, AgentFacts, LaunchFacts, MemFacts, RecordFacts DEF EgressInv
  <1>1. TypeOK'
    BY DEF TypeOK
  <1>2. OneLaunch' /\ GhostHasNone'
    BY DEF TypeOK, OneLaunch, LaunchIsBound, ChildIsBound, GhostHasNone
  <1>3. LaunchIsBound'
    BY DEF TypeOK, OneLaunch, LaunchIsBound
  <1>4. ChildIsGated'
    BY DEF TypeOK, OneLaunch, ChildIsGated
  <1>5. ChildIsBound'
    BY DEF TypeOK, OneLaunch, ChildIsGated, ChildIsBound
  <1>6. MemIsRecorded'
    BY DEF TypeOK, MemIsRecorded, OneLaunch
  <1> QED BY <1>1, <1>2, <1>3, <1>4, <1>5, <1>6

LEMMA SaveLaunchKeeps ==
    ASSUME EgressInv, SaveLaunch
    PROVE  EgressInv'
  <1> USE SavedFacts, ProxyFacts, AgentFacts, LaunchFacts, MemFacts, RecordFacts DEF EgressInv, SaveLaunch
  <1>1. TypeOK'
    BY DEF TypeOK
  <1>2. OneLaunch' /\ GhostHasNone'
    BY DEF TypeOK, OneLaunch, LaunchIsBound, ChildIsBound, GhostHasNone
  <1>3. LaunchIsBound'
    BY DEF TypeOK, OneLaunch, LaunchIsBound
  <1>4. ChildIsGated'
    BY DEF TypeOK, OneLaunch, ChildIsGated
  <1>5. ChildIsBound'
    BY DEF TypeOK, OneLaunch, ChildIsGated, ChildIsBound
  <1>6. MemIsRecorded'
    BY DEF TypeOK, MemIsRecorded, OneLaunch
  <1> QED BY <1>1, <1>2, <1>3, <1>4, <1>5, <1>6

LEMMA BeginGatedKeeps ==
    ASSUME EgressInv, BeginGated
    PROVE  EgressInv'
  <1> USE BeginGatedDoes, ProxyFacts, AgentFacts, LaunchFacts, MemFacts, RecordFacts DEF EgressInv, Free, Settled
  <1>1. TypeOK'
    BY DEF TypeOK
  <1>2. OneLaunch' /\ GhostHasNone'
    BY DEF TypeOK, OneLaunch, LaunchIsBound, ChildIsBound, GhostHasNone
  <1>3. LaunchIsBound'
    BY DEF TypeOK, OneLaunch, LaunchIsBound
  <1>4. ChildIsGated'
    BY DEF TypeOK, OneLaunch, ChildIsGated
  <1>5. ChildIsBound'
    BY DEF TypeOK, OneLaunch, ChildIsGated, ChildIsBound
  <1>6. MemIsRecorded'
    BY DEF TypeOK, MemIsRecorded, OneLaunch
  <1> QED BY <1>1, <1>2, <1>3, <1>4, <1>5, <1>6

LEMMA ComposeGatedKeeps ==
    ASSUME EgressInv, ComposeGated
    PROVE  EgressInv'
  <1> USE ComposeGatedDoes, ProxyFacts, AgentFacts, LaunchFacts, MemFacts, RecordFacts DEF EgressInv, Free
  <1>1. TypeOK'
    BY DEF TypeOK
  <1>2. OneLaunch' /\ GhostHasNone'
    BY DEF TypeOK, OneLaunch, LaunchIsBound, ChildIsBound, GhostHasNone
  <1>3. LaunchIsBound'
    BY DEF TypeOK, OneLaunch, LaunchIsBound
  <1>4. ChildIsGated'
    BY DEF TypeOK, OneLaunch, ChildIsGated
  <1>5. ChildIsBound'
    BY DEF TypeOK, OneLaunch, ChildIsGated, ChildIsBound
  <1>6. MemIsRecorded'
    BY DEF TypeOK, MemIsRecorded, OneLaunch
  <1> QED BY <1>1, <1>2, <1>3, <1>4, <1>5, <1>6

LEMMA OpenGatedKeeps ==
    ASSUME EgressInv, OpenGated
    PROVE  EgressInv'
  <1> USE OpenGatedDoes, ProxyFacts, AgentFacts, LaunchFacts, MemFacts, RecordFacts DEF EgressInv, Free
  <1>1. TypeOK'
    BY DEF TypeOK
  <1>2. OneLaunch' /\ GhostHasNone'
    BY DEF TypeOK, OneLaunch, LaunchIsBound, ChildIsBound, GhostHasNone
  <1>3. LaunchIsBound'
    BY DEF TypeOK, OneLaunch, LaunchIsBound
  <1>4. ChildIsGated'
    BY DEF TypeOK, OneLaunch, ChildIsGated
  <1>5. ChildIsBound'
    BY DEF TypeOK, OneLaunch, ChildIsGated, ChildIsBound
  <1>6. MemIsRecorded'
    BY DEF TypeOK, MemIsRecorded, OneLaunch
  <1> QED BY <1>1, <1>2, <1>3, <1>4, <1>5, <1>6

LEMMA CommitChildKeeps ==
    ASSUME EgressInv, CommitChild
    PROVE  EgressInv'
  <1> USE CommitChildDoes, ProxyFacts, AgentFacts, LaunchFacts, MemFacts, RecordFacts DEF EgressInv, Free
  <1>1. TypeOK'
    BY DEF TypeOK
  <1>2. OneLaunch' /\ GhostHasNone'
    BY DEF TypeOK, OneLaunch, LaunchIsBound, ChildIsBound, GhostHasNone
  <1>3. LaunchIsBound'
    BY DEF TypeOK, OneLaunch, LaunchIsBound
  <1>4. ChildIsGated'
    BY DEF TypeOK, OneLaunch, ChildIsGated
  <1>5. ChildIsBound'
    BY DEF TypeOK, OneLaunch, ChildIsGated, ChildIsBound
  <1>6. MemIsRecorded'
    BY DEF TypeOK, MemIsRecorded, OneLaunch
  <1> QED BY <1>1, <1>2, <1>3, <1>4, <1>5, <1>6

LEMMA AwaitEgressKeeps ==
    ASSUME EgressInv, AwaitEgress
    PROVE  EgressInv'
  <1> USE AwaitEgressDoes, CommittedFacts, ProxyFacts, AgentFacts, LaunchFacts, MemFacts, RecordFacts DEF EgressInv, Free
  <1>1. TypeOK'
    BY DEF TypeOK
  <1>2. OneLaunch' /\ GhostHasNone'
    BY DEF TypeOK, OneLaunch, LaunchIsBound, ChildIsBound, GhostHasNone
  <1>3. LaunchIsBound'
    BY DEF TypeOK, OneLaunch, LaunchIsBound
  <1>4. ChildIsGated'
    BY DEF TypeOK, OneLaunch, ChildIsGated
  <1>5. ChildIsBound'
    BY DEF TypeOK, OneLaunch, ChildIsGated, ChildIsBound
  <1>6. MemIsRecorded'
    BY DEF TypeOK, MemIsRecorded, OneLaunch
  <1> QED BY <1>1, <1>2, <1>3, <1>4, <1>5, <1>6

LEMMA ReleaseGateKeeps ==
    ASSUME EgressInv, ReleaseGate
    PROVE  EgressInv'
  <1> USE ReleaseGateDoes, ProxyFacts, AgentFacts, LaunchFacts, MemFacts, RecordFacts DEF EgressInv, Free
  <1>1. TypeOK'
    BY DEF TypeOK
  <1>2. OneLaunch' /\ GhostHasNone'
    BY DEF TypeOK, OneLaunch, LaunchIsBound, ChildIsBound, GhostHasNone
  <1>3. LaunchIsBound'
    BY DEF TypeOK, OneLaunch, LaunchIsBound
  <1>4. ChildIsGated'
    BY DEF TypeOK, OneLaunch, ChildIsGated
  <1>5. ChildIsBound'
    BY DEF TypeOK, OneLaunch, ChildIsGated, ChildIsBound
  <1>6. MemIsRecorded'
    BY DEF TypeOK, MemIsRecorded, OneLaunch
  <1> QED BY <1>1, <1>2, <1>3, <1>4, <1>5, <1>6

LEMMA GatedFailsKeeps ==
    ASSUME EgressInv, GatedFails
    PROVE  EgressInv'
  <1> USE ProxyFacts, AgentFacts, LaunchFacts, MemFacts, RecordFacts DEF EgressInv, GatedFails, Stopped, Free
  <1>1. TypeOK'
    BY DEF TypeOK
  <1>2. OneLaunch' /\ GhostHasNone'
    BY DEF TypeOK, OneLaunch, LaunchIsBound, ChildIsBound, GhostHasNone
  <1>3. LaunchIsBound'
    BY DEF TypeOK, OneLaunch, LaunchIsBound
  <1>4. ChildIsGated'
    BY DEF TypeOK, OneLaunch, ChildIsGated
  <1>5. ChildIsBound'
    BY DEF TypeOK, OneLaunch, ChildIsGated, ChildIsBound
  <1>6. MemIsRecorded'
    BY DEF TypeOK, MemIsRecorded, OneLaunch
  <1> QED BY <1>1, <1>2, <1>3, <1>4, <1>5, <1>6

LEMMA UnloadKeeps ==
    ASSUME EgressInv, Unload
    PROVE  EgressInv'
  <1> USE SavedFacts, ProxyFacts, AgentFacts, LaunchFacts, MemFacts, RecordFacts DEF EgressInv, Unload, Stopped, Free
  <1>1. TypeOK'
    BY DEF TypeOK
  <1>2. OneLaunch' /\ GhostHasNone'
    BY DEF TypeOK, OneLaunch, LaunchIsBound, ChildIsBound, GhostHasNone
  <1>3. LaunchIsBound'
    BY DEF TypeOK, OneLaunch, LaunchIsBound
  <1>4. ChildIsGated'
    BY DEF TypeOK, OneLaunch, ChildIsGated
  <1>5. ChildIsBound'
    BY DEF TypeOK, OneLaunch, ChildIsGated, ChildIsBound
  <1>6. MemIsRecorded'
    BY DEF TypeOK, MemIsRecorded, OneLaunch
  <1> QED BY <1>1, <1>2, <1>3, <1>4, <1>5, <1>6

LEMMA DeleteKeeps ==
    ASSUME EgressInv, Delete
    PROVE  EgressInv'
  <1> USE ProxyFacts, AgentFacts, LaunchFacts, MemFacts, RecordFacts DEF EgressInv, Delete, Settled, Stopped, Free
  <1>1. TypeOK'
    BY DEF TypeOK
  <1>2. OneLaunch' /\ GhostHasNone'
    BY DEF TypeOK, OneLaunch, LaunchIsBound, ChildIsBound, GhostHasNone
  <1>3. LaunchIsBound'
    BY DEF TypeOK, OneLaunch, LaunchIsBound
  <1>4. ChildIsGated'
    BY DEF TypeOK, OneLaunch, ChildIsGated
  <1>5. ChildIsBound'
    BY DEF TypeOK, OneLaunch, ChildIsGated, ChildIsBound
  <1>6. MemIsRecorded'
    BY DEF TypeOK, MemIsRecorded, OneLaunch
  <1> QED BY <1>1, <1>2, <1>3, <1>4, <1>5, <1>6

LEMMA RemovedKeeps ==
    ASSUME EgressInv, Removed
    PROVE  EgressInv'
  <1> USE ProxyFacts, AgentFacts, LaunchFacts, MemFacts, RecordFacts DEF EgressInv, Removed, Free
  <1>1. TypeOK'
    BY DEF TypeOK
  <1>2. OneLaunch' /\ GhostHasNone'
    BY DEF TypeOK, OneLaunch, LaunchIsBound, ChildIsBound, GhostHasNone
  <1>3. LaunchIsBound'
    BY DEF TypeOK, OneLaunch, LaunchIsBound
  <1>4. ChildIsGated'
    BY DEF TypeOK, OneLaunch, ChildIsGated
  <1>5. ChildIsBound'
    BY DEF TypeOK, OneLaunch, ChildIsGated, ChildIsBound
  <1>6. MemIsRecorded'
    BY DEF TypeOK, MemIsRecorded, OneLaunch
  <1> QED BY <1>1, <1>2, <1>3, <1>4, <1>5, <1>6

LEMMA AdoptKeeps ==
    ASSUME EgressInv, Adopt
    PROVE  EgressInv'
  <1> USE AdoptDoes, ProxyFacts, AgentFacts, LaunchFacts, MemFacts, RecordFacts DEF EgressInv, Free
  <1>1. TypeOK'
    BY DEF TypeOK
  <1>2. OneLaunch' /\ GhostHasNone'
    BY DEF TypeOK, OneLaunch, LaunchIsBound, ChildIsBound, GhostHasNone
  <1>3. LaunchIsBound'
    BY DEF TypeOK, OneLaunch, LaunchIsBound
  <1>4. ChildIsGated'
    BY DEF TypeOK, OneLaunch, ChildIsGated
  <1>5. ChildIsBound'
    BY DEF TypeOK, OneLaunch, ChildIsGated, ChildIsBound
  <1>6. MemIsRecorded'
    BY DEF TypeOK, MemIsRecorded, OneLaunch
  <1> QED BY <1>1, <1>2, <1>3, <1>4, <1>5, <1>6

LEMMA HauntKeeps ==
    ASSUME EgressInv, Haunt
    PROVE  EgressInv'
  <1> USE ProxyFacts, AgentFacts, LaunchFacts, MemFacts, RecordFacts DEF EgressInv, Haunt, Stopped, Settled, Free
  <1>1. TypeOK'
    BY DEF TypeOK
  <1>2. OneLaunch' /\ GhostHasNone'
    BY DEF TypeOK, OneLaunch, LaunchIsBound, ChildIsBound, GhostHasNone
  <1>3. LaunchIsBound'
    BY DEF TypeOK, OneLaunch, LaunchIsBound
  <1>4. ChildIsGated'
    BY DEF TypeOK, OneLaunch, ChildIsGated
  <1>5. ChildIsBound'
    BY DEF TypeOK, OneLaunch, ChildIsGated, ChildIsBound
  <1>6. MemIsRecorded'
    BY DEF TypeOK, MemIsRecorded, OneLaunch
  <1> QED BY <1>1, <1>2, <1>3, <1>4, <1>5, <1>6

LEMMA EditProfileKeeps ==
    ASSUME EgressInv, EditProfile
    PROVE  EgressInv'
  <1> USE ProxyFacts, AgentFacts, LaunchFacts, MemFacts, RecordFacts DEF EgressInv, EditProfile, Free
  <1>1. TypeOK'
    BY DEF TypeOK
  <1>2. OneLaunch' /\ GhostHasNone'
    BY DEF TypeOK, OneLaunch, LaunchIsBound, ChildIsBound, GhostHasNone
  <1>3. LaunchIsBound'
    BY DEF TypeOK, OneLaunch, LaunchIsBound
  <1>4. ChildIsGated'
    BY DEF TypeOK, OneLaunch, ChildIsGated
  <1>5. ChildIsBound'
    BY DEF TypeOK, OneLaunch, ChildIsGated, ChildIsBound
  <1>6. MemIsRecorded'
    BY DEF TypeOK, MemIsRecorded, OneLaunch
  <1> QED BY <1>1, <1>2, <1>3, <1>4, <1>5, <1>6

LEMMA QuitKeeps ==
    ASSUME EgressInv, Quit
    PROVE  EgressInv'
  <1> USE SavedFacts, ProxyFacts, AgentFacts, LaunchFacts, MemFacts, RecordFacts DEF EgressInv, Quit, Down, Stopped, Settled, Free
  <1>1. TypeOK'
    BY DEF TypeOK
  <1>2. OneLaunch' /\ GhostHasNone'
    BY DEF TypeOK, OneLaunch, LaunchIsBound, ChildIsBound, GhostHasNone
  <1>3. LaunchIsBound'
    BY DEF TypeOK, OneLaunch, LaunchIsBound
  <1>4. ChildIsGated'
    BY DEF TypeOK, OneLaunch, ChildIsGated
  <1>5. ChildIsBound'
    BY DEF TypeOK, OneLaunch, ChildIsGated, ChildIsBound
  <1>6. MemIsRecorded'
    BY DEF TypeOK, MemIsRecorded, OneLaunch
  <1> QED BY <1>1, <1>2, <1>3, <1>4, <1>5, <1>6

LEMMA CrashKeeps ==
    ASSUME EgressInv, Crash
    PROVE  EgressInv'
  <1> USE ProxyFacts, AgentFacts, LaunchFacts, MemFacts, RecordFacts DEF EgressInv, Crash, Down, Stopped
  <1>1. TypeOK'
    BY DEF TypeOK
  <1>2. OneLaunch' /\ GhostHasNone'
    BY DEF TypeOK, OneLaunch, LaunchIsBound, ChildIsBound, GhostHasNone
  <1>3. LaunchIsBound'
    BY DEF TypeOK, OneLaunch, LaunchIsBound
  <1>4. ChildIsGated'
    BY DEF TypeOK, OneLaunch, ChildIsGated
  <1>5. ChildIsBound'
    BY DEF TypeOK, OneLaunch, ChildIsGated, ChildIsBound
  <1>6. MemIsRecorded'
    BY DEF TypeOK, MemIsRecorded, OneLaunch
  <1> QED BY <1>1, <1>2, <1>3, <1>4, <1>5, <1>6

LEMMA StartKeeps ==
    ASSUME EgressInv, Start
    PROVE  EgressInv'
  <1> USE ProxyFacts, AgentFacts, LaunchFacts, MemFacts, RecordFacts DEF EgressInv, Start
  <1>1. TypeOK'
    BY DEF TypeOK
  <1>2. OneLaunch' /\ GhostHasNone'
    BY DEF TypeOK, OneLaunch, LaunchIsBound, ChildIsBound, GhostHasNone
  <1>3. LaunchIsBound'
    BY DEF TypeOK, OneLaunch, LaunchIsBound
  <1>4. ChildIsGated'
    BY DEF TypeOK, OneLaunch, ChildIsGated
  <1>5. ChildIsBound'
    BY DEF TypeOK, OneLaunch, ChildIsGated, ChildIsBound
  <1>6. MemIsRecorded'
    BY DEF TypeOK, MemIsRecorded, OneLaunch
  <1> QED BY <1>1, <1>2, <1>3, <1>4, <1>5, <1>6

LEMMA PaneLostKeeps ==
    ASSUME EgressInv, PaneLost
    PROVE  EgressInv'
  <1> USE ProxyFacts, AgentFacts, LaunchFacts, MemFacts, RecordFacts DEF EgressInv, PaneLost
  <1>1. TypeOK'
    BY DEF TypeOK
  <1>2. OneLaunch' /\ GhostHasNone'
    BY DEF TypeOK, OneLaunch, LaunchIsBound, ChildIsBound, GhostHasNone
  <1>3. LaunchIsBound'
    BY DEF TypeOK, OneLaunch, LaunchIsBound
  <1>4. ChildIsGated'
    BY DEF TypeOK, OneLaunch, ChildIsGated
  <1>5. ChildIsBound'
    BY DEF TypeOK, OneLaunch, ChildIsGated, ChildIsBound
  <1>6. MemIsRecorded'
    BY DEF TypeOK, MemIsRecorded, OneLaunch
  <1> QED BY <1>1, <1>2, <1>3, <1>4, <1>5, <1>6


LEMMA InitKeeps == Init => EgressInv
  <1> SUFFICES ASSUME Init PROVE EgressInv
    OBVIOUS
  <1> USE ProxyFacts, LaunchFacts, MemFacts, RecordFacts, EgressAssumption DEF Init
  <1>1. TypeOK
    BY DEF TypeOK
  <1>2. OneLaunch /\ LaunchIsBound /\ ChildIsGated /\ ChildIsBound
    BY DEF OneLaunch, LaunchIsBound, ChildIsGated, ChildIsBound
  <1>3. MemIsRecorded /\ GhostHasNone
    BY DEF MemIsRecorded, GhostHasNone
  <1> QED BY <1>1, <1>2, <1>3 DEF EgressInv

LEMMA NextKeeps == EgressInv /\ [Next]_vars => EgressInv'
  <1> SUFFICES ASSUME EgressInv, [Next]_vars PROVE EgressInv'
    OBVIOUS
  <1>1. CASE UNCHANGED vars
    BY <1>1 DEF vars, EgressInv, TypeOK, OneLaunch, LaunchIsBound, ChildIsGated, ChildIsBound,
       MemIsRecorded, GhostHasNone
  <1>2. CASE Launches
    BY <1>2, ComposeKeeps, KillOldKeeps, OpenPaneKeeps, LaunchFailsKeeps, FinishKeeps,
       SaveLaunchKeeps DEF Launches
  <1>3. CASE Gated
    BY <1>3, BeginGatedKeeps, ComposeGatedKeeps, OpenGatedKeeps, CommitChildKeeps,
       AwaitEgressKeeps, ReleaseGateKeeps, GatedFailsKeeps DEF Gated
  <1>4. CASE \/ Save \/ Unload \/ Delete \/ Removed \/ Adopt \/ Haunt \/ EditProfile
             \/ Quit \/ Crash \/ Start \/ PaneLost
    BY <1>4, SaveKeeps, UnloadKeeps, DeleteKeeps, RemovedKeeps, AdoptKeeps, HauntKeeps,
       EditProfileKeeps, QuitKeeps, CrashKeeps, StartKeeps, PaneLostKeeps
  <1> QED BY <1>1, <1>2, <1>3, <1>4 DEF Next

\* The inductive invariant holds, whatever fails, restarts or is edited.
THEOREM EgressInvariant == Spec => []EgressInv
  BY InitKeeps, NextKeeps, PTL DEF Spec

\* Type correctness: in particular a record has a token and a state exactly
\* when it has an endpoint.
THEOREM EgressTypeCorrect == Spec => []TypeOK
  <1>1. EgressInv => TypeOK
    BY DEF EgressInv
  <1> QED BY <1>1, EgressInvariant, PTL

\* Nothing listens for nobody, even when friring dies between a pane and the
\* record of it.
THEOREM NothingIsLeftOver == Spec => []NothingIsLeft
  <1>1. EgressInv => NothingIsLeft
    BY LaunchFacts, ProxyFacts
       DEF EgressInv, TypeOK, OneLaunch, LaunchIsBound, ChildIsBound, GhostHasNone, NothingIsLeft,
           Thread, Saga
  <1> QED BY <1>1, EgressInvariant, PTL

-----------------------------------------------------------------------------
(* What no step does *)

\* No failure on the way to a launch, and no restart, takes its boundary from
\* an agent that goes on running.
THEOREM BoundaryStays == Spec => BoundaryIsKept
  <1>1. ASSUME EgressInv, [Next]_vars, agent # NoAgent, agent' = agent, slot = agent.proxy,
               mem.list = "live", mem'.list = "live"
        PROVE  slot' = slot
    <2> USE <1>1 DEF EgressInv
    <2>1. CASE UNCHANGED vars
      BY <2>1 DEF vars
    <2>2. CASE Launches
      <3>1. CASE Finish
        <4>1. agent.proxy = launch.proxy
          BY <3>1, NewAgent, FinishDoes DEF LaunchIsBound
        <4> QED BY <3>1, <4>1, <1>1, FinishDoes, CommittedFacts
      <3>2. CASE Compose
        BY <3>2, ComposeDoes
      <3> QED BY <2>2, <3>1, <3>2 DEF Launches, KillOld, OpenPane, LaunchFails, SaveLaunch
    <2>3. CASE Gated
      <3>1. CASE AwaitEgress
        <4>1. agent.proxy = child.proxy
          BY <1>1, <3>1, NewAgent, AwaitEgressDoes DEF ChildIsGated
        <4> QED BY <1>1, <3>1, <4>1, AwaitEgressDoes, CommittedFacts
      <3>2. CASE BeginGated \/ GatedFails
        BY <1>1, <3>2, MemFacts DEF BeginGated, GatedFails
      <3>3. CASE ComposeGated
        BY <3>3, ComposeGatedDoes
      <3> QED BY <2>3, <3>1, <3>2, <3>3 DEF Gated, OpenGated, CommitChild, ReleaseGate
    <2>4. CASE \/ Save \/ Unload \/ Delete \/ Removed \/ Adopt \/ Haunt \/ EditProfile
               \/ Quit \/ Crash \/ Start \/ PaneLost
      BY <1>1, <2>4, MemFacts DEF Save, Unload, Delete, Removed, Adopt, Haunt, EditProfile,
         Quit, Crash, Down, Start, PaneLost
    <2> QED BY <1>1, <2>1, <2>2, <2>3, <2>4 DEF Next
  <1>2. EgressInv /\ [Next]_vars =>
           [agent # NoAgent /\ agent' = agent /\ slot = agent.proxy
            /\ mem.list = "live" /\ mem'.list = "live" => slot' = slot]_vars
    BY <1>1
  <1> QED BY <1>2, EgressInvariant, PTL DEF Spec, BoundaryIsKept

\* The record's token changes only to that of the agent in the pane.
THEOREM TokenIsAgents == Spec => TokenFollowsAgent
  <1>1. ASSUME EgressInv, [Next]_vars, row'.tok # row.tok
        PROVE  agent # NoAgent /\ row'.tok = agent.proxy.tok
    <2> USE <1>1 DEF EgressInv
    <2>1. CASE SaveLaunch
      <3>1. /\ agent = [proxy |-> launch.proxy, gated |-> FALSE] /\ row' = Saved
            /\ mem.list = "live" /\ mem.ep = launch.proxy.ep /\ mem.tok = launch.proxy.tok
            /\ launch.proxy \in Proxies
        BY <2>1, LaunchFacts DEF SaveLaunch, LaunchIsBound, TypeOK, Threads
      <3>2. mem.ep # Nowhere /\ mem.tok # 0
        BY <1>1, <3>1, SavedFacts, ProxyFacts
      <3> QED BY <3>1, <3>2, SavedFacts, NewAgent
    <2>2. CASE CommitChild
      <3>1. agent = [proxy |-> child.proxy, gated |-> TRUE] /\ child.proxy \in Proxies
        BY <2>2, CommitChildDoes DEF ChildIsGated
      <3> QED BY <1>1, <2>2, <3>1, CommitChildDoes, NewAgent
    <2>3. CASE AwaitEgress \/ Adopt
      BY <1>1, <2>3, AwaitEgressDoes, AdoptDoes
    <2>4. CASE Save \/ Unload \/ Quit
      <3>1. launch.pc # "unsaved" /\ row' = Saved
        BY <2>4, LaunchFacts DEF Save, Unload, Quit, Settled, Free
      <3> QED BY <1>1, <3>1, SavedFacts
    <2>5. CASE Compose \/ ComposeGated \/ BeginGated
      BY <1>1, <2>5, ComposeDoes, ComposeGatedDoes, BeginGatedDoes
    <2>6. row' # row
      BY <1>1
    <2> QED BY <1>1, <2>1, <2>2, <2>3, <2>4, <2>5, <2>6
            DEF Next, Launches, Gated, vars, KillOld, OpenPane, LaunchFails, Finish, OpenGated,
                ReleaseGate, GatedFails, Delete, Removed, Haunt, EditProfile, Crash, Start, PaneLost
  <1>2. EgressInv /\ [Next]_vars =>
           [row'.tok # row.tok => agent # NoAgent /\ row'.tok = agent.proxy.tok]_vars
    BY <1>1
  <1> QED BY <1>2, EgressInvariant, PTL DEF Spec, TokenFollowsAgent

\* The gate of a child opens on an agent that is served, or needs no proxy.
THEOREM GateWaits == Spec => GateIsFiltered
  <1>1. ASSUME EgressInv, [Next]_vars, agent # NoAgent, agent.gated, agent' # NoAgent, ~agent'.gated
        PROVE  agent.proxy \in {slot, NoProxy}
    <2> USE <1>1 DEF EgressInv
    <2>1. CASE ReleaseGate
      <3>1. child.pc = "live" /\ agent.proxy = child.proxy
        BY <2>1, ReleaseGateDoes, NewAgent
      <3> QED BY <1>1, <3>1 DEF ChildIsBound
    <2>2. CASE OpenPane
      <3>1. launch # Idle /\ kind = "ordinary"
        BY <2>2, OpenPaneDoes, LaunchFacts DEF OneLaunch
      <3>2. ~agent.gated
        BY <2>2, <3>1, OpenPaneDoes DEF ChildIsGated
      <3> QED BY <1>1, <3>2
    <2>3. CASE OpenGated
      BY <1>1, <2>3, OpenGatedDoes, NewAgent, LaunchFacts DEF TypeOK, Sagas
    <2>4. CASE BeginGated \/ ComposeGated \/ CommitChild \/ AwaitEgress \/ GatedFails
      BY <1>1, <2>4, BeginGatedDoes, ComposeGatedDoes, CommitChildDoes, AwaitEgressDoes DEF GatedFails
    <2>5. CASE Compose \/ KillOld \/ LaunchFails \/ Finish \/ SaveLaunch
      BY <1>1, <2>5, ComposeDoes, FinishDoes DEF KillOld, LaunchFails, SaveLaunch
    <2>6. CASE \/ Save \/ Unload \/ Delete \/ Removed \/ Adopt \/ Haunt \/ EditProfile
               \/ Quit \/ Crash \/ Start \/ PaneLost \/ UNCHANGED vars
      BY <1>1, <2>6 DEF Save, Unload, Delete, Removed, Adopt, Haunt, EditProfile, Quit, Crash, Down,
         Start, PaneLost, vars
    <2> QED BY <1>1, <2>1, <2>2, <2>3, <2>4, <2>5, <2>6 DEF Next, Launches, Gated
  <1>2. EgressInv /\ [Next]_vars =>
           [agent # NoAgent /\ agent.gated /\ agent' # NoAgent /\ ~agent'.gated
            => agent.proxy \in {slot, NoProxy}]_vars
    BY <1>1
  <1> QED BY <1>2, EgressInvariant, PTL DEF Spec, GateIsFiltered

-----------------------------------------------------------------------------
(* An agent that runs is served *)

LEMMA LaunchesServe ==
    ASSUME EgressInv, ServedInv, Launches
    PROVE  ServedInv'
  <1> USE ProxyFacts, LaunchFacts, MemFacts
      DEF EgressInv, ServedInv, AgentIsRecorded, AgentIsServed, Proxied
  <1>1. CASE Compose
    BY <1>1, ComposeDoes DEF Free
  <1>2. CASE KillOld
    BY <1>2, StepDoes DEF KillOld, TypeOK
  <1>3. CASE OpenPane
    BY <1>3, OpenPaneDoes
  <1>4. CASE LaunchFails
    BY <1>4 DEF LaunchFails, TypeOK
  <1>5. CASE Finish
    BY <1>5, FinishDoes
  <1>6. CASE SaveLaunch
    <2>1. /\ agent = [proxy |-> launch.proxy, gated |-> FALSE] /\ launch.proxy \in Proxies
          /\ slot = launch.proxy /\ row' = Saved
          /\ mem.list = "live" /\ mem.ep = launch.proxy.ep /\ mem.tok = launch.proxy.tok
          /\ UNCHANGED <<agent, slot>>
      BY <1>6 DEF SaveLaunch, LaunchIsBound, TypeOK, Threads
    <2>2. agent.proxy = launch.proxy
      BY <2>1, NewAgent
    <2>3. launch.proxy # NoProxy => row'.ep = launch.proxy.ep /\ row'.tok = launch.proxy.tok
      BY <2>1, SavedFacts
    <2> QED BY <2>1, <2>2, <2>3
  <1> QED BY <1>1, <1>2, <1>3, <1>4, <1>5, <1>6 DEF Launches

LEMMA GatedServes ==
    ASSUME EgressInv, ServedInv, Gated
    PROVE  ServedInv'
  <1> USE ProxyFacts, LaunchFacts, MemFacts
      DEF EgressInv, ServedInv, AgentIsRecorded, AgentIsServed, Proxied
  <1>1. CASE BeginGated \/ ComposeGated
    BY <1>1, BeginGatedDoes, ComposeGatedDoes DEF ChildIsGated
  <1>2. CASE OpenGated
    BY <1>2, OpenGatedDoes, NewAgent DEF TypeOK, Sagas
  <1>3. CASE CommitChild \/ AwaitEgress
    <2>1. /\ child.pc \in {"opened", "rowed"} /\ child.proxy \in Proxies /\ UNCHANGED agent
      BY <1>3, CommitChildDoes, AwaitEgressDoes
    <2>2. agent # NoAgent => agent.gated
      BY <2>1, NewAgent DEF ChildIsGated
    <2> QED BY <2>1, <2>2
  <1>4. CASE ReleaseGate
    <2>1. agent'.proxy = child.proxy /\ agent.proxy = child.proxy /\ agent # NoAgent
      BY <1>4, ReleaseGateDoes, NewAgent
    <2> QED BY <1>4, <2>1, ReleaseGateDoes DEF ChildIsBound
  <1>5. CASE GatedFails
    BY <1>5 DEF GatedFails
  <1> QED BY <1>1, <1>2, <1>3, <1>4, <1>5 DEF Gated

LEMMA OthersServe ==
    ASSUME EgressInv, ServedInv, CrashInLaunch = FALSE,
           \/ Save \/ Unload \/ Delete \/ Removed \/ Adopt \/ Haunt \/ EditProfile
           \/ Quit \/ Crash \/ Start \/ PaneLost
    PROVE  ServedInv'
  <1> USE LaunchFacts, MemFacts
      DEF EgressInv, ServedInv, AgentIsRecorded, AgentIsServed, Proxied, Free, Settled
  <1>1. CASE Save
    BY <1>1, SavedFacts DEF Save
  <1>2. CASE Unload
    BY <1>2 DEF Unload
  <1>3. CASE Delete \/ Removed \/ Haunt \/ EditProfile \/ Start \/ PaneLost
    BY <1>3 DEF Delete, Removed, Haunt, EditProfile, Start, PaneLost
  <1>4. CASE Adopt
    <2>1. agent \in Agents
      BY <1>4 DEF Adopt, TypeOK
    <2> QED BY <1>4, <2>1, AdoptDoes, AgentFacts, ProxyFacts
  <1>5. CASE Quit
    BY <1>5, SavedFacts DEF Quit, Down
  <1>6. CASE Crash
    BY <1>6 DEF Crash, Down
  <1> QED BY <1>1, <1>2, <1>3, <1>4, <1>5, <1>6

\* The agent that runs is served at its endpoint with its token, or its record
\* says that it cannot be: proved where friring does not die between a pane and
\* the record of it (MCEgress_v_lost.cfg shows what such a death costs).
THEOREM RunningServed == ASSUME CrashInLaunch = FALSE PROVE Spec => []RunningIsServed
  <1>1. Init => ServedInv
    BY DEF Init, ServedInv, AgentIsRecorded, AgentIsServed, Proxied
  <1>2. EgressInv /\ ServedInv /\ [Next]_vars => ServedInv'
    <2> SUFFICES ASSUME EgressInv, ServedInv, [Next]_vars PROVE ServedInv'
      OBVIOUS
    <2>1. CASE UNCHANGED vars
      BY <2>1 DEF vars, ServedInv, AgentIsRecorded, AgentIsServed, Proxied
    <2> QED BY <2>1, LaunchesServe, GatedServes, OthersServe DEF Next
  <1>3. EgressInv /\ ServedInv => RunningIsServed
    BY LaunchFacts DEF EgressInv, ServedInv, AgentIsServed, Proxied, RunningIsServed, Settled, Free
  <1> QED BY <1>1, <1>2, <1>3, EgressInvariant, PTL DEF Spec
=============================================================================
