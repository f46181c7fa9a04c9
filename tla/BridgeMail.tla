----------------------------- MODULE BridgeMail -----------------------------
(***************************************************************************)
(* Bridge mail and its reminders (app/bridge.rs over storage/messages.rs). *)
(* An owner and its children write each other; a message is a row, and the *)
(* reminder that it waits is a record in the memory of each friring        *)
(* process: owed when mail is put, spent by any bridge call, settled when  *)
(* the mailbox is found empty, rebuilt from the mailbox on a slow pass.    *)
(* A tick types at most one reminder, to the recipient that waits longest; *)
(* a child that leaves too many unanswered is reported `stalled'.          *)
(*                                                                         *)
(* Every friring process on the database adopts the same panes.  Only one  *)
(* of them serves a given bridge call; each keeps reminders of its own.    *)
(***************************************************************************)
EXTENDS Naturals, Sequences, FiniteSets, SequencesExt

CONSTANTS
    Owner, Children,  \* the sessions with a bridge
    Instances,        \* friring processes
    MaxUnanswered,    \* MAX_UNANSWERED_NUDGES
    MaxRecords,       \* MAX_NUDGE_RECORDS
    Cap,              \* MAX_UNREAD_PER_CHILD, MAX_UNREAD_PER_OWNER
    MaxSends,         \* bound: messages put, reports and plain mail included
    MaxMoves          \* bound: panes that change, sessions parked or resumed, restarts

Sessions == {Owner} \cup Children

ASSUME MailAssumption ==
    /\ Owner \notin Children /\ IsFiniteSet(Children)
    /\ {MaxUnanswered, Cap} \subseteq Nat \ {0}
    /\ {MaxRecords, MaxSends, MaxMoves} \subseteq Nat

VARIABLES
    \* --- the database ---
    unread,   \* session |-> its unread messages, oldest first
    state,    \* child |-> its state, as far as mail reads or writes it
    \* --- the panes ---
    pane,     \* session |-> "free", or "prompt": its hook or its screen asks
    \* --- each process ---
    loaded,   \* instance |-> sessions it has in the pane it knows: neither
              \* placeholders nor moved since
    nudges,   \* instance |-> session |-> its NudgeRecord, or NoRecord
    waiting,  \* instance |-> recipients whose interval passed, longest first
    cooling,  \* instance |-> recipients tried less than NUDGE_INTERVAL ago
    \* --- history and bounds ---
    silent,   \* session |-> reminders typed since its last bridge call, up to the allowance
    told,     \* instance |-> children reported stalled since their last call, or
              \* since that process forgot them
    fresh,    \* sessions sent bridge mail since a reminder was last typed
    sends, moves

db      == <<unread, state>>
memory  == <<nudges, waiting, cooling>>
history == <<silent, told, fresh>>
bounds  == <<sends, moves>>
vars    == <<db, pane, loaded, memory, history, bounds>>

\* Bridge mail, and mail put by `message send --no-wake'.
MailKinds == {"bridge", "stalled"}
Kinds     == MailKinds \cup {"plain"}
Running   == {"ready", "blocked"}  \* "ready" stands for `working' as well

NoRecord == [unanswered |-> 0, reported |-> FALSE, owed |-> FALSE]
Owed     == [NoRecord EXCEPT !.owed = TRUE]
Records  == [unanswered : 0..MaxUnanswered, reported : BOOLEAN, owed : {TRUE}] \cup {NoRecord}

Has(s, kinds) == \E n \in DOMAIN unread[s] : unread[s][n] \in kinds
Full(s)       == Len(unread[s]) >= Cap
Put(box, s, kind) == [box EXCEPT ![s] = Append(@, kind)]

-----------------------------------------------------------------------------
(* Bridge calls *)

\* Mutant: the count outlives the calls that answer it.
SpendNothing(i, s) == UNCHANGED nudges

\* Mutant: a call is taken for proof that the mail was read.
SpendRecord(i, s) ==
    nudges' = [nudges EXCEPT ![i][s] = NoRecord]

\* dispatch_bridge_request: any call spends the count, not the record.
Spend(i, s) ==
    nudges' = [nudges EXCEPT ![i][s] = IF @.owed THEN Owed ELSE @]

Heard(s) ==
    /\ silent' = [silent EXCEPT ![s] = 0]
    /\ told' = [i \in Instances |-> told[i] \ {s}]

\* status, or a call that is refused.
Status(i, s) ==
    /\ s \in loaded[i]
    /\ Spend(i, s) /\ Heard(s)
    /\ UNCHANGED <<db, pane, loaded, waiting, cooling, fresh, bounds>>

\* inbox --claim: the oldest messages, up to the limit asked for.
Claim(i, s, limit) ==
    /\ s \in loaded[i] /\ unread[s] # <<>>
    /\ Spend(i, s) /\ Heard(s)
    /\ unread' = [unread EXCEPT ![s] = SubSeq(@, limit + 1, Len(@))]
    /\ UNCHANGED <<state, pane, loaded, waiting, cooling, fresh, bounds>>

\* What a call of `s' leaves of its own record, and what its mail owes `to'.
Deliver(i, s, to, kind) ==
    /\ unread' = Put(unread, to, kind)
    /\ fresh' = fresh \cup {to}
    /\ nudges' = [nudges EXCEPT ![i][s]  = IF @.owed THEN Owed ELSE @,
                                ![i][to] = IF @.owed THEN @ ELSE Owed]
    /\ waiting' = IF nudges[i][to].owed THEN waiting
                  ELSE [waiting EXCEPT ![i] = Append(@, to)]

\* send to the owner, or to a child; a full mailbox refuses it (Status).
Send(i, s, to) ==
    /\ s \in loaded[i] /\ sends < MaxSends
    /\ to = Owner <=> s # Owner
    /\ ~Full(to)
    /\ Deliver(i, s, to, "bridge") /\ Heard(s)
    /\ sends' = sends + 1
    /\ UNCHANGED <<state, pane, loaded, cooling, moves>>

\* report that needs the operator: only a running child is moved, and its
\* owner's copy is lost on a full mailbox.
ReportBlocked(i, c) ==
    /\ c \in loaded[i] /\ sends < MaxSends
    /\ state' = [state EXCEPT ![c] = IF @ \in Running THEN "blocked" ELSE @]
    /\ IF Full(Owner) THEN Spend(i, c) /\ UNCHANGED <<unread, waiting, fresh>>
                      ELSE Deliver(i, c, Owner, "bridge")
    /\ Heard(c)
    /\ sends' = sends + 1
    /\ UNCHANGED <<pane, loaded, cooling, moves>>

-----------------------------------------------------------------------------
(* The broker's tick *)

\* mirror_child_states: a running child's hook state.
Mirror(i, c) ==
    /\ c \in loaded[i] /\ state[c] \in Running
    /\ state' = [state EXCEPT ![c] = IF pane[c] = "prompt" THEN "blocked" ELSE "ready"]
    /\ UNCHANGED <<unread, pane, loaded, memory, history, bounds>>

\* Mutant: reminders are owed when mail is put, and only then.
NoReconcile(i) == FALSE /\ UNCHANGED vars

\* What is left of a line without the `gone', in its order, and the `new' ones
\* behind it, in any.
Left(line, new, gone) ==
    {q \in SetToSeqs((ToSet(line) \cup new) \ gone) :
        \A m, n \in DOMAIN q : m < n /\ q[n] \notin new =>
            \E a, b \in DOMAIN line : a < b /\ line[a] = q[m] /\ line[b] = q[n]}

\* reconcile_owed_nudges: whatever waits for a loaded session is owed again;
\* past the ceiling, the records of sessions not loaded here go.
Reconcile(i) ==
    LET owing == {s \in loaded[i] : Has(s, MailKinds)}
        kept  == {s \in Sessions : nudges[i][s].owed} \cup owing
        gone  == IF Cardinality(kept) > MaxRecords THEN kept \ loaded[i] ELSE {}
    IN  /\ owing \ {s \in Sessions : nudges[i][s].owed} # {} \/ gone # {}
        /\ \E q \in Left(waiting[i], {s \in owing : ~nudges[i][s].owed}, gone) :
              waiting' = [waiting EXCEPT ![i] = q]
        /\ \E q \in Left(cooling[i], {}, gone) : cooling' = [cooling EXCEPT ![i] = q]
        /\ nudges' = [nudges EXCEPT ![i] = [s \in Sessions |->
                         IF s \in gone THEN NoRecord
                         ELSE IF s \in owing /\ ~@[s].owed THEN Owed ELSE @[s]]]
        /\ told' = [told EXCEPT ![i] = @ \ gone]
        /\ UNCHANGED <<db, pane, loaded, silent, fresh, bounds>>

\* NUDGE_INTERVAL passes for the recipient tried first.
Elapse(i) ==
    LET s == Head(cooling[i])
    IN  /\ cooling[i] # <<>>
        /\ cooling' = [cooling EXCEPT ![i] = Tail(@)]
        /\ waiting' = IF nudges[i][s].owed /\ ~Contains(waiting[i], s)
                      THEN [waiting EXCEPT ![i] = Append(@, s)] ELSE waiting
        /\ UNCHANGED <<db, pane, loaded, nudges, history, bounds>>

\* The branches of tick_bridge_nudges for the recipient that waits longest.
Longest(i)      == Head(waiting[i])
Exhausted(i, s) == nudges[i][s].unanswered >= MaxUnanswered
Typable(i, s)   == s \in loaded[i] /\ pane[s] = "free"

\* Mutant: a recipient that was tried is off the list until it gets new mail.
Dropped(i) ==
    /\ waiting' = [waiting EXCEPT ![i] = Tail(@)]
    /\ UNCHANGED cooling

\* Every branch restarts the interval.
Retried(i) ==
    /\ waiting' = [waiting EXCEPT ![i] = Tail(@)]
    /\ cooling' = [cooling EXCEPT ![i] = Append(@, Head(waiting[i]))]

\* The mailbox is empty, whoever emptied it.
Settle(i) ==
    /\ waiting[i] # <<>> /\ unread[Longest(i)] = <<>>
    /\ nudges' = [nudges EXCEPT ![i][Longest(i)] = NoRecord]
    /\ waiting' = [waiting EXCEPT ![i] = Tail(@)]
    /\ told' = [told EXCEPT ![i] = @ \ {Longest(i)}]
    /\ UNCHANGED <<db, pane, loaded, cooling, silent, fresh, bounds>>

\* Mutant: a recipient that cannot be typed at keeps its place.
KeepPlace(i) ==
    LET s == Longest(i)
    IN  /\ waiting[i] # <<>> /\ unread[s] # <<>>
        /\ IF Exhausted(i, s) THEN nudges[i][s].reported ELSE ~Typable(i, s)
        /\ UNCHANGED vars

\* Past the allowance and said so, or nothing safe to type into.
KeepQuiet(i) ==
    LET s == Longest(i)
    IN  /\ waiting[i] # <<>> /\ unread[s] # <<>>
        /\ IF Exhausted(i, s) THEN nudges[i][s].reported ELSE ~Typable(i, s)
        /\ Retried(i)
        /\ UNCHANGED <<db, pane, loaded, nudges, history, bounds>>

Nudge(i) ==
    LET s == Longest(i)
    IN  /\ waiting[i] # <<>> /\ unread[s] # <<>>
        /\ ~Exhausted(i, s) /\ Typable(i, s)
        /\ nudges' = [nudges EXCEPT ![i][s].unanswered = @ + 1]
        /\ Retried(i)
        /\ silent' = [silent EXCEPT ![s] = IF @ < MaxUnanswered THEN @ + 1 ELSE @]
        /\ fresh' = fresh \ {s}
        /\ UNCHANGED <<db, pane, loaded, told, bounds>>

\* report_stalled_child, once; an owner has nobody to report it to.
ReportStalled(i) ==
    LET s == Longest(i)
        owe == ~Full(Owner) /\ ~nudges[i][Owner].owed
    IN  /\ waiting[i] # <<>> /\ unread[s] # <<>>
        /\ Exhausted(i, s) /\ ~nudges[i][s].reported
        /\ IF s = Owner THEN Retried(i) /\ UNCHANGED <<db, told, fresh>>
           ELSE /\ state' = [state EXCEPT ![s] = "stalled"]
                /\ unread' = IF Full(Owner) THEN unread ELSE Put(unread, Owner, "stalled")
                /\ fresh' = IF Full(Owner) THEN fresh ELSE fresh \cup {Owner}
                /\ told' = [told EXCEPT ![i] = @ \cup {s}]
                /\ waiting' = [waiting EXCEPT ![i] = IF owe THEN Append(Tail(@), Owner) ELSE Tail(@)]
                /\ cooling' = [cooling EXCEPT ![i] = Append(@, s)]
        /\ nudges' = [nudges EXCEPT ![i][s].reported = TRUE,
                                    ![i][Owner] = IF s # Owner /\ owe THEN Owed
                                                  ELSE IF s = Owner THEN [@ EXCEPT !.reported = TRUE]
                                                  ELSE @]
        /\ UNCHANGED <<pane, loaded, silent, bounds>>

TickNudges(i) == Settle(i) \/ KeepQuiet(i) \/ Nudge(i) \/ ReportStalled(i)

-----------------------------------------------------------------------------
(* Around the broker *)

\* message send --no-wake, from any process.
PutPlain(s) ==
    /\ sends < MaxSends
    /\ unread' = Put(unread, s, "plain")
    /\ sends' = sends + 1
    /\ UNCHANGED <<state, pane, loaded, memory, history, moves>>

\* The TUI's own read, a cron tick, friring-cli: drained without a bridge call.
ReadElsewhere(s) ==
    /\ unread[s] # <<>>
    /\ unread' = [unread EXCEPT ![s] = <<>>]
    /\ UNCHANGED <<state, pane, loaded, memory, history, bounds>>

Move == moves < MaxMoves /\ moves' = moves + 1

PaneChanges(s) ==
    /\ Move
    /\ pane' = [pane EXCEPT ![s] = IF @ = "free" THEN "prompt" ELSE "free"]
    /\ UNCHANGED <<db, loaded, memory, history, sends>>

\* Parked, or loaded again, in one of the processes.
ParkOrLoad(i, s) ==
    /\ Move
    /\ loaded' = [loaded EXCEPT ![i] = IF s \in @ THEN @ \ {s} ELSE @ \cup {s}]
    /\ UNCHANGED <<db, pane, memory, history, sends>>

\* A stalled child is resumed: another agent, the same record.
Resume(i, c) ==
    /\ Move /\ state[c] = "stalled"
    /\ state' = [state EXCEPT ![c] = "ready"]
    /\ loaded' = [loaded EXCEPT ![i] = @ \cup {c}]
    /\ pane' = [pane EXCEPT ![c] = "free"]
    /\ UNCHANGED <<unread, memory, history, sends>>

\* A restart adopts the same panes and remembers no reminder.
Restart(i) ==
    /\ Move
    /\ nudges' = [nudges EXCEPT ![i] = [s \in Sessions |-> NoRecord]]
    /\ waiting' = [waiting EXCEPT ![i] = <<>>] /\ cooling' = [cooling EXCEPT ![i] = <<>>]
    /\ told' = [told EXCEPT ![i] = {}]
    /\ UNCHANGED <<db, pane, loaded, silent, fresh, sends>>

-----------------------------------------------------------------------------
(* Specification *)

Init ==
    /\ unread = [s \in Sessions |-> <<>>]
    /\ state = [c \in Children |-> "ready"]
    /\ pane = [s \in Sessions |-> "free"]
    /\ loaded = [i \in Instances |-> Sessions]
    /\ nudges = [i \in Instances |-> [s \in Sessions |-> NoRecord]]
    /\ waiting = [i \in Instances |-> <<>>] /\ cooling = [i \in Instances |-> <<>>]
    /\ silent = [s \in Sessions |-> 0]
    /\ told = [i \in Instances |-> {}] /\ fresh = {}
    /\ sends = 0 /\ moves = 0

Call(i, s) ==
    \/ Status(i, s) \/ \E limit \in 1..2 : Claim(i, s, limit)
    \/ \E to \in Sessions : Send(i, s, to)
    \/ s \in Children /\ ReportBlocked(i, s)

Tick(i) ==
    \/ TickNudges(i) \/ Reconcile(i) \/ Elapse(i)
    \/ \E c \in Children : Mirror(i, c) \/ Resume(i, c)

Next ==
    \/ \E i \in Instances : Tick(i) \/ Restart(i) \/ \E s \in Sessions : Call(i, s) \/ ParkOrLoad(i, s)
    \/ \E s \in Sessions : PutPlain(s) \/ ReadElsewhere(s) \/ PaneChanges(s)

Spec == Init /\ [][Next]_vars

\* The tick comes round and the interval passes; nobody has to call, read,
\* resume or answer a prompt.
Fairness ==
    \A i \in Instances : WF_vars(TickNudges(i)) /\ WF_vars(Reconcile(i)) /\ WF_vars(Elapse(i))

FairSpec == Spec /\ Fairness

-----------------------------------------------------------------------------
(* Properties *)

\* Mailboxes, records and the two lines stay in their types, and a record is
\* in one line only.
TypeOK ==
    /\ unread \in [Sessions -> Seq(Kinds)]
    /\ state \in [Children -> Running \cup {"stalled"}]
    /\ pane \in [Sessions -> {"free", "prompt"}]
    /\ loaded \in [Instances -> SUBSET Sessions]
    /\ nudges \in [Instances -> [Sessions -> Records]]
    /\ {waiting, cooling} \subseteq [Instances -> Seq(Sessions)]
    /\ \A i \in Instances : IsInjective(waiting[i] \o cooling[i])
    /\ silent \in [Sessions -> 0..MaxUnanswered]
    /\ told \in [Instances -> SUBSET Children] /\ fresh \subseteq Sessions
    /\ sends \in 0..MaxSends /\ moves \in 0..MaxMoves

\* Every owed record waits or cools down: no reminder is owed that no pass
\* will ever come to.
OwedIsScheduled ==
    \A i \in Instances, s \in Sessions :
        nudges[i][s].owed => s \in ToSet(waiting[i]) \cup ToSet(cooling[i])

\* Bridge mail put for a session that can be reached is announced, through
\* restarts, parking and other recipients that never answer, unless it is
\* read first or its recipient has used up its allowance.
Reachable(s) == pane[s] = "free" /\ \A i \in Instances : s \in loaded[i]
Quiet(s)     == \A i \in Instances : Exhausted(i, s)
MailIsAnnounced ==
    \A s \in Sessions :
        s \in fresh /\ Has(s, MailKinds) /\ Reachable(s)
            ~> s \notin fresh \/ ~Has(s, MailKinds) \/ ~Reachable(s) \/ Quiet(s)

\* `stalled' means what it says: that many reminders without a call in return.
StallIsEarned ==
    [][\A c \in Children : state[c] # "stalled" /\ state'[c] = "stalled"
          => silent[c] >= MaxUnanswered]_vars

\* A reminder is typed for bridge mail, never for mail sent with --no-wake.
NudgedForBridgeMail ==
    [][\A i \in Instances : Nudge(i) => Has(Longest(i), MailKinds)]_vars

\* "A resume should find the reminder": a resumed child with mail that waits
\* does not stay quietened.
ResumedIsReminded ==
    \A c \in Children :
        state[c] = "ready" /\ Quiet(c) /\ Has(c, MailKinds) /\ Reachable(c)
            ~> ~Quiet(c) \/ ~Has(c, MailKinds) \/ ~Reachable(c) \/ state[c] # "ready"

=============================================================================
