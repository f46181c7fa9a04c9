---------------------------- MODULE BridgeQueue ----------------------------
(***************************************************************************)
(* The bridge's file queue and its request journal, for one calling        *)
(* session: the client's `req/<key>.req' (cli/bridge.rs), the take by      *)
(* rename into `.taking', the answer in `res/<key>.res' (paths.rs), the    *)
(* broker that serves them (app/bridge.rs) from the journal                *)
(* (storage/bridge.rs), and the sweep a starting friring makes of what an  *)
(* earlier one left (app/bridge_saga.rs).                                  *)
(*                                                                         *)
(* Several friring processes may share the directory and the database.  A  *)
(* handler runs on one thread, but each of its writes is durable by        *)
(* itself: a crash, or another process, may come between any two of them.  *)
(* A pass that takes several requests serves them one after the other.     *)
(***************************************************************************)
EXTENDS Naturals, Sequences, FiniteSets

CONSTANTS
    Immediate,   \* keys of status, inbox, send, report
    Deferred,    \* keys of create, stop, resume: answered by a job, later
    Bodies,      \* request bodies (a body fixes its verb)
    Instances,   \* friring processes on this database
    None,        \* no key, no body, no instance
    MaxSubmits,  \* bound: requests the client writes, retries included
    MaxCrashes,  \* bound: how often a friring dies
    AnswersFit   \* every answer is within MAX_BRIDGE_RESPONSE_BYTES

Keys == Immediate \cup Deferred

ASSUME QueueAssumption ==
    /\ Immediate \cap Deferred = {}
    /\ None \notin Keys \cup Bodies \cup Instances
    /\ MaxSubmits \in Nat /\ MaxCrashes \in Nat /\ AnswersFit \in BOOLEAN

VARIABLES
    \* --- files ---
    req,      \* key |-> the body waiting in req/, or None
    taking,   \* key |-> the body staged in .taking, or None
    res,      \* key |-> the answer in res/, or "none"
    \* --- the database ---
    journal,  \* key |-> bridge_requests row
    lease,    \* the instance whose broker lease is live, or None
    \* --- the processes ---
    phase,    \* instance |-> "down", "starting", "recovering" or "serving"
    hand,     \* instance |-> the request it is serving right now
    jobs,     \* instance |-> deferred keys its lifecycle jobs carry
    found,    \* instance |-> accepted rows its recovery still has to answer
    \* --- history and bounds ---
    performed, \* key |-> the bodies carried out under it, in order
    shared,    \* two friring processes have run at the same time
    owed,      \* keys submitted since their last answer was written
    submits, crashes

files   == <<req, taking, res>>
db      == <<journal, lease>>
process == <<phase, hand, jobs, found>>
history == <<performed, shared, owed>>
bounds  == <<submits, crashes>>
vars    == <<files, db, process, history, bounds>>

NoRow == [state |-> "none", body |-> None]
Rows  == [state : {"accepted", "ok", "refused"}, body : Bodies] \cup {NoRow}

\* Answers that are journaled, and answers that are only ever written: a
\* deadline that passed, a reused key, a request `still being served'.
Unjournaled == {"expired", "key_reused", "busy"}
Answers     == {"ok", "refused"} \cup Unjournaled

\* What an instance is doing: with a request it took, or with an answer a job
\* or recovery left it to write (`filed' says which).
Idle  == [pc |-> "idle", key |-> None, body |-> None, answer |-> "none", filed |-> FALSE]
Hands == [pc : {"taken", "accepted", "carried_out", "answer", "finish"},
          key : Keys, body : Bodies \cup {None}, answer : Answers \cup {"none"},
          filed : BOOLEAN] \cup {Idle}

Up(i)      == phase[i] # "down"
Free(i)    == phase[i] = "serving" /\ hand[i].pc = "idle"
At(i, pc)  == Up(i) /\ hand[i].pc = pc
Accepted   == {k \in Keys : journal[k].state = "accepted"}
Answered(k) == journal[k].state \in {"ok", "refused"}

Goto(i, pc) == hand' = [hand EXCEPT ![i].pc = pc]
Reply(i, a) == hand' = [hand EXCEPT ![i].pc = "answer", ![i].answer = a]

-----------------------------------------------------------------------------
(* The client *)

\* submit: staged, then renamed over whatever request of that key waits.
Submit(k, b) ==
    /\ submits < MaxSubmits
    /\ req' = [req EXCEPT ![k] = b]
    /\ submits' = submits + 1
    /\ owed' = owed \cup {k}
    /\ UNCHANGED <<taking, res, db, process, performed, shared, crashes>>

\* --ack, or prune_bridge_responses of an answer a day old.
DropResponse(k) ==
    /\ res[k] # "none"
    /\ res' = [res EXCEPT ![k] = "none"]
    /\ UNCHANGED <<req, taking, db, process, history, bounds>>

-----------------------------------------------------------------------------
(* The broker *)

\* claim_broker_lease: taken over once it lapsed, renewed by its holder.
ClaimLease(i) ==
    /\ Free(i) /\ lease = None
    /\ lease' = i
    /\ UNCHANGED <<files, journal, process, history, bounds>>

\* lease_until passes: the holder died, or missed its renewals.
LeaseLapses ==
    /\ lease # None
    /\ lease' = None
    /\ UNCHANGED <<files, journal, process, history, bounds>>

\* take_bridge_requests_in: anything staged under this name goes, the request
\* is renamed there and read.
Take(i, k) ==
    /\ Free(i) /\ lease \in {None, i} /\ req[k] # None
    /\ req' = [req EXCEPT ![k] = None]
    /\ taking' = [taking EXCEPT ![k] = req[k]]
    /\ hand' = [hand EXCEPT ![i] = [Idle EXCEPT !.pc = "taken", !.key = k, !.body = req[k],
                                                !.filed = TRUE]]
    /\ UNCHANGED <<res, db, phase, jobs, found, history, bounds>>

\* Mutant: what is staged is thought to be another process's business.
LeaveTaken(i, k) == FALSE /\ UNCHANGED vars

\* recover_taken_requests, on the housekeeping pass: read where it is staged,
\* whoever staged it and whoever holds the lease.  A request a day old, which
\* the pass drops unread, is not modelled: its client gave up long before.
RecoverTaken(i, k) ==
    /\ Free(i) /\ taking[k] # None
    /\ hand' = [hand EXCEPT ![i] = [Idle EXCEPT !.pc = "taken", !.key = k, !.body = taking[k],
                                                !.filed = TRUE]]
    /\ UNCHANGED <<files, db, phase, jobs, found, history, bounds>>

\* Mutant: the refusal of an expired request is filed under a key without a row.
ExpireOnRecord(i) ==
    LET k == hand[i].key
    IN  /\ At(i, "taken") /\ journal[k] = NoRow
        /\ journal' = [journal EXCEPT ![k].state = "refused"]
        /\ Reply(i, "refused")
        /\ UNCHANGED <<files, lease, phase, jobs, found, history, bounds>>

\* The deadline passed and the key has no row: refused, and nothing journaled.
Expire(i) ==
    LET k == hand[i].key
    IN  /\ At(i, "taken") /\ journal[k] = NoRow
        /\ Reply(i, "expired")
        /\ UNCHANGED <<files, db, phase, jobs, found, history, bounds>>

\* Mutant: an accepted row whose answer is missing is carried out again.
RetryAccepted(i) ==
    LET k == hand[i].key
    IN  /\ At(i, "taken")
        /\ journal[k].state \in {"none", "accepted"}
        /\ journal' = [journal EXCEPT ![k] = [state |-> "accepted", body |-> hand[i].body]]
        /\ Goto(i, "accepted")
        /\ UNCHANGED <<files, lease, phase, jobs, found, history, bounds>>

\* take_bridge_request, a key without a row: one transaction looks and inserts.
AcceptFresh(i) ==
    LET k == hand[i].key
    IN  /\ At(i, "taken") /\ journal[k] = NoRow
        /\ journal' = [journal EXCEPT ![k] = [state |-> "accepted", body |-> hand[i].body]]
        /\ Goto(i, "accepted")
        /\ UNCHANGED <<files, lease, phase, jobs, found, history, bounds>>

\* The same key with another body.
RefuseReused(i) ==
    /\ At(i, "taken") /\ journal[hand[i].key].body \notin {None, hand[i].body}
    /\ Reply(i, "key_reused")
    /\ UNCHANGED <<files, db, phase, jobs, found, history, bounds>>

\* Mutant: a replay of an accepted row does not ask which verb it is.
ReplayPolls(i) ==
    LET row == journal[hand[i].key]
    IN  /\ At(i, "taken") /\ row.body = hand[i].body
        /\ Reply(i, IF row.state = "accepted" THEN "busy" ELSE row.state)
        /\ UNCHANGED <<files, db, phase, jobs, found, history, bounds>>

\* A replay: the stored answer; nothing while a deferred verb runs; a request
\* to poll again otherwise.
Replay(i) ==
    LET k == hand[i].key
        row == journal[k]
    IN  /\ At(i, "taken") /\ row.body = hand[i].body
        /\ \/ Answered(k) /\ Reply(i, row.state)
           \/ row.state = "accepted" /\ k \in Deferred /\ Goto(i, "finish")
           \/ row.state = "accepted" /\ k \in Immediate /\ Reply(i, "busy")
        /\ UNCHANGED <<files, db, phase, jobs, found, history, bounds>>

\* authorize or the verb itself says no.
Refuse(i) ==
    /\ At(i, "accepted")
    /\ hand' = [hand EXCEPT ![i].pc = "carried_out", ![i].answer = "refused"]
    /\ UNCHANGED <<files, db, phase, jobs, found, history, bounds>>

\* run_bridge_verb of an immediate verb: mail enqueued or claimed, a report
\* stored.
CarryOut(i) ==
    LET k == hand[i].key
    IN  /\ At(i, "accepted") /\ k \in Immediate
        /\ performed' = [performed EXCEPT ![k] = Append(@, hand[i].body)]
        /\ hand' = [hand EXCEPT ![i].pc = "carried_out", ![i].answer = "ok"]
        /\ UNCHANGED <<files, db, phase, jobs, found, shared, owed, bounds>>

\* ... of a lifecycle verb: a job carries the key, nothing is written now.
Defer(i) ==
    LET k == hand[i].key
    IN  /\ At(i, "accepted") /\ k \in Deferred
        /\ jobs' = [jobs EXCEPT ![i] = @ \cup {k}]
        /\ Goto(i, "finish")
        /\ UNCHANGED <<files, db, phase, found, history, bounds>>

\* finish_bridge_request updates whatever the row says.
FinishRow(i) ==
    LET k == hand[i].key
    IN  /\ At(i, "carried_out")
        /\ journal' = [journal EXCEPT ![k].state = hand[i].answer]
        /\ Goto(i, "answer")
        /\ UNCHANGED <<files, lease, phase, jobs, found, history, bounds>>

\* Mutant: the staged request is gone before its answer is written.
WriteAfterFinish(i) ==
    LET k == hand[i].key
    IN  /\ At(i, "answer")
        /\ IF taking[k] # None
           THEN taking' = [taking EXCEPT ![k] = None] /\ UNCHANGED <<res, owed, hand>>
           ELSE /\ res' = [res EXCEPT ![k] = hand[i].answer] /\ owed' = owed \ {k}
                /\ hand' = [hand EXCEPT ![i] = Idle] /\ UNCHANGED taking
        /\ UNCHANGED <<req, db, phase, jobs, found, performed, shared, bounds>>

\* write_bridge_response: staged, renamed over an earlier answer.  Too large
\* an answer is only logged.
WriteResponse(i) ==
    LET k == hand[i].key
    IN  /\ At(i, "answer")
        /\ \/ res' = [res EXCEPT ![k] = hand[i].answer] /\ owed' = owed \ {k}
           \/ ~AnswersFit /\ hand[i].answer = "ok" /\ UNCHANGED <<res, owed>>
        /\ IF hand[i].filed THEN Goto(i, "finish") ELSE hand' = [hand EXCEPT ![i] = Idle]
        /\ UNCHANGED <<req, taking, db, phase, jobs, found, performed, shared, bounds>>

\* finish_taken_request removes what is staged under that name.
FinishTaken(i) ==
    /\ At(i, "finish")
    /\ taking' = [taking EXCEPT ![hand[i].key] = None]
    /\ hand' = [hand EXCEPT ![i] = Idle]
    /\ UNCHANGED <<req, res, db, phase, jobs, found, history, bounds>>

-----------------------------------------------------------------------------
(* Lifecycle jobs, as the queue sees them *)

\* A job does what its request asked for.
JobActs(i, k) ==
    /\ Free(i) /\ k \in jobs[i] /\ performed[k] = <<>>
    /\ performed' = [performed EXCEPT ![k] = <<journal[k].body>>]
    /\ UNCHANGED <<files, db, process, shared, owed, bounds>>

\* answer_bridge_request_at: the row is finished, the answer written next.
JobEnds(i, k) ==
    /\ Free(i) /\ k \in jobs[i]
    /\ \E a \in {"ok", "refused"} :
          /\ a = "ok" => performed[k] # <<>>
          /\ journal' = [journal EXCEPT ![k].state = a]
          /\ hand' = [hand EXCEPT ![i] = [Idle EXCEPT !.pc = "answer", !.key = k, !.answer = a]]
    /\ jobs' = [jobs EXCEPT ![i] = @ \ {k}]
    /\ UNCHANGED <<files, lease, phase, found, history, bounds>>

-----------------------------------------------------------------------------
(* Crash, start and recovery *)

Crash(i) ==
    /\ Up(i) /\ crashes < MaxCrashes
    /\ crashes' = crashes + 1
    /\ phase' = [phase EXCEPT ![i] = "down"]
    /\ hand' = [hand EXCEPT ![i] = Idle]
    /\ jobs' = [jobs EXCEPT ![i] = {}]
    /\ found' = [found EXCEPT ![i] = {}]
    /\ UNCHANGED <<files, db, history, submits>>

\* A friring starts: rows accepted before now are older than `started_at'.
Start(i) ==
    /\ phase[i] = "down"
    /\ phase' = [phase EXCEPT ![i] = "starting"]
    /\ found' = [found EXCEPT ![i] = Accepted]
    /\ shared' = (shared \/ \E j \in Instances : Up(j))
    /\ UNCHANGED <<files, db, hand, jobs, performed, owed, bounds>>

\* accepted_bridge_requests: of those, the ones still accepted are read.
ReadAccepted(i) ==
    /\ phase[i] = "starting"
    /\ found' = [found EXCEPT ![i] = @ \cap Accepted]
    /\ phase' = [phase EXCEPT ![i] = "recovering"]
    /\ UNCHANGED <<files, db, hand, jobs, history, bounds>>

\* Mutant: a request whose work died with its process is left to its caller.
LeaveAbandoned(i, k) ==
    /\ phase[i] = "recovering" /\ hand[i].pc = "idle" /\ k \in found[i]
    /\ found' = [found EXCEPT ![i] = @ \ {k}]
    /\ UNCHANGED <<files, db, phase, hand, jobs, history, bounds>>

\* answer_abandoned_lifecycle_requests: every row read is refused, deferred
\* verb or not; a launch that got far enough is answered `ok' by its saga.
AnswerAbandoned(i, k) ==
    /\ phase[i] = "recovering" /\ hand[i].pc = "idle" /\ k \in found[i]
    /\ found' = [found EXCEPT ![i] = @ \ {k}]
    /\ \E a \in {"ok", "refused"} :
          /\ a = "ok" => k \in Deferred /\ performed[k] # <<>>
          /\ journal' = [journal EXCEPT ![k].state = a]
          /\ hand' = [hand EXCEPT ![i] = [Idle EXCEPT !.pc = "answer", !.key = k, !.answer = a]]
    /\ UNCHANGED <<files, lease, phase, jobs, history, bounds>>

\* The first poll comes after recovery.
Serve(i) ==
    /\ phase[i] = "recovering" /\ hand[i].pc = "idle" /\ found[i] = {}
    /\ phase' = [phase EXCEPT ![i] = "serving"]
    /\ UNCHANGED <<files, db, hand, jobs, found, history, bounds>>

-----------------------------------------------------------------------------
(* Specification *)

Init ==
    /\ req = [k \in Keys |-> None] /\ taking = [k \in Keys |-> None]
    /\ res = [k \in Keys |-> "none"]
    /\ journal = [k \in Keys |-> NoRow]
    /\ lease = None
    /\ phase = [i \in Instances |-> "down"]
    /\ hand = [i \in Instances |-> Idle]
    /\ jobs = [i \in Instances |-> {}] /\ found = [i \in Instances |-> {}]
    /\ performed = [k \in Keys |-> <<>>]
    /\ shared = FALSE /\ owed = {} /\ submits = 0 /\ crashes = 0

Client == \E k \in Keys : DropResponse(k) \/ \E b \in Bodies : Submit(k, b)

\* The steps of the request in hand.
Proceed(i) ==
    \/ Expire(i) \/ AcceptFresh(i) \/ RefuseReused(i) \/ Replay(i) \/ Refuse(i)
    \/ CarryOut(i) \/ Defer(i) \/ FinishRow(i) \/ WriteResponse(i) \/ FinishTaken(i)

Recover(i) == ReadAccepted(i) \/ Serve(i) \/ \E k \in Keys : AnswerAbandoned(i, k)

Next ==
    \/ Client \/ LeaseLapses
    \/ \E i \in Instances :
          \/ ClaimLease(i) \/ Proceed(i) \/ Crash(i) \/ Start(i) \/ Recover(i)
          \/ \E k \in Keys : Take(i, k) \/ RecoverTaken(i, k) \/ JobActs(i, k) \/ JobEnds(i, k)

Spec == Init /\ [][Next]_vars

\* Somebody starts friring again, its tick comes round, and each of its passes
\* reaches every queued and every staged request; a job ends, by success or by
\* its timeout.
Fairness ==
    /\ WF_vars(\E i \in Instances : Start(i))
    /\ \A i \in Instances : WF_vars(Proceed(i)) /\ WF_vars(Recover(i))
    /\ \A k \in Keys :
          /\ WF_vars(\E i \in Instances : Take(i, k))
          /\ WF_vars(\E i \in Instances : RecoverTaken(i, k))
          /\ \A i \in Instances : WF_vars(JobEnds(i, k))

FairSpec == Spec /\ Fairness

-----------------------------------------------------------------------------
(* Properties *)

\* Every variable stays in the type its file, column or field has.
TypeOK ==
    /\ {req, taking} \subseteq [Keys -> Bodies \cup {None}]
    /\ res \in [Keys -> Answers \cup {"none"}]
    /\ journal \in [Keys -> Rows]
    /\ lease \in Instances \cup {None}
    /\ phase \in [Instances -> {"down", "starting", "recovering", "serving"}]
    /\ hand \in [Instances -> Hands]
    /\ jobs \in [Instances -> SUBSET Deferred]
    /\ found \in [Instances -> SUBSET Keys]
    /\ performed \in [Keys -> Seq(Bodies)]
    /\ shared \in BOOLEAN /\ owed \subseteq Keys
    /\ submits \in 0..MaxSubmits /\ crashes \in 0..MaxCrashes

\* The queue does what ExactlyOnce promises, with the journal for the record
\* of answers: through retries, reused keys, crashes between any two writes,
\* and a second friring serving the same directory.
Promise == INSTANCE ExactlyOnce WITH
    reply <- [k \in Keys |-> IF Answered(k) THEN journal[k].state ELSE "none"]
QueueIsExactlyOnce == Promise!Spec

\* As long as one friring runs at a time, a client never reads an answer that
\* is not the recorded one: no `ok' for another body, no stale `refused', and
\* never a request to poll again for what nobody is serving.
ResponseIsTheRecord ==
    ~shared => \A k \in Keys :
        /\ res[k] # "busy"
        /\ res[k] \in {"ok", "refused"} => res[k] = journal[k].state

\* A request is answered, over crashes and handovers: an immediate one in its
\* response file, a deferred one at least on record, where a retry finds it.
RequestsAreAnswered ==
    \A k \in Keys :
        req[k] # None ~> k \notin owed \/ (k \in Deferred /\ Answered(k))

\* "Nothing in .taking is ever silently dropped": when an immediate request
\* leaves it, its answer was put in the client's directory, or it is asked again.
TakenIsAnswered ==
    [][\A k \in Immediate : taking[k] # None /\ taking'[k] = None /\ ~shared
          => k \notin owed \/ req[k] # None]_vars

\* "... so it was not carried out": what a restart refuses has had no effect.
AbandonedWasNotCarriedOut ==
    [][\A i \in Instances, k \in Keys :
          AnswerAbandoned(i, k) /\ journal'[k].state = "refused" => performed[k] = <<>>]_vars

\* What the journal answered once, it answers for good.
AnswerIsFinal ==
    [][\A k \in Keys : Answered(k) => journal'[k] = journal[k]]_vars

=============================================================================
