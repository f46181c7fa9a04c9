------------------------- MODULE BridgeQueue_proofs -------------------------
(***************************************************************************)
(* What holds of BridgeQueue for every set of keys, bodies and processes,  *)
(* and every bound: its types, that it implements ExactlyOnce, that a      *)
(* client reads the recorded answer, and that nothing staged is dropped.   *)
(* All of it follows from one inductive invariant, QueueInv: who may still *)
(* carry out a key, and what an open request says of its row.              *)
(***************************************************************************)
EXTENDS BridgeQueue, TLAPS

Rowed(k)    == journal[k] # NoRow
\* Whoever answers k now does so for the first time, or has company.
MayAnswer(k) == Rowed(k) /\ (journal[k].state = "accepted" \/ shared)

\* Two processes that run at the same time have been noticed.
CompanyIsShared ==
    \A i, j \in Instances : Up(i) /\ Up(j) /\ i # j => shared

\* A request that is served belongs to a process that serves.
HandsAreServed ==
    \A i \in Instances :
        /\ hand[i].pc # "idle" => Up(i)
        /\ hand[i].pc \in {"taken", "accepted", "carried_out"} => phase[i] = "serving"
        /\ hand[i].pc \in {"taken", "accepted"} => hand[i].body \in Bodies

\* What is accepted and not yet carried out is so in one hand, and in no job.
AcceptedOnce ==
    \A i \in Instances :
        /\ hand[i].pc \in {"accepted", "carried_out"} =>
              /\ MayAnswer(hand[i].key)
              /\ \A j \in Instances : hand[i].key \notin jobs[j]
        /\ hand[i].pc = "accepted" =>
              /\ performed[hand[i].key] = <<>>
              /\ \A j \in Instances \ {i} :
                    hand[j].pc \in {"accepted", "carried_out"} => hand[j].key # hand[i].key
        /\ hand[i].pc = "carried_out" =>
              /\ hand[i].answer \in {"ok", "refused"}
              /\ hand[i].answer = "ok" => performed[hand[i].key] # <<>>

\* A key without a row has had no effect.
NothingUnrecorded == \A k \in Keys : ~Rowed(k) => performed[k] = <<>>

\* What a job or a recovery is going to answer is open.
CarriedIsOpen ==
    \A i \in Instances :
        /\ \A k \in jobs[i] : phase[i] = "serving" /\ MayAnswer(k)
        /\ phase[i] = "recovering" => \A k \in found[i] : MayAnswer(k)

\* Without company, an immediate request that is accepted is being served, or
\* is known to the process that starts.
AcceptedIsHeld ==
    ~shared => \A k \in Immediate, i \in Instances :
        journal[k].state = "accepted" /\ Up(i) =>
            \/ phase[i] # "serving" /\ k \in found[i]
            \/ hand[i].pc \in {"accepted", "carried_out"} /\ hand[i].key = k

\* Without company, the answer about to be written is the recorded one.
AnswerIsTheRecord ==
    ~shared => \A i \in Instances : hand[i].pc = "answer" =>
        /\ hand[i].answer # "busy"
        /\ hand[i].answer \in {"ok", "refused"} => hand[i].answer = journal[hand[i].key].state

QueueInv ==
    /\ TypeOK /\ CompanyIsShared /\ HandsAreServed /\ AcceptedOnce /\ NothingUnrecorded
    /\ CarriedIsOpen /\ AcceptedIsHeld /\ AnswerIsTheRecord /\ ResponseIsTheRecord

\* A request that leaves .taking unanswered is asked again.
StagedIsAnswered ==
    ~shared => \A i \in Instances :
        hand[i].pc = "finish" /\ hand[i].key \in Immediate =>
            hand[i].key \notin owed \/ req[hand[i].key] # None

-----------------------------------------------------------------------------
(* Types *)

LEMMA IdleIsHand == Idle \in Hands /\ Idle.pc = "idle"
  BY DEF Hands, Idle

\* The hands that hold a request, and the rows that are there, as records.
Holding == [pc : {"taken", "accepted", "carried_out", "answer", "finish"},
            key : Keys, body : Bodies \cup {None}, answer : Answers \cup {"none"},
            filed : BOOLEAN]
Written == [state : {"accepted", "ok", "refused"}, body : Bodies]

LEMMA Holdings == /\ Hands = Holding \cup {Idle}
                  /\ \A h \in Hands : h.pc # "idle" => h \in Holding
  BY DEF Hands, Idle, Holding

LEMMA Writings == /\ Rows = Written \cup {NoRow}
                  /\ \A row \in Rows : row # NoRow <=> row \in Written
                  /\ \A row \in Rows : row # NoRow <=> row.state \in {"accepted", "ok", "refused"}
                  /\ NoRow.state = "none" /\ NoRow.body = None
  BY DEF Rows, NoRow, Written

\* Every hand that starts on something starts from Idle.
LEMMA IdleIsFresh ==
    Idle \in [pc : {"idle"}, key : {None}, body : {None}, answer : {"none"}, filed : {FALSE}]
  BY DEF Idle

LEMMA AnsweredRow ==
    ASSUME NEW row \in Written, NEW a \in {"ok", "refused"}
    PROVE  LET r == [row EXCEPT !.state = a]
           IN  r \in Written /\ r.state = a /\ r.body = row.body
  BY DEF Written

\* What an action does with the hand of i, and with the row of k.
Moves(i, pc, k, a) ==
    /\ hand' \in [Instances -> Hands]
    /\ \A j \in Instances \ {i} : hand'[j] = hand[j]
    /\ hand'[i].pc = pc /\ hand'[i].key = k /\ hand'[i].answer = a
    /\ pc \in {"taken", "accepted"} => hand'[i].body \in Bodies

Drops(i) ==
    /\ hand' \in [Instances -> Hands]
    /\ \A j \in Instances \ {i} : hand'[j] = hand[j]
    /\ hand'[i].pc = "idle"

Records(k, s) ==
    /\ journal' \in [Keys -> Rows]
    /\ \A l \in Keys \ {k} : journal'[l] = journal[l]
    /\ journal'[k] # NoRow /\ journal'[k].state = s

\* What it does with the lifecycle jobs of i, its recovery's rows, its phase.
JobsAre(i, S) ==
    /\ jobs' \in [Instances -> SUBSET Deferred] /\ jobs'[i] = S
    /\ \A j \in Instances \ {i} : jobs'[j] = jobs[j]
FoundAre(i, S) ==
    /\ found' \in [Instances -> SUBSET Keys] /\ found'[i] = S
    /\ \A j \in Instances \ {i} : found'[j] = found[j]
PhaseIs(i, p) ==
    /\ phase' \in [Instances -> {"down", "starting", "recovering", "serving"}]
    /\ phase'[i] = p /\ \A j \in Instances \ {i} : phase'[j] = phase[j]

LEMMA InHand ==
    ASSUME TypeOK, NEW i \in Instances, hand[i].pc # "idle"
    PROVE  hand[i] \in Holding /\ hand[i].key \in Keys /\ hand[i].answer \in Answers \cup {"none"}
  BY Holdings DEF TypeOK, Holding

\* Keys are keys wherever they turn up, and a row has a state.
LEMMA Typed ==
    ASSUME TypeOK
    PROVE  /\ \A j \in Instances : jobs[j] \subseteq Keys /\ found[j] \subseteq Keys
           /\ \A j \in Instances : hand[j].pc # "idle" => hand[j].key \in Keys
           /\ \A k \in Keys : Rowed(k) <=> journal[k].state \in {"accepted", "ok", "refused"}
  <1>1. \A j \in Instances : hand[j].pc # "idle" => hand[j].key \in Keys
    BY InHand
  <1>2. \A k \in Keys : Rowed(k) <=> journal[k].state \in {"accepted", "ok", "refused"}
    BY Writings DEF TypeOK, Rowed
  <1> QED BY <1>1, <1>2 DEF TypeOK, Keys

\* A new hand for i is all there is to a move.
LEMMA NewHandMoves ==
    ASSUME TypeOK, NEW i \in Instances, NEW g \in Holding, hand' = [hand EXCEPT ![i] = g],
           g.pc \in {"taken", "accepted"} => g.body \in Bodies
    PROVE  Moves(i, g.pc, g.key, g.answer)
  BY Holdings DEF TypeOK, Moves

LEMMA GotoMoves ==
    ASSUME TypeOK, HandsAreServed, NEW i \in Instances, hand[i].pc # "idle",
           NEW pc \in {"accepted", "answer", "finish"}, Goto(i, pc),
           pc = "accepted" => hand[i].pc = "taken"
    PROVE  Moves(i, pc, hand[i].key, hand[i].answer)
  <1> DEFINE g == [hand[i] EXCEPT !.pc = pc]
  <1>1. hand' = [hand EXCEPT ![i] = g]
    BY DEF Goto
  <1>0. g = [hand[i] EXCEPT !.pc = pc]
    OBVIOUS
  <1> HIDE DEF g
  <1>2. /\ g \in Holding /\ g.pc = pc
        /\ g.key = hand[i].key /\ g.body = hand[i].body /\ g.answer = hand[i].answer
    <2>1. hand[i] \in Holding
      BY InHand
    <2> QED BY <1>0, <2>1 DEF Holding
  <1>3. g.pc \in {"taken", "accepted"} => g.body \in Bodies
    BY <1>2 DEF HandsAreServed
  <1>4. Moves(i, g.pc, g.key, g.answer)
    BY <1>1, <1>2, <1>3, NewHandMoves
  <1> QED BY <1>2, <1>4

LEMMA AnsweringMoves ==
    ASSUME TypeOK, NEW i \in Instances, hand[i].pc # "idle",
           NEW pc \in {"carried_out", "answer"}, NEW a \in Answers,
           hand' = [hand EXCEPT ![i].pc = pc, ![i].answer = a]
    PROVE  Moves(i, pc, hand[i].key, a)
  <1> DEFINE g == [hand[i] EXCEPT !.pc = pc, !.answer = a]
  <1>1. hand' = [hand EXCEPT ![i] = g]
    BY DEF TypeOK
  <1>0. g = [hand[i] EXCEPT !.pc = pc, !.answer = a]
    OBVIOUS
  <1> HIDE DEF g
  <1>2. g \in Holding /\ g.pc = pc /\ g.key = hand[i].key /\ g.answer = a
    <2>1. hand[i] \in Holding
      BY InHand
    <2> QED BY <1>0, <2>1 DEF Holding
  <1>3. Moves(i, g.pc, g.key, g.answer)
    BY <1>1, <1>2, NewHandMoves
  <1> QED BY <1>2, <1>3

LEMMA DropsHand ==
    ASSUME TypeOK, NEW i \in Instances, hand' = [hand EXCEPT ![i] = Idle]
    PROVE  Drops(i)
  BY IdleIsHand DEF TypeOK, Drops

LEMMA OwesMoves ==
    ASSUME TypeOK, NEW i \in Instances, NEW k \in Keys, NEW a \in {"ok", "refused"},
           hand' = [hand EXCEPT ![i] = [Idle EXCEPT !.pc = "answer", !.key = k, !.answer = a]]
    PROVE  Moves(i, "answer", k, a)
  <1> DEFINE g == [Idle EXCEPT !.pc = "answer", !.key = k, !.answer = a]
  <1>1. g = [Idle EXCEPT !.pc = "answer", !.key = k, !.answer = a] /\ hand' = [hand EXCEPT ![i] = g]
    OBVIOUS
  <1> HIDE DEF g
  <1>2. g \in Holding /\ g.pc = "answer" /\ g.key = k /\ g.answer = a
    BY <1>1, IdleIsFresh DEF Holding, Answers
  <1>3. Moves(i, g.pc, g.key, g.answer)
    BY <1>1, <1>2, NewHandMoves
  <1> QED BY <1>2, <1>3

LEMMA RowAnswered ==
    ASSUME TypeOK, NEW k \in Keys, Rowed(k), NEW a \in {"ok", "refused"},
           journal' = [journal EXCEPT ![k].state = a]
    PROVE  Records(k, a)
  <1>1. journal[k] \in Written
    BY Writings DEF TypeOK, Rowed
  <1>2. journal' = [journal EXCEPT ![k] = [journal[k] EXCEPT !.state = a]]
    BY DEF TypeOK
  <1>3. [journal[k] EXCEPT !.state = a] \in Rows /\ [journal[k] EXCEPT !.state = a] # NoRow
    BY <1>1, AnsweredRow, Writings
  <1> QED BY <1>1, <1>2, <1>3, AnsweredRow DEF TypeOK, Records

-----------------------------------------------------------------------------
(* What each handler does to its request, its row and the files *)

LEMMA ExpireDoes ==
    ASSUME TypeOK, NEW i \in Instances, Expire(i) \/ RefuseReused(i)
    PROVE  /\ \E a \in {"expired", "key_reused"} : Moves(i, "answer", hand[i].key, a)
           /\ UNCHANGED <<files, db, phase, jobs, found, history, bounds>>
           /\ At(i, "taken")
  BY AnsweringMoves DEF Expire, RefuseReused, At, Reply, Answers, Unjournaled

LEMMA AcceptFreshDoes ==
    ASSUME TypeOK, HandsAreServed, NEW i \in Instances, AcceptFresh(i)
    PROVE  /\ At(i, "taken") /\ ~Rowed(hand[i].key)
           /\ Moves(i, "accepted", hand[i].key, hand[i].answer)
           /\ Records(hand[i].key, "accepted")
           /\ UNCHANGED <<files, lease, phase, jobs, found, history, bounds>>
  <1>1. hand[i].key \in Keys /\ hand[i].body \in Bodies
    BY InHand DEF HandsAreServed, AcceptFresh, At
  <1>2. [state |-> "accepted", body |-> hand[i].body] \in Written
    BY <1>1 DEF Written
  <1>3. Records(hand[i].key, "accepted")
    BY <1>1, <1>2, Writings DEF TypeOK, AcceptFresh, Records
  <1> QED BY <1>3, GotoMoves DEF AcceptFresh, At, Rowed

LEMMA ReplayDoes ==
    ASSUME TypeOK, HandsAreServed, NEW i \in Instances, Replay(i)
    PROVE  /\ At(i, "taken")
           /\ UNCHANGED <<files, db, phase, jobs, found, history, bounds>>
           /\ LET k == hand[i].key
              IN  \/ Answered(k) /\ Moves(i, "answer", k, journal[k].state)
                  \/ k \in Deferred /\ Moves(i, "finish", k, hand[i].answer)
                  \/ /\ journal[k].state = "accepted" /\ k \in Immediate
                     /\ Moves(i, "answer", k, "busy")
  <1> DEFINE k == hand[i].key
  <1>1. At(i, "taken") /\ UNCHANGED <<files, db, phase, jobs, found, history, bounds>>
    BY DEF Replay
  <1>2. CASE Answered(k) /\ Reply(i, journal[k].state)
    BY <1>1, <1>2, AnsweringMoves DEF Answered, Reply, At, Answers
  <1>3. CASE k \in Deferred /\ Goto(i, "finish")
    BY <1>1, <1>3, GotoMoves DEF At
  <1>4. CASE journal[k].state = "accepted" /\ k \in Immediate /\ Reply(i, "busy")
    BY <1>1, <1>4, AnsweringMoves DEF Reply, At, Answers, Unjournaled
  <1> QED BY <1>1, <1>2, <1>3, <1>4 DEF Replay

LEMMA RefuseDoes ==
    ASSUME TypeOK, NEW i \in Instances, Refuse(i)
    PROVE  /\ At(i, "accepted") /\ Moves(i, "carried_out", hand[i].key, "refused")
           /\ UNCHANGED <<files, db, phase, jobs, found, history, bounds>>
  BY AnsweringMoves DEF Refuse, At, Answers

LEMMA Appended ==
    ASSUME NEW S, NEW s \in Seq(S), NEW x \in S
    PROVE  Append(s, x) \in Seq(S) /\ Append(s, x) # <<>>
  <1>1. Append(s, x) \in Seq(S) /\ Len(Append(s, x)) = Len(s) + 1 /\ Len(s) \in Nat
    OBVIOUS
  <1> QED BY <1>1

LEMMA CarryOutDoes ==
    ASSUME TypeOK, HandsAreServed, NEW i \in Instances, CarryOut(i)
    PROVE  /\ At(i, "accepted") /\ Moves(i, "carried_out", hand[i].key, "ok")
           /\ performed' \in [Keys -> Seq(Bodies)] /\ performed'[hand[i].key] # <<>>
           /\ \A k \in Keys \ {hand[i].key} : performed'[k] = performed[k]
           /\ UNCHANGED <<files, db, phase, jobs, found, shared, owed, bounds>>
  <1>1. At(i, "accepted") /\ Moves(i, "carried_out", hand[i].key, "ok")
    BY AnsweringMoves DEF CarryOut, At, Answers
  <1>2. hand[i].key \in Keys /\ hand[i].body \in Bodies
    BY <1>1, InHand DEF HandsAreServed, At
  <1>3. performed' = [performed EXCEPT ![hand[i].key] = Append(performed[hand[i].key], hand[i].body)]
    BY DEF CarryOut
  <1>4. /\ Append(performed[hand[i].key], hand[i].body) \in Seq(Bodies)
        /\ Append(performed[hand[i].key], hand[i].body) # <<>>
    BY <1>2, Appended DEF TypeOK
  <1>5. /\ performed' \in [Keys -> Seq(Bodies)] /\ performed'[hand[i].key] # <<>>
        /\ \A k \in Keys \ {hand[i].key} : performed'[k] = performed[k]
    BY <1>2, <1>3, <1>4 DEF TypeOK
  <1> QED BY <1>1, <1>5 DEF CarryOut

LEMMA DeferDoes ==
    ASSUME TypeOK, HandsAreServed, NEW i \in Instances, Defer(i)
    PROVE  /\ At(i, "accepted") /\ Moves(i, "finish", hand[i].key, hand[i].answer)
           /\ hand[i].key \in Deferred
           /\ JobsAre(i, jobs[i] \cup {hand[i].key})
           /\ UNCHANGED <<files, db, phase, found, history, bounds>>
  <1>1. JobsAre(i, jobs[i] \cup {hand[i].key})
    BY DEF Defer, TypeOK, JobsAre
  <1> QED BY <1>1, GotoMoves DEF Defer, At

LEMMA FinishRowDoes ==
    ASSUME TypeOK, HandsAreServed, AcceptedOnce, NEW i \in Instances, FinishRow(i)
    PROVE  /\ At(i, "carried_out") /\ hand[i].answer \in {"ok", "refused"}
           /\ Moves(i, "answer", hand[i].key, hand[i].answer)
           /\ Records(hand[i].key, hand[i].answer)
           /\ UNCHANGED <<files, lease, phase, jobs, found, history, bounds>>
  <1>1. At(i, "carried_out") /\ hand[i].answer \in {"ok", "refused"} /\ Rowed(hand[i].key)
    BY DEF FinishRow, AcceptedOnce, MayAnswer, At
  <1>2. Moves(i, "answer", hand[i].key, hand[i].answer)
    BY <1>1, GotoMoves DEF FinishRow, At
  <1>3. Records(hand[i].key, hand[i].answer)
    BY <1>1, RowAnswered, InHand DEF FinishRow, At
  <1> QED BY <1>1, <1>2, <1>3 DEF FinishRow

LEMMA WriteResponseDoes ==
    ASSUME TypeOK, HandsAreServed, NEW i \in Instances, WriteResponse(i)
    PROVE  /\ At(i, "answer")
           /\ Moves(i, "finish", hand[i].key, hand[i].answer) \/ Drops(i)
           /\ UNCHANGED <<req, taking, db, phase, jobs, found, performed, shared, bounds>>
           /\ res' \in [Keys -> Answers \cup {"none"}] /\ owed' \subseteq Keys
           /\ \A k \in Keys \ {hand[i].key} : res'[k] = res[k]
           /\ \/ res'[hand[i].key] = hand[i].answer /\ owed' = owed \ {hand[i].key}
              \/ ~AnswersFit /\ UNCHANGED <<res, owed>>
  <1>1. /\ At(i, "answer")
        /\ Moves(i, "finish", hand[i].key, hand[i].answer) \/ Drops(i)
        /\ UNCHANGED <<req, taking, db, phase, jobs, found, performed, shared, bounds>>
        /\ \/ /\ res' = [res EXCEPT ![hand[i].key] = hand[i].answer]
              /\ owed' = owed \ {hand[i].key}
           \/ ~AnswersFit /\ UNCHANGED <<res, owed>>
    BY GotoMoves, DropsHand DEF WriteResponse, At
  <1>2. hand[i].key \in Keys /\ hand[i].answer \in Answers \cup {"none"}
    BY <1>1, InHand DEF At
  <1> QED BY <1>1, <1>2 DEF TypeOK

LEMMA FinishTakenDoes ==
    ASSUME TypeOK, NEW i \in Instances, FinishTaken(i)
    PROVE  /\ At(i, "finish") /\ Drops(i)
           /\ taking' \in [Keys -> Bodies \cup {None}]
           /\ \A k \in Keys \ {hand[i].key} : taking'[k] = taking[k]
           /\ UNCHANGED <<req, res, db, phase, jobs, found, history, bounds>>
  <1>1. taking' \in [Keys -> Bodies \cup {None}] /\ \A k \in Keys \ {hand[i].key} : taking'[k] = taking[k]
    BY DEF FinishTaken, TypeOK
  <1> QED BY <1>1, DropsHand DEF FinishTaken

LEMMA TakeDoes ==
    ASSUME TypeOK, NEW i \in Instances, NEW k \in Keys, Take(i, k) \/ RecoverTaken(i, k)
    PROVE  /\ Free(i) /\ \E a : Moves(i, "taken", k, a)
           /\ UNCHANGED <<res, db, phase, jobs, found, history, bounds>>
           /\ {req', taking'} \subseteq [Keys -> Bodies \cup {None}]
           /\ taking[k] # None => taking'[k] # None
           /\ \A l \in Keys \ {k} : req'[l] = req[l] /\ taking'[l] = taking[l]
  <1>1. ASSUME NEW b \in Bodies,
               hand' = [hand EXCEPT ![i] = [Idle EXCEPT !.pc = "taken", !.key = k, !.body = b,
                                                        !.filed = TRUE]]
        PROVE  \E a : Moves(i, "taken", k, a)
    <2> DEFINE g == [Idle EXCEPT !.pc = "taken", !.key = k, !.body = b, !.filed = TRUE]
    <2>0. g = [Idle EXCEPT !.pc = "taken", !.key = k, !.body = b, !.filed = TRUE]
      OBVIOUS
    <2>2. hand' = [hand EXCEPT ![i] = g]
      BY <1>1
    <2> HIDE DEF g
    <2>1. g \in Holding /\ g.pc = "taken" /\ g.key = k /\ g.body = b
      BY <2>0, IdleIsFresh DEF Holding, Answers
    <2>3. Moves(i, g.pc, g.key, g.answer)
      BY <2>1, <2>2, NewHandMoves
    <2> QED BY <2>1, <2>3
  <1>2. CASE Take(i, k)
    <2>1. req[k] \in Bodies
      BY <1>2 DEF TypeOK, Take
    <2>2. \E a : Moves(i, "taken", k, a)
      BY <1>1, <1>2, <2>1, Zenon DEF Take
    <2>3. /\ {req', taking'} \subseteq [Keys -> Bodies \cup {None}] /\ taking'[k] # None
          /\ \A l \in Keys \ {k} : req'[l] = req[l] /\ taking'[l] = taking[l]
      BY <1>2, <2>1 DEF Take, TypeOK
    <2> QED BY <1>2, <2>2, <2>3, Zenon DEF Take
  <1>3. CASE RecoverTaken(i, k)
    <2>1. taking[k] \in Bodies
      BY <1>3 DEF TypeOK, RecoverTaken
    <2>2. \E a : Moves(i, "taken", k, a)
      BY <1>1, <1>3, <2>1, Zenon DEF RecoverTaken
    <2>3. UNCHANGED <<req, taking>>
      BY <1>3 DEF RecoverTaken, files
    <2>4. {req', taking'} \subseteq [Keys -> Bodies \cup {None}] /\ taking'[k] # None
      BY <1>3, <2>3 DEF TypeOK, RecoverTaken
    <2> QED BY <1>3, <2>2, <2>3, <2>4, Zenon DEF RecoverTaken, files
  <1> QED BY <1>2, <1>3

LEMMA JobEndsDoes ==
    ASSUME TypeOK, CarriedIsOpen, NEW i \in Instances, NEW k \in Keys, JobEnds(i, k)
    PROVE  /\ Free(i) /\ k \in jobs[i] /\ JobsAre(i, jobs[i] \ {k})
           /\ \E a \in {"ok", "refused"} :
                 (a = "ok" => performed[k] # <<>>) /\ Moves(i, "answer", k, a) /\ Records(k, a)
           /\ UNCHANGED <<files, lease, phase, found, history, bounds>>
  <1>1. Rowed(k)
    BY DEF CarriedIsOpen, MayAnswer, JobEnds
  <1>2. PICK a \in {"ok", "refused"} :
           /\ a = "ok" => performed[k] # <<>>
           /\ journal' = [journal EXCEPT ![k].state = a]
           /\ hand' = [hand EXCEPT ![i] = [Idle EXCEPT !.pc = "answer", !.key = k, !.answer = a]]
    BY Zenon DEF JobEnds
  <1>3. Moves(i, "answer", k, a) /\ Records(k, a)
    BY <1>1, <1>2, OwesMoves, RowAnswered
  <1>4. JobsAre(i, jobs[i] \ {k})
    BY DEF JobEnds, JobsAre, TypeOK
  <1> QED BY <1>2, <1>3, <1>4, Zenon DEF JobEnds

LEMMA AnswerAbandonedDoes ==
    ASSUME TypeOK, CarriedIsOpen, NEW i \in Instances, NEW k \in Keys, AnswerAbandoned(i, k)
    PROVE  /\ phase[i] = "recovering" /\ hand[i].pc = "idle" /\ k \in found[i]
           /\ FoundAre(i, found[i] \ {k})
           /\ \E a \in {"ok", "refused"} :
                 (a = "ok" => performed[k] # <<>>) /\ Moves(i, "answer", k, a) /\ Records(k, a)
           /\ UNCHANGED <<files, lease, phase, jobs, history, bounds>>
  <1>1. Rowed(k)
    BY DEF CarriedIsOpen, MayAnswer, AnswerAbandoned
  <1>2. PICK a \in {"ok", "refused"} :
           /\ a = "ok" => performed[k] # <<>>
           /\ journal' = [journal EXCEPT ![k].state = a]
           /\ hand' = [hand EXCEPT ![i] = [Idle EXCEPT !.pc = "answer", !.key = k, !.answer = a]]
    BY Zenon DEF AnswerAbandoned
  <1>3. Moves(i, "answer", k, a) /\ Records(k, a)
    BY <1>1, <1>2, OwesMoves, RowAnswered
  <1>4. FoundAre(i, found[i] \ {k})
    BY DEF AnswerAbandoned, FoundAre, TypeOK
  <1> QED BY <1>2, <1>3, <1>4, Zenon DEF AnswerAbandoned

LEMMA CrashDoes ==
    ASSUME TypeOK, NEW i \in Instances, Crash(i)
    PROVE  /\ Drops(i)
           /\ PhaseIs(i, "down") /\ JobsAre(i, {}) /\ FoundAre(i, {})
           /\ UNCHANGED <<files, db, history, submits>> /\ crashes' \in 0..MaxCrashes
  <1>1. crashes' \in 0..MaxCrashes
    BY QueueAssumption DEF TypeOK, Crash
  <1>2. PhaseIs(i, "down") /\ JobsAre(i, {}) /\ FoundAre(i, {})
    BY DEF Crash, PhaseIs, JobsAre, FoundAre, TypeOK
  <1> QED BY <1>1, <1>2, DropsHand DEF Crash

-----------------------------------------------------------------------------
(* Every handler keeps the invariant *)

LEMMA ExpireKeeps ==
    ASSUME QueueInv, NEW i \in Instances, Expire(i) \/ RefuseReused(i)
    PROVE  QueueInv'
  <1> USE ExpireDoes DEF QueueInv, files, db, history, bounds
  <1>1. TypeOK'
    BY DEF TypeOK, Moves
  <1>2. CompanyIsShared'
    BY DEF CompanyIsShared, Up
  <1>3. HandsAreServed'
    BY DEF HandsAreServed, Moves, At, Up
  <1>4. AcceptedOnce'
    BY DEF AcceptedOnce, Moves, MayAnswer, Rowed
  <1>5. NothingUnrecorded'
    BY DEF NothingUnrecorded, Rowed
  <1>6. CarriedIsOpen'
    BY DEF CarriedIsOpen, MayAnswer, Rowed, Up
  <1>7. AcceptedIsHeld'
    BY DEF AcceptedIsHeld, Moves, At, Up
  <1>8. AnswerIsTheRecord'
    BY DEF AnswerIsTheRecord, Moves
  <1>9. ResponseIsTheRecord'
    BY DEF ResponseIsTheRecord
  <1> QED BY <1>1, <1>2, <1>3, <1>4, <1>5, <1>6, <1>7, <1>8, <1>9

LEMMA AcceptFreshKeeps ==
    ASSUME QueueInv, NEW i \in Instances, AcceptFresh(i)
    PROVE  QueueInv'
  <1> USE AcceptFreshDoes, Typed DEF QueueInv, files, db, history, bounds
  <1>0. hand[i].key \in Keys
    BY InHand DEF At
  <1>1. TypeOK'
    BY DEF TypeOK, Moves, Records
  <1>2. CompanyIsShared'
    BY DEF CompanyIsShared, Up
  <1>3. HandsAreServed'
    BY DEF HandsAreServed, Moves, At, Up
  <1>4. AcceptedOnce'
    BY <1>0 DEF AcceptedOnce, NothingUnrecorded, CarriedIsOpen, Moves, Records, MayAnswer, Rowed
  <1>5. NothingUnrecorded'
    BY <1>0 DEF NothingUnrecorded, Records, Rowed
  <1>6. CarriedIsOpen'
    BY <1>0 DEF CarriedIsOpen, Records, MayAnswer, Rowed, Up
  <1>7. AcceptedIsHeld'
    BY <1>0 DEF AcceptedIsHeld, HandsAreServed, CompanyIsShared, Records, Moves, At, Up, Keys
  <1>8. AnswerIsTheRecord'
    BY <1>0 DEF AnswerIsTheRecord, HandsAreServed, CompanyIsShared, Records, Moves, At, Up
  <1>9. ResponseIsTheRecord'
    BY <1>0 DEF ResponseIsTheRecord, Records, Rowed
  <1> QED BY <1>1, <1>2, <1>3, <1>4, <1>5, <1>6, <1>7, <1>8, <1>9

LEMMA ReplayKeeps ==
    ASSUME QueueInv, NEW i \in Instances, Replay(i)
    PROVE  QueueInv'
  <1> USE ReplayDoes DEF QueueInv, files, db, history, bounds
  <1>1. TypeOK'
    BY DEF TypeOK, Moves
  <1>2. CompanyIsShared'
    BY DEF CompanyIsShared, Up
  <1>3. HandsAreServed'
    BY DEF HandsAreServed, Moves, At, Up
  <1>4. AcceptedOnce'
    BY DEF AcceptedOnce, Moves, MayAnswer, Rowed
  <1>5. NothingUnrecorded'
    BY DEF NothingUnrecorded, Rowed
  <1>6. CarriedIsOpen'
    BY DEF CarriedIsOpen, MayAnswer, Rowed, Up
  <1>7. AcceptedIsHeld'
    BY DEF AcceptedIsHeld, Moves, At, Up
  <1>8. AnswerIsTheRecord'
    BY DEF AnswerIsTheRecord, AcceptedIsHeld, HandsAreServed, Answered, Moves, At, Up
  <1>9. ResponseIsTheRecord'
    BY DEF ResponseIsTheRecord
  <1> QED BY <1>1, <1>2, <1>3, <1>4, <1>5, <1>6, <1>7, <1>8, <1>9

LEMMA RefuseKeeps ==
    ASSUME QueueInv, NEW i \in Instances, Refuse(i)
    PROVE  QueueInv'
  <1> USE RefuseDoes, Typed DEF QueueInv, files, db, history, bounds
  <1>1. TypeOK'
    BY DEF TypeOK, Moves
  <1>2. CompanyIsShared'
    BY DEF CompanyIsShared, Up
  <1>3. HandsAreServed'
    BY DEF HandsAreServed, Moves, At, Up
  <1>4. AcceptedOnce'
    BY DEF AcceptedOnce, Moves, MayAnswer, Rowed, At
  <1>5. NothingUnrecorded'
    BY DEF NothingUnrecorded, Rowed
  <1>6. CarriedIsOpen'
    BY DEF CarriedIsOpen, MayAnswer, Rowed
  <1>7. AcceptedIsHeld'
    BY DEF AcceptedIsHeld, Moves, At, Up
  <1>8. AnswerIsTheRecord'
    BY DEF AnswerIsTheRecord, Moves
  <1>9. ResponseIsTheRecord'
    BY DEF ResponseIsTheRecord
  <1> QED BY <1>1, <1>2, <1>3, <1>4, <1>5, <1>6, <1>7, <1>8, <1>9

LEMMA CarryOutKeeps ==
    ASSUME QueueInv, NEW i \in Instances, CarryOut(i)
    PROVE  QueueInv'
  <1> USE CarryOutDoes, Typed DEF QueueInv, files, db, history, bounds
  <1>1. TypeOK'
    BY DEF TypeOK, Moves
  <1>2. CompanyIsShared'
    BY DEF CompanyIsShared, Up
  <1>3. HandsAreServed'
    BY DEF HandsAreServed, Moves, At, Up
  <1>4. AcceptedOnce'
    <2> DEFINE k == hand[i].key
    <2>1. /\ hand[i].pc = "accepted" /\ k \in Keys /\ hand'[i].pc = "carried_out" /\ hand'[i].key = k
          /\ hand'[i].answer = "ok" /\ performed'[k] # <<>>
          /\ \A j \in Instances \ {i} : hand'[j] = hand[j]
      BY DEF At, Moves
    <2>2. \A l : MayAnswer(l)' <=> MayAnswer(l)
      BY <2>1 DEF MayAnswer, Rowed
    <2>3. \A j \in Instances \ {i} :
             hand[j].pc \in {"accepted", "carried_out"} =>
                performed'[hand[j].key] = performed[hand[j].key] /\ hand[j].key # k
      BY <2>1 DEF AcceptedOnce
    <2>4. ASSUME NEW j \in Instances, j # i
          PROVE  /\ hand[j].pc \in {"accepted", "carried_out"} =>
                       MayAnswer(hand[j].key)' /\ \A l \in Instances : hand[j].key \notin jobs'[l]
                 /\ hand[j].pc = "accepted" =>
                       /\ performed'[hand[j].key] = <<>>
                       /\ \A l \in Instances \ {j} : hand'[l].pc \in {"accepted", "carried_out"} =>
                             hand'[l].key # hand[j].key
                 /\ hand[j].pc = "carried_out" =>
                       /\ hand[j].answer \in {"ok", "refused"}
                       /\ hand[j].answer = "ok" => performed'[hand[j].key] # <<>>
      <3>1. CASE hand[j].pc = "accepted"
        <4>1. \A l \in Instances \ {j} : hand[l].pc \in {"accepted", "carried_out"} =>
                 hand[l].key # hand[j].key
          BY <3>1 DEF AcceptedOnce
        <4>2. hand[i].key # hand[j].key
          BY <2>1, <2>4, <4>1
        <4> QED BY <2>1, <2>2, <2>3, <2>4, <3>1, <4>1, <4>2 DEF AcceptedOnce
      <3>2. CASE hand[j].pc = "carried_out"
        BY <2>1, <2>2, <2>3, <2>4, <3>2 DEF AcceptedOnce
      <3> QED BY <3>1, <3>2
    <2>5. MayAnswer(k)' /\ \A j \in Instances : k \notin jobs'[j]
      BY <2>1, <2>2 DEF AcceptedOnce
    <2> QED BY <2>1, <2>4, <2>5 DEF AcceptedOnce
  <1>5. NothingUnrecorded'
    BY DEF NothingUnrecorded, Rowed, AcceptedOnce, MayAnswer, At
  <1>6. CarriedIsOpen'
    BY DEF CarriedIsOpen, MayAnswer, Rowed
  <1>7. AcceptedIsHeld'
    BY DEF AcceptedIsHeld, Moves, At, Up
  <1>8. AnswerIsTheRecord'
    BY DEF AnswerIsTheRecord, Moves
  <1>9. ResponseIsTheRecord'
    BY DEF ResponseIsTheRecord
  <1> QED BY <1>1, <1>2, <1>3, <1>4, <1>5, <1>6, <1>7, <1>8, <1>9

LEMMA DeferKeeps ==
    ASSUME QueueInv, NEW i \in Instances, Defer(i)
    PROVE  QueueInv'
  <1> USE DeferDoes, Typed DEF QueueInv, files, db, history, bounds, JobsAre
  <1>1. TypeOK'
    BY DEF TypeOK, Moves
  <1>2. CompanyIsShared'
    BY DEF CompanyIsShared, Up
  <1>3. HandsAreServed'
    BY DEF HandsAreServed, Moves, At, Up
  <1>4. AcceptedOnce'
    BY DEF AcceptedOnce, Moves, MayAnswer, Rowed, At
  <1>5. NothingUnrecorded'
    BY DEF NothingUnrecorded, Rowed
  <1>6. CarriedIsOpen'
    BY DEF CarriedIsOpen, MayAnswer, Rowed, AcceptedOnce, HandsAreServed, At
  <1>7. AcceptedIsHeld'
    BY QueueAssumption DEF AcceptedIsHeld, Moves, At, Up, HandsAreServed
  <1>8. AnswerIsTheRecord'
    BY DEF AnswerIsTheRecord, Moves
  <1>9. ResponseIsTheRecord'
    BY DEF ResponseIsTheRecord
  <1> QED BY <1>1, <1>2, <1>3, <1>4, <1>5, <1>6, <1>7, <1>8, <1>9

LEMMA FinishRowKeeps ==
    ASSUME QueueInv, NEW i \in Instances, FinishRow(i)
    PROVE  QueueInv'
  <1> USE FinishRowDoes, Typed DEF QueueInv, files, db, history, bounds
  <1>1. TypeOK'
    BY DEF TypeOK, Moves, Records
  <1>2. CompanyIsShared'
    BY DEF CompanyIsShared, Up
  <1>3. HandsAreServed'
    BY DEF HandsAreServed, Moves, At, Up
  <1>4. AcceptedOnce'
    BY DEF AcceptedOnce, Moves, MayAnswer, Rowed, At, Up, Records, HandsAreServed, CompanyIsShared
  <1>5. NothingUnrecorded'
    BY DEF NothingUnrecorded, Rowed, Records, At
  <1>6. CarriedIsOpen'
    BY DEF CarriedIsOpen, MayAnswer, Rowed, AcceptedOnce, HandsAreServed, CompanyIsShared, Records, At, Up
  <1>7. AcceptedIsHeld'
    BY DEF AcceptedIsHeld, Moves, At, Up, Records, Keys
  <1>8. AnswerIsTheRecord'
    BY DEF AnswerIsTheRecord, Moves, Records, HandsAreServed, CompanyIsShared, At, Up
  <1>9. ResponseIsTheRecord'
    BY DEF ResponseIsTheRecord, Records, AcceptedOnce, MayAnswer, At
  <1> QED BY <1>1, <1>2, <1>3, <1>4, <1>5, <1>6, <1>7, <1>8, <1>9

LEMMA WriteResponseKeeps ==
    ASSUME QueueInv, NEW i \in Instances, WriteResponse(i)
    PROVE  QueueInv'
  <1> USE WriteResponseDoes, Typed DEF QueueInv, files, db, history, bounds
  <1>1. TypeOK'
    BY DEF TypeOK, Moves, Drops, At
  <1>2. CompanyIsShared'
    BY DEF CompanyIsShared, Up
  <1>3. HandsAreServed'
    BY DEF HandsAreServed, Moves, At, Up, Drops
  <1>4. AcceptedOnce'
    BY DEF AcceptedOnce, Moves, MayAnswer, Rowed, Drops, At
  <1>5. NothingUnrecorded'
    BY DEF NothingUnrecorded, Rowed
  <1>6. CarriedIsOpen'
    BY DEF CarriedIsOpen, MayAnswer, Rowed
  <1>7. AcceptedIsHeld'
    BY DEF AcceptedIsHeld, Moves, At, Up, Drops
  <1>8. AnswerIsTheRecord'
    BY DEF AnswerIsTheRecord, Moves, Drops
  <1>9. ResponseIsTheRecord'
    BY DEF ResponseIsTheRecord, AnswerIsTheRecord, At
  <1> QED BY <1>1, <1>2, <1>3, <1>4, <1>5, <1>6, <1>7, <1>8, <1>9

LEMMA FinishTakenKeeps ==
    ASSUME QueueInv, NEW i \in Instances, FinishTaken(i)
    PROVE  QueueInv'
  <1> USE FinishTakenDoes, Typed DEF QueueInv, files, db, history, bounds
  <1>1. TypeOK'
    BY DEF TypeOK, Drops
  <1>2. CompanyIsShared'
    BY DEF CompanyIsShared, Up
  <1>3. HandsAreServed'
    BY DEF HandsAreServed, Moves, At, Up, Drops
  <1>4. AcceptedOnce'
    BY DEF AcceptedOnce, Moves, MayAnswer, Rowed, Drops, At
  <1>5. NothingUnrecorded'
    BY DEF NothingUnrecorded, Rowed
  <1>6. CarriedIsOpen'
    BY DEF CarriedIsOpen, MayAnswer, Rowed
  <1>7. AcceptedIsHeld'
    BY DEF AcceptedIsHeld, Moves, At, Up, Drops
  <1>8. AnswerIsTheRecord'
    BY DEF AnswerIsTheRecord, Moves, Drops
  <1>9. ResponseIsTheRecord'
    BY DEF ResponseIsTheRecord
  <1> QED BY <1>1, <1>2, <1>3, <1>4, <1>5, <1>6, <1>7, <1>8, <1>9

LEMMA TakeKeeps ==
    ASSUME QueueInv, NEW i \in Instances, NEW k \in Keys, Take(i, k) \/ RecoverTaken(i, k)
    PROVE  QueueInv'
  <1> USE TakeDoes DEF QueueInv, files, db, history, bounds
  <1>1. TypeOK'
    BY DEF TypeOK, Moves
  <1>2. CompanyIsShared'
    BY DEF CompanyIsShared, Up
  <1>3. HandsAreServed'
    BY DEF HandsAreServed, Moves, At, Up, Free
  <1>4. AcceptedOnce'
    BY DEF AcceptedOnce, Moves, MayAnswer, Rowed
  <1>5. NothingUnrecorded'
    BY DEF NothingUnrecorded, Rowed
  <1>6. CarriedIsOpen'
    BY DEF CarriedIsOpen, MayAnswer, Rowed
  <1>7. AcceptedIsHeld'
    BY DEF AcceptedIsHeld, Moves, At, Up, Free
  <1>8. AnswerIsTheRecord'
    BY DEF AnswerIsTheRecord, Moves
  <1>9. ResponseIsTheRecord'
    BY DEF ResponseIsTheRecord
  <1> QED BY <1>1, <1>2, <1>3, <1>4, <1>5, <1>6, <1>7, <1>8, <1>9

LEMMA JobActsKeeps ==
    ASSUME QueueInv, NEW i \in Instances, NEW k \in Keys, JobActs(i, k)
    PROVE  QueueInv'
  <1> USE Typed DEF JobActs, process, QueueInv, files, db, history, bounds
  <1>1. TypeOK'
    BY Writings DEF TypeOK, CarriedIsOpen, MayAnswer, Rowed, Written
  <1>2. CompanyIsShared'
    BY DEF CompanyIsShared, Up
  <1>3. HandsAreServed'
    BY DEF HandsAreServed, Moves, At, Up
  <1>4. AcceptedOnce'
    BY DEF AcceptedOnce, Moves, MayAnswer, Rowed, TypeOK
  <1>5. NothingUnrecorded'
    BY DEF NothingUnrecorded, Rowed, CarriedIsOpen, MayAnswer, TypeOK
  <1>6. CarriedIsOpen'
    BY DEF CarriedIsOpen, MayAnswer, Rowed
  <1>7. AcceptedIsHeld'
    BY DEF AcceptedIsHeld, Moves, At, Up
  <1>8. AnswerIsTheRecord'
    BY DEF AnswerIsTheRecord, Moves
  <1>9. ResponseIsTheRecord'
    BY DEF ResponseIsTheRecord
  <1> QED BY <1>1, <1>2, <1>3, <1>4, <1>5, <1>6, <1>7, <1>8, <1>9

LEMMA JobEndsKeeps ==
    ASSUME QueueInv, NEW i \in Instances, NEW k \in Keys, JobEnds(i, k)
    PROVE  QueueInv'
  <1> USE JobEndsDoes, Typed DEF QueueInv, files, db, history, bounds, JobsAre
  <1>1. TypeOK'
    BY DEF TypeOK, Moves, Records
  <1>2. CompanyIsShared'
    BY DEF CompanyIsShared, Up
  <1>3. HandsAreServed'
    BY DEF HandsAreServed, Moves, At, Up, Free
  <1>4. AcceptedOnce'
    BY DEF AcceptedOnce, Moves, MayAnswer, Rowed, Free, Up, Records
  <1>5. NothingUnrecorded'
    BY DEF NothingUnrecorded, Rowed, Records
  <1>6. CarriedIsOpen'
    BY DEF CarriedIsOpen, MayAnswer, Rowed, CompanyIsShared, Records, Up, Free
  <1>7. AcceptedIsHeld'
    BY DEF AcceptedIsHeld, Moves, At, Up, Records, Free, Keys
  <1>8. AnswerIsTheRecord'
    BY DEF AnswerIsTheRecord, Moves, Records, HandsAreServed, CompanyIsShared, Free, Up
  <1>9. ResponseIsTheRecord'
    BY DEF ResponseIsTheRecord, Records, CarriedIsOpen, MayAnswer
  <1> QED BY <1>1, <1>2, <1>3, <1>4, <1>5, <1>6, <1>7, <1>8, <1>9

LEMMA AnswerAbandonedKeeps ==
    ASSUME QueueInv, NEW i \in Instances, NEW k \in Keys, AnswerAbandoned(i, k)
    PROVE  QueueInv'
  <1> USE AnswerAbandonedDoes, Typed DEF QueueInv, files, db, history, bounds, FoundAre
  <1>1. TypeOK'
    BY DEF TypeOK, Moves, Records
  <1>2. CompanyIsShared'
    BY DEF CompanyIsShared, Up
  <1>3. HandsAreServed'
    BY DEF HandsAreServed, Moves, At, Up
  <1>4. AcceptedOnce'
    BY DEF AcceptedOnce, Moves, MayAnswer, Rowed, Up, Records, HandsAreServed, CompanyIsShared
  <1>5. NothingUnrecorded'
    BY DEF NothingUnrecorded, Rowed, Records
  <1>6. CarriedIsOpen'
    BY DEF CarriedIsOpen, MayAnswer, Rowed, CompanyIsShared, Records, Up
  <1>7. AcceptedIsHeld'
    BY DEF AcceptedIsHeld, Moves, At, Up, Records, Keys
  <1>8. AnswerIsTheRecord'
    BY DEF AnswerIsTheRecord, Moves, Records, HandsAreServed, CompanyIsShared, Up
  <1>9. ResponseIsTheRecord'
    BY DEF ResponseIsTheRecord, Records, CarriedIsOpen, MayAnswer
  <1> QED BY <1>1, <1>2, <1>3, <1>4, <1>5, <1>6, <1>7, <1>8, <1>9

LEMMA CrashKeeps ==
    ASSUME QueueInv, NEW i \in Instances, Crash(i)
    PROVE  QueueInv'
  <1> USE CrashDoes, Typed DEF QueueInv, files, db, history, bounds, PhaseIs, JobsAre, FoundAre
  <1>1. TypeOK'
    BY DEF TypeOK, Drops
  <1>2. CompanyIsShared'
    BY DEF CompanyIsShared, Up
  <1>3. HandsAreServed'
    BY DEF HandsAreServed, Moves, At, Up, Drops
  <1>4. AcceptedOnce'
    BY DEF AcceptedOnce, Moves, MayAnswer, Rowed, Drops
  <1>5. NothingUnrecorded'
    BY DEF NothingUnrecorded, Rowed
  <1>6. CarriedIsOpen'
    BY DEF CarriedIsOpen, MayAnswer, Rowed
  <1>7. AcceptedIsHeld'
    BY DEF AcceptedIsHeld, Moves, At, Up, Drops, Crash, CompanyIsShared
  <1>8. AnswerIsTheRecord'
    BY DEF AnswerIsTheRecord, Moves, Drops
  <1>9. ResponseIsTheRecord'
    BY DEF ResponseIsTheRecord
  <1> QED BY <1>1, <1>2, <1>3, <1>4, <1>5, <1>6, <1>7, <1>8, <1>9

LEMMA StartKeeps ==
    ASSUME QueueInv, NEW i \in Instances, Start(i)
    PROVE  QueueInv'
  <1> USE Typed DEF Start, QueueInv, files, db, history, bounds
  <1>1. TypeOK'
    BY DEF TypeOK, Accepted
  <1>2. CompanyIsShared'
    BY DEF CompanyIsShared, Up, TypeOK
  <1>3. HandsAreServed'
    BY DEF HandsAreServed, Moves, At, Up, TypeOK
  <1>4. AcceptedOnce'
    BY DEF AcceptedOnce, Moves, MayAnswer, Rowed
  <1>5. NothingUnrecorded'
    BY DEF NothingUnrecorded, Rowed
  <1>6. CarriedIsOpen'
    BY DEF CarriedIsOpen, MayAnswer, Rowed, TypeOK
  <1>7. AcceptedIsHeld'
    BY DEF AcceptedIsHeld, Moves, At, Up, Accepted, Keys, TypeOK
  <1>8. AnswerIsTheRecord'
    BY DEF AnswerIsTheRecord, Moves, HandsAreServed, Up
  <1>9. ResponseIsTheRecord'
    BY DEF ResponseIsTheRecord
  <1> QED BY <1>1, <1>2, <1>3, <1>4, <1>5, <1>6, <1>7, <1>8, <1>9

LEMMA ReadAcceptedKeeps ==
    ASSUME QueueInv, NEW i \in Instances, ReadAccepted(i)
    PROVE  QueueInv'
  <1> USE Typed DEF ReadAccepted, QueueInv, files, db, history, bounds
  <1>1. TypeOK'
    BY DEF TypeOK
  <1>2. CompanyIsShared'
    BY DEF CompanyIsShared, Up, TypeOK
  <1>3. HandsAreServed'
    BY DEF HandsAreServed, Moves, At, Up, TypeOK
  <1>4. AcceptedOnce'
    BY DEF AcceptedOnce, Moves, MayAnswer, Rowed
  <1>5. NothingUnrecorded'
    BY DEF NothingUnrecorded, Rowed
  <1>6. CarriedIsOpen'
    BY DEF CarriedIsOpen, MayAnswer, Rowed, Accepted, TypeOK
  <1>7. AcceptedIsHeld'
    BY DEF AcceptedIsHeld, Moves, At, Up, Accepted, Keys, TypeOK
  <1>8. AnswerIsTheRecord'
    BY DEF AnswerIsTheRecord, Moves
  <1>9. ResponseIsTheRecord'
    BY DEF ResponseIsTheRecord
  <1> QED BY <1>1, <1>2, <1>3, <1>4, <1>5, <1>6, <1>7, <1>8, <1>9

LEMMA ServeKeeps ==
    ASSUME QueueInv, NEW i \in Instances, Serve(i)
    PROVE  QueueInv'
  <1> USE Typed DEF Serve, QueueInv, files, db, history, bounds
  <1>1. TypeOK'
    BY DEF TypeOK
  <1>2. CompanyIsShared'
    BY DEF CompanyIsShared, Up, TypeOK
  <1>3. HandsAreServed'
    BY DEF HandsAreServed, Moves, At, Up, TypeOK
  <1>4. AcceptedOnce'
    BY DEF AcceptedOnce, Moves, MayAnswer, Rowed
  <1>5. NothingUnrecorded'
    BY DEF NothingUnrecorded, Rowed
  <1>6. CarriedIsOpen'
    BY DEF CarriedIsOpen, MayAnswer, Rowed, TypeOK
  <1>7. AcceptedIsHeld'
    BY DEF AcceptedIsHeld, Moves, At, Up, TypeOK
  <1>8. AnswerIsTheRecord'
    BY DEF AnswerIsTheRecord, Moves
  <1>9. ResponseIsTheRecord'
    BY DEF ResponseIsTheRecord
  <1> QED BY <1>1, <1>2, <1>3, <1>4, <1>5, <1>6, <1>7, <1>8, <1>9

LEMMA OthersDo ==
    ASSUME TypeOK, Client \/ LeaseLapses \/ \E i \in Instances : ClaimLease(i)
    PROVE  /\ req' \in [Keys -> Bodies \cup {None}] /\ res' \in [Keys -> Answers \cup {"none"}]
           /\ \A k \in Keys : res'[k] \in {res[k], "none"}
           /\ lease' \in Instances \cup {None} /\ owed' \subseteq Keys
           /\ submits' \in 0..MaxSubmits
           /\ UNCHANGED <<taking, journal, process, performed, shared, crashes>>
  <1>1. ASSUME NEW k \in Keys, DropResponse(k)
        PROVE  /\ res' \in [Keys -> Answers \cup {"none"}]
               /\ \A l \in Keys : res'[l] \in {res[l], "none"}
               /\ UNCHANGED <<req, lease, owed, submits, taking, journal, process, performed, shared, crashes>>
    BY <1>1 DEF DropResponse, TypeOK, db, history, bounds
  <1>2. ASSUME NEW k \in Keys, NEW b \in Bodies, Submit(k, b)
        PROVE  /\ req' \in [Keys -> Bodies \cup {None}]
               /\ owed' \subseteq Keys /\ submits' \in 0..MaxSubmits
               /\ UNCHANGED <<res, lease, taking, journal, process, performed, shared, crashes>>
    BY <1>2, QueueAssumption DEF Submit, TypeOK, db
  <1>3. CASE LeaseLapses \/ \E i \in Instances : ClaimLease(i)
    BY <1>3 DEF LeaseLapses, ClaimLease, TypeOK, files, history, bounds
  <1> QED BY <1>1, <1>2, <1>3 DEF Client, TypeOK

LEMMA OthersKeep ==
    ASSUME QueueInv, Client \/ LeaseLapses \/ \E i \in Instances : ClaimLease(i)
    PROVE  QueueInv'
  <1> USE OthersDo DEF process, QueueInv, files, db, history, bounds
  <1>1. TypeOK'
    BY DEF TypeOK
  <1>2. CompanyIsShared'
    BY DEF CompanyIsShared, Up
  <1>3. HandsAreServed'
    BY DEF HandsAreServed, Moves, At, Up
  <1>4. AcceptedOnce'
    BY DEF AcceptedOnce, Moves, MayAnswer, Rowed
  <1>5. NothingUnrecorded'
    BY DEF NothingUnrecorded, Rowed
  <1>6. CarriedIsOpen'
    BY DEF CarriedIsOpen, MayAnswer, Rowed
  <1>7. AcceptedIsHeld'
    BY DEF AcceptedIsHeld, Moves, At, Up
  <1>8. AnswerIsTheRecord'
    BY DEF AnswerIsTheRecord, Moves
  <1>9. ResponseIsTheRecord'
    BY DEF ResponseIsTheRecord
  <1> QED BY <1>1, <1>2, <1>3, <1>4, <1>5, <1>6, <1>7, <1>8, <1>9

LEMMA InitKeeps == Init => QueueInv
  <1> USE DEF Init, QueueInv
  <1>1. Init => TypeOK
    <2>1. <<>> \in Seq(Bodies)
      OBVIOUS
    <2>2. Init => performed \in [Keys -> Seq(Bodies)] /\ journal \in [Keys -> Rows]
      BY <2>1, Writings
    <2>3. Init => hand \in [Instances -> Hands] /\ crashes \in 0..MaxCrashes /\ submits \in 0..MaxSubmits
      BY IdleIsHand, QueueAssumption
    <2>4. Init => jobs \in [Instances -> SUBSET Deferred] /\ found \in [Instances -> SUBSET Keys]
      OBVIOUS
    <2>5. Init => {req, taking} \subseteq [Keys -> Bodies \cup {None}] /\ res \in [Keys -> Answers \cup {"none"}]
      OBVIOUS
    <2> QED BY <2>2, <2>3, <2>4, <2>5 DEF TypeOK
  <1>2. Init => CompanyIsShared /\ HandsAreServed /\ AcceptedOnce /\ CarriedIsOpen
    BY IdleIsHand DEF CompanyIsShared, HandsAreServed, AcceptedOnce, CarriedIsOpen, Up
  <1>3. Init => NothingUnrecorded
    BY DEF NothingUnrecorded
  <1>4. Init => AcceptedIsHeld /\ AnswerIsTheRecord /\ ResponseIsTheRecord
    BY IdleIsHand DEF AcceptedIsHeld, AnswerIsTheRecord, ResponseIsTheRecord, Up
  <1> QED BY <1>1, <1>2, <1>3, <1>4

LEMMA NextKeeps == QueueInv /\ [Next]_vars => QueueInv'
  <1> SUFFICES ASSUME QueueInv, [Next]_vars PROVE QueueInv'
    OBVIOUS
  <1>1. CASE Client \/ LeaseLapses \/ \E i \in Instances : ClaimLease(i)
    BY <1>1, OthersKeep
  <1>2. ASSUME NEW i \in Instances, Proceed(i) PROVE QueueInv'
    BY <1>2, ExpireKeeps, AcceptFreshKeeps, ReplayKeeps, RefuseKeeps, CarryOutKeeps, DeferKeeps,
       FinishRowKeeps, WriteResponseKeeps, FinishTakenKeeps DEF Proceed
  <1>3. ASSUME NEW i \in Instances, Crash(i) \/ Start(i) PROVE QueueInv'
    BY <1>3, CrashKeeps, StartKeeps
  <1>4. ASSUME NEW i \in Instances, Recover(i) PROVE QueueInv'
    BY <1>4, ReadAcceptedKeeps, ServeKeeps, AnswerAbandonedKeeps DEF Recover
  <1>5. ASSUME NEW i \in Instances, NEW k \in Keys,
               Take(i, k) \/ RecoverTaken(i, k) \/ JobActs(i, k) \/ JobEnds(i, k)
        PROVE  QueueInv'
    BY <1>5, TakeKeeps, JobActsKeeps, JobEndsKeeps
  <1>6. CASE UNCHANGED vars
    <2> USE <1>6 DEF QueueInv, vars, files, db, process, history, bounds
    <2>1. TypeOK' /\ CompanyIsShared' /\ HandsAreServed'
      BY DEF TypeOK, CompanyIsShared, HandsAreServed, Up
    <2>2. AcceptedOnce' /\ NothingUnrecorded' /\ CarriedIsOpen'
      BY DEF AcceptedOnce, NothingUnrecorded, CarriedIsOpen, MayAnswer, Rowed
    <2>3. AcceptedIsHeld' /\ AnswerIsTheRecord' /\ ResponseIsTheRecord'
      BY DEF AcceptedIsHeld, AnswerIsTheRecord, ResponseIsTheRecord, Up
    <2> QED BY <2>1, <2>2, <2>3
  <1> QED BY <1>1, <1>2, <1>3, <1>4, <1>5, <1>6 DEF Next

\* The inductive invariant holds, with any number of friring processes, keys,
\* submits and crashes.
THEOREM QueueInvariant == Spec => []QueueInv
  BY InitKeeps, NextKeeps, PTL DEF Spec

\* Type correctness: every file, row, hand and job keeps the type it has.
THEOREM QueueTypeCorrect == Spec => []TypeOK
  <1>1. QueueInv => TypeOK
    BY DEF QueueInv
  <1> QED BY <1>1, QueueInvariant, PTL

\* A client never reads an answer that is not the recorded one, nor is it sent
\* to poll for what nobody serves, as long as one friring runs at a time.
THEOREM ResponsesAreTheRecord == Spec => []ResponseIsTheRecord
  <1>1. QueueInv => ResponseIsTheRecord
    BY DEF QueueInv
  <1> QED BY <1>1, QueueInvariant, PTL

-----------------------------------------------------------------------------
(* The queue implements ExactlyOnce *)

Told == [k \in Keys |-> IF Answered(k) THEN journal[k].state ELSE "none"]

LEMMA SameTold ==
    ASSUME TypeOK, NEW k \in Keys, ~Rowed(k), Records(k, "accepted")
    PROVE  Told' = Told
  BY Typed DEF Told, Answered, Records

LEMMA NewTold ==
    ASSUME TypeOK, NEW k \in Keys, NEW a \in {"ok", "refused"}, Records(k, a)
    PROVE  Told' = [Told EXCEPT ![k] = a]
  BY DEF Told, Answered, Records

\* Whoever answers an open row gives an answer the promise allows.
LEMMA AnswersOnce ==
    ASSUME TypeOK, NEW k \in Keys, MayAnswer(k), NEW a \in {"ok", "refused"}, Records(k, a),
           a = "ok" => performed[k] # <<>>, UNCHANGED <<performed, shared>>
    PROVE  Promise!Next
  <1>1. Told' = [Told EXCEPT ![k] = a] /\ (Told[k] = "none" \/ shared)
    BY NewTold DEF MayAnswer, Told, Answered
  <1>2. Promise!Answer(k, a)
    BY <1>1 DEF Promise!Answer, Promise!Open, Told
  <1> QED BY <1>2 DEF Promise!Next

\* What is carried out is carried out for the first time, and unanswered.
LEMMA PerformsOnce ==
    ASSUME TypeOK, NEW k \in Keys, MayAnswer(k), NEW b \in Bodies, performed[k] = <<>>,
           performed' = [performed EXCEPT ![k] = <<b>>], UNCHANGED <<journal, shared>>
    PROVE  Promise!Next
  <1>1. Told' = Told /\ (Told[k] = "none" \/ shared)
    BY DEF MayAnswer, Told, Answered
  <1>2. Promise!Perform(k, b)
    BY <1>1 DEF Promise!Perform, Promise!Open, Told
  <1> QED BY <1>2 DEF Promise!Next

LEMMA ProceedRefines ==
    ASSUME QueueInv, NEW i \in Instances, Proceed(i)
    PROVE  Promise!Next \/ UNCHANGED <<performed, Told, shared>>
  <1> USE DEF QueueInv, db, history
  <1>1. CASE \/ Expire(i) \/ RefuseReused(i) \/ Replay(i) \/ Refuse(i) \/ Defer(i)
             \/ WriteResponse(i) \/ FinishTaken(i)
    <2>1. UNCHANGED <<performed, journal, shared>>
      BY <1>1 DEF Expire, RefuseReused, Replay, Refuse, Defer, WriteResponse, FinishTaken
    <2> QED BY <2>1 DEF Told, Answered
  <1>2. CASE AcceptFresh(i)
    <2>1. hand[i].key \in Keys
      BY <1>2, InHand DEF AcceptFresh, At
    <2> QED BY <1>2, <2>1, AcceptFreshDoes, SameTold
  <1>3. CASE CarryOut(i)
    <2>1. /\ hand[i].pc = "accepted" /\ hand[i].key \in Keys /\ hand[i].body \in Bodies
          /\ performed' = [performed EXCEPT ![hand[i].key] =
                              Append(performed[hand[i].key], hand[i].body)]
          /\ UNCHANGED <<journal, shared>>
      BY <1>3, InHand DEF CarryOut, At, HandsAreServed
    <2>2. MayAnswer(hand[i].key) /\ performed[hand[i].key] = <<>>
      BY <2>1 DEF AcceptedOnce
    <2>3. Append(performed[hand[i].key], hand[i].body) = <<hand[i].body>>
      BY <2>1, <2>2
    <2> QED BY <2>1, <2>2, <2>3, PerformsOnce
  <1>4. CASE FinishRow(i)
    <2>1. hand[i].key \in Keys /\ MayAnswer(hand[i].key)
      BY <1>4, InHand DEF FinishRow, At, AcceptedOnce
    <2>2. hand[i].answer = "ok" => performed[hand[i].key] # <<>>
      BY <1>4 DEF FinishRow, At, AcceptedOnce
    <2> QED BY <1>4, <2>1, <2>2, FinishRowDoes, AnswersOnce
  <1> QED BY <1>1, <1>2, <1>3, <1>4 DEF Proceed

LEMMA JobRefines ==
    ASSUME QueueInv, NEW i \in Instances, NEW k \in Keys, JobActs(i, k) \/ JobEnds(i, k)
    PROVE  Promise!Next
  <1> USE DEF QueueInv, history
  <1>1. MayAnswer(k)
    BY DEF JobActs, JobEnds, CarriedIsOpen
  <1>2. CASE JobActs(i, k)
    <2>1. journal[k].body \in Bodies
      BY <1>1, Writings DEF TypeOK, MayAnswer, Rowed, Written
    <2> QED BY <1>1, <1>2, <2>1, PerformsOnce DEF JobActs, db
  <1>3. CASE JobEnds(i, k)
    BY <1>1, <1>3, JobEndsDoes, AnswersOnce
  <1> QED BY <1>2, <1>3

LEMMA RecoverRefines ==
    ASSUME QueueInv, NEW i \in Instances, Recover(i)
    PROVE  Promise!Next \/ UNCHANGED <<performed, Told, shared>>
  <1> USE DEF QueueInv, history
  <1>1. CASE ReadAccepted(i) \/ Serve(i)
    BY <1>1 DEF ReadAccepted, Serve, db, Told, Answered
  <1>2. ASSUME NEW k \in Keys, AnswerAbandoned(i, k) PROVE Promise!Next
    <2>1. MayAnswer(k)
      BY <1>2 DEF AnswerAbandoned, CarriedIsOpen
    <2> QED BY <1>2, <2>1, AnswerAbandonedDoes, AnswersOnce
  <1> QED BY <1>1, <1>2 DEF Recover

LEMMA InitRefines == Init => Promise!Init
  BY Writings DEF Init, Promise!Init, Answered

LEMMA NextRefines ==
    QueueInv /\ [Next]_vars => [Promise!Next]_<<performed, Told, shared>>
  <1> SUFFICES ASSUME QueueInv, [Next]_vars
               PROVE  Promise!Next \/ UNCHANGED <<performed, Told, shared>>
    OBVIOUS
  <1>1. CASE Client \/ LeaseLapses \/ \E i \in Instances : ClaimLease(i)
    BY <1>1, OthersDo DEF QueueInv, Told, Answered
  <1>2. ASSUME NEW i \in Instances, Start(i)
        PROVE  Promise!Next \/ UNCHANGED <<performed, Told, shared>>
    <2>1. shared' \in BOOLEAN /\ (shared => shared') /\ UNCHANGED <<performed, journal>>
      BY <1>2 DEF Start, db, QueueInv, TypeOK
    <2>2. CASE shared' = shared
      BY <2>1, <2>2 DEF Told, Answered
    <2>3. CASE shared' = TRUE
      BY <2>1, <2>3 DEF Promise!Next, Promise!Share, Answered
    <2> QED BY <2>1, <2>2, <2>3 DEF QueueInv, TypeOK
  <1>3. ASSUME NEW i \in Instances, NEW k \in Keys, Take(i, k) \/ RecoverTaken(i, k) \/ Crash(i)
        PROVE  UNCHANGED <<performed, Told, shared>>
    BY <1>3 DEF Take, RecoverTaken, Crash, db, history, Told, Answered
  <1>4. ASSUME NEW i \in Instances, Crash(i)
        PROVE  UNCHANGED <<performed, Told, shared>>
    BY <1>4 DEF Crash, db, history, Told, Answered
  <1>5. CASE UNCHANGED vars
    BY <1>5 DEF vars, db, history, Told, Answered
  <1> QED BY <1>1, <1>2, <1>3, <1>4, <1>5, ProceedRefines, JobRefines, RecoverRefines DEF Next

\* The queue keeps what ExactlyOnce promises, whatever is retried, crashes or
\* runs side by side: every step is a step of the promise, or invisible to it.
THEOREM QueueRefines == Spec => QueueIsExactlyOnce
  <1>1. [Promise!Next]_<<performed, Told, shared>> =>
           [Promise!Next]_<<performed, [k \in Keys |-> IF Answered(k) THEN journal[k].state ELSE "none"],
                            shared>>
    BY DEF Told
  <1> QED BY <1>1, InitRefines, NextRefines, QueueInvariant, PTL DEF Spec, QueueIsExactlyOnce, Promise!Spec

-----------------------------------------------------------------------------
(* Nothing staged is dropped unanswered *)

\* A step that leaves no request of i at `finish', and no request waiting or
\* owed otherwise than before, keeps StagedIsAnswered.
LEMMA StagedStays ==
    ASSUME StagedIsAnswered, NEW i \in Instances, UNCHANGED <<req, owed>>,
           Drops(i) \/ \E pc, k, a : Moves(i, pc, k, a) /\ (pc = "finish" => k \in Deferred),
           shared => shared'
    PROVE  StagedIsAnswered'
  BY QueueAssumption DEF StagedIsAnswered, Drops, Moves

LEMMA ProceedStages ==
    ASSUME AnswersFit, QueueInv, StagedIsAnswered, NEW i \in Instances, Proceed(i)
    PROVE  StagedIsAnswered'
  <1> USE DEF QueueInv, files, db, history
  <1>1. CASE Expire(i) \/ RefuseReused(i)
    BY <1>1, ExpireDoes, StagedStays
  <1>2. CASE AcceptFresh(i)
    BY <1>2, AcceptFreshDoes, StagedStays
  <1>3. CASE Replay(i)
    <2>1. UNCHANGED <<req, owed, shared>>
      BY <1>3 DEF Replay
    <2>2. \/ Moves(i, "answer", hand[i].key, journal[hand[i].key].state)
          \/ hand[i].key \in Deferred /\ Moves(i, "finish", hand[i].key, hand[i].answer)
          \/ Moves(i, "answer", hand[i].key, "busy")
      BY <1>3, ReplayDoes
    <2> QED BY <2>1, <2>2, StagedStays
  <1>4. CASE Refuse(i)
    BY <1>4, RefuseDoes, StagedStays
  <1>5. CASE CarryOut(i)
    BY <1>5, CarryOutDoes, StagedStays
  <1>6. CASE Defer(i)
    <2>1. UNCHANGED <<req, owed, shared>>
      BY <1>6 DEF Defer
    <2>2. hand[i].key \in Deferred /\ Moves(i, "finish", hand[i].key, hand[i].answer)
      BY <1>6, DeferDoes
    <2> QED BY <2>1, <2>2, StagedStays
  <1>7. CASE FinishRow(i)
    BY <1>7, FinishRowDoes, StagedStays
  <1>8. CASE WriteResponse(i)
    <2>1. /\ Moves(i, "finish", hand[i].key, hand[i].answer) \/ Drops(i)
          /\ owed' = owed \ {hand[i].key} /\ UNCHANGED <<req, shared>>
      BY <1>8, WriteResponseDoes
    <2> QED BY <2>1 DEF StagedIsAnswered, Moves, Drops
  <1>9. CASE FinishTaken(i)
    BY <1>9, FinishTakenDoes, StagedStays
  <1> QED BY <1>1, <1>2, <1>3, <1>4, <1>5, <1>6, <1>7, <1>8, <1>9 DEF Proceed

LEMMA StagedStep ==
    ASSUME AnswersFit, QueueInv, StagedIsAnswered, [Next]_vars
    PROVE  StagedIsAnswered'
  <1> USE DEF QueueInv, files, db, history, process
  <1>1. CASE Client
    <2>1. ASSUME NEW k \in Keys, DropResponse(k)
          PROVE  UNCHANGED <<hand, shared, owed, req>>
      BY <2>1 DEF DropResponse
    <2>2. ASSUME NEW k \in Keys, NEW b \in Bodies, Submit(k, b)
          PROVE  /\ UNCHANGED <<hand, shared>> /\ req'[k] # None /\ owed' = owed \cup {k}
                 /\ \A l \in Keys \ {k} : req'[l] = req[l]
      BY <2>2, QueueAssumption DEF Submit, TypeOK
    <2> QED BY <1>1, <2>1, <2>2, QueueAssumption DEF Client, StagedIsAnswered, Keys
  <1>2. ASSUME NEW i \in Instances, NEW k \in Keys, Take(i, k) \/ RecoverTaken(i, k)
        PROVE  StagedIsAnswered'
    <2>1. /\ Up(i) /\ \E a : Moves(i, "taken", k, a)
          /\ UNCHANGED <<owed, shared>>
      BY <1>2, TakeDoes DEF Free, Up
    <2>2. \A j \in Instances \ {i} : hand[j].pc = "finish" => shared
      BY <2>1 DEF HandsAreServed, CompanyIsShared
    <2> QED BY <2>1, <2>2 DEF StagedIsAnswered, Moves
  <1>3. ASSUME NEW i \in Instances, NEW k \in Keys, AnswerAbandoned(i, k) \/ JobEnds(i, k)
        PROVE  StagedIsAnswered'
    <2>1. \E a : Moves(i, "answer", k, a)
      BY <1>3, AnswerAbandonedDoes, JobEndsDoes
    <2>2. UNCHANGED <<req, owed, shared>>
      BY <1>3 DEF AnswerAbandoned, JobEnds
    <2> QED BY <2>1, <2>2, StagedStays
  <1>4. ASSUME NEW i \in Instances, Crash(i) PROVE StagedIsAnswered'
    BY <1>4, CrashDoes, StagedStays
  <1>5. ASSUME NEW i \in Instances, NEW k \in Keys, JobActs(i, k)
        PROVE  StagedIsAnswered'
    <2>1. UNCHANGED <<hand, owed, req, shared>>
      BY <1>5 DEF JobActs
    <2> QED BY <2>1 DEF StagedIsAnswered
  <1>6. CASE LeaseLapses \/ UNCHANGED vars \/ \E i \in Instances : ClaimLease(i)
    <2>1. UNCHANGED <<hand, owed, req, shared>>
      BY <1>6 DEF ClaimLease, LeaseLapses, vars
    <2> QED BY <2>1 DEF StagedIsAnswered
  <1>9. ASSUME NEW i \in Instances, Start(i) PROVE StagedIsAnswered'
    <2>1. UNCHANGED <<hand, owed, req>>
      BY <1>9 DEF Start, bounds
    <2>2. ~shared' => ~shared
      BY <1>9, Zenon DEF Start
    <2> QED BY <2>1, <2>2 DEF StagedIsAnswered
  <1>7. ASSUME NEW i \in Instances, Recover(i) PROVE StagedIsAnswered'
    <2>1. CASE ReadAccepted(i) \/ Serve(i)
      <3>1. UNCHANGED <<hand, owed, req, shared>>
        BY <2>1 DEF ReadAccepted, Serve
      <3> QED BY <3>1 DEF StagedIsAnswered
    <2> QED BY <1>3, <1>7, <2>1 DEF Recover
  <1>8. ASSUME NEW i \in Instances, Proceed(i) PROVE StagedIsAnswered'
    BY <1>8, ProceedStages
  <1> QED BY <1>1, <1>2, <1>3, <1>4, <1>5, <1>6, <1>7, <1>8, <1>9 DEF Next

\* What leaves .taking is what a finished request removes, or what makes room
\* for the request that has just been renamed there.
LEMMA TakenStep ==
    ASSUME QueueInv, StagedIsAnswered, [Next]_vars, NEW k \in Immediate,
           taking[k] # None, taking'[k] = None, ~shared
    PROVE  k \notin owed \/ req[k] # None
  <1> USE DEF QueueInv, files
  <1>1. ASSUME NEW i \in Instances, FinishTaken(i)
        PROVE  k \notin owed \/ req[k] # None
    <2>1. hand[i].pc = "finish" /\ hand[i].key = k
      BY <1>1, FinishTakenDoes DEF At, Keys
    <2> QED BY <2>1 DEF StagedIsAnswered
  <1>2. ASSUME NEW i \in Instances, NEW l \in Keys, Take(i, l) \/ RecoverTaken(i, l)
        PROVE  FALSE
    BY <1>2, TakeDoes DEF Keys
  <1>3. \/ \E i \in Instances : FinishTaken(i)
        \/ \E i \in Instances, l \in Keys : Take(i, l) \/ RecoverTaken(i, l)
    <2>1. UNCHANGED vars => taking' = taking
      BY DEF vars
    <2>2. Client \/ LeaseLapses \/ (\E i \in Instances : ClaimLease(i)) => taking' = taking
      BY OthersDo
    <2>3. ASSUME NEW i \in Instances, Proceed(i), taking' # taking
          PROVE  FinishTaken(i)
      BY <2>3 DEF Proceed, Expire, AcceptFresh, RefuseReused, Replay, Refuse, CarryOut, Defer,
         FinishRow, WriteResponse
    <2>4. ASSUME NEW i \in Instances, NEW l \in Keys,
                 \/ Crash(i) \/ Start(i) \/ ReadAccepted(i) \/ Serve(i) \/ AnswerAbandoned(i, l)
                 \/ JobActs(i, l) \/ JobEnds(i, l)
          PROVE  taking' = taking
      BY <2>4 DEF Crash, Start, ReadAccepted, Serve, AnswerAbandoned, JobActs, JobEnds
    <2>5. taking' # taking
      OBVIOUS
    <2> QED BY <2>1, <2>2, <2>3, <2>4, <2>5 DEF Next, Recover, Keys
  <1> QED BY <1>1, <1>2, <1>3

\* "Nothing in .taking is ever silently dropped": proved for answers that fit
\* MAX_BRIDGE_RESPONSE_BYTES, which is what AnswersFit says.
THEOREM NothingTakenIsDropped == ASSUME AnswersFit PROVE Spec => TakenIsAnswered
  <1>1. Init => StagedIsAnswered
    BY IdleIsHand DEF Init, StagedIsAnswered
  <1>2. QueueInv /\ StagedIsAnswered /\ [Next]_vars => StagedIsAnswered'
    BY StagedStep
  <1>3. QueueInv /\ StagedIsAnswered /\ [Next]_vars =>
           [\A k \in Immediate : taking[k] # None /\ taking'[k] = None /\ ~shared
               => k \notin owed \/ req[k] # None]_vars
    BY TakenStep
  <1> QED BY <1>1, <1>2, <1>3, QueueInvariant, PTL DEF Spec, TakenIsAnswered
=============================================================================
