-------------------------- MODULE BridgeMail_proofs --------------------------
(***************************************************************************)
(* What holds of BridgeMail for every number of children, mailboxes and    *)
(* friring processes: that a reminder is owed exactly to who stands in one *)
(* of its process's two lines, once; and, where one process serves the     *)
(* database, that a child is reported stalled for what it did not answer.  *)
(***************************************************************************)
EXTENDS BridgeMail, FiniteSetTheorems, SequenceTheorems, TLAPS

-----------------------------------------------------------------------------
(* The invariant *)

InLine(i, s) == s \in ToSet(waiting[i]) \cup ToSet(cooling[i])

\* A record is in a line of its process for as long as a reminder is owed, and
\* no longer.
MailInv ==
    /\ TypeOK
    /\ \A i \in Instances, s \in Sessions : nudges[i][s].owed <=> InLine(i, s)

\* What one process counted was typed since the recipient last called, by it.
OneProcess == \A i, j \in Instances : i = j

Counted == \A i \in Instances, s \in Sessions : nudges[i][s].unanswered <= silent[s]

CountInv == MailInv /\ Counted

-----------------------------------------------------------------------------
(* Lines *)

LEMMA AppendFacts ==
    ASSUME NEW S, NEW q \in Seq(S), NEW x \in S
    PROVE  /\ Append(q, x) \in Seq(S) /\ ToSet(Append(q, x)) = ToSet(q) \cup {x}
           /\ IsInjective(q) /\ x \notin ToSet(q) => IsInjective(Append(q, x))
  <1> DEFINE n == Len(q)
             r == Append(q, x)
  <1>1. /\ r \in Seq(S) /\ Len(r) = n + 1 /\ n \in Nat
        /\ r[n + 1] = x /\ \A k \in 1..n : r[k] = q[k]
    BY AppendProperties
  <1>2. DOMAIN q = 1..n /\ DOMAIN r = 1..(n + 1)
    BY <1>1
  <1> HIDE DEF r, n
  <1>3. \A k \in DOMAIN r : k \in DOMAIN q \/ k = n + 1
    BY <1>1, <1>2
  <1>4. \A k \in DOMAIN q : k \in DOMAIN r /\ k # n + 1
    BY <1>1, <1>2
  <1>5. n + 1 \in DOMAIN r
    BY <1>1, <1>2
  <1>6. ToSet(r) = ToSet(q) \cup {x}
    BY <1>1, <1>2, <1>3, <1>4, <1>5 DEF ToSet
  <1>7. ASSUME IsInjective(q), x \notin ToSet(q) PROVE IsInjective(r)
    BY <1>1, <1>2, <1>3, <1>7 DEF IsInjective, ToSet
  <1> QED BY <1>1, <1>6, <1>7 DEF r

LEMMA TailFacts ==
    ASSUME NEW S, NEW q \in Seq(S), q # <<>>
    PROVE  /\ Tail(q) \in Seq(S) /\ Head(q) \in S /\ Head(q) \in ToSet(q)
           /\ ToSet(q) = ToSet(Tail(q)) \cup {Head(q)}
           /\ IsInjective(q) => IsInjective(Tail(q)) /\ Head(q) \notin ToSet(Tail(q))
  <1> DEFINE n == Len(q)
             r == Tail(q)
  <1>1. /\ r \in Seq(S) /\ Len(r) = n - 1 /\ n \in Nat \ {0} /\ Head(q) = q[1] /\ q[1] \in S
        /\ \A k \in 1..(n - 1) : r[k] = q[k + 1]
    BY HeadTailProperties, EmptySeq
  <1>2. DOMAIN q = 1..n /\ DOMAIN r = 1..(n - 1)
    BY <1>1
  <1> HIDE DEF r, n
  <1>3. 1 \in DOMAIN q
    BY <1>1, <1>2
  <1>4. \A k \in DOMAIN q : k = 1 \/ (k - 1 \in DOMAIN r /\ r[k - 1] = q[k])
    BY <1>1, <1>2
  <1>5. \A k \in DOMAIN r : k + 1 \in DOMAIN q /\ k + 1 # 1 /\ r[k] = q[k + 1] /\ k \in Nat
    BY <1>1, <1>2
  <1>6. ToSet(q) = ToSet(r) \cup {q[1]}
    BY <1>3, <1>4, <1>5 DEF ToSet
  <1>7. ASSUME IsInjective(q) PROVE IsInjective(r) /\ q[1] \notin ToSet(r)
    <2>1. IsInjective(r)
      <3>1. ASSUME NEW a \in DOMAIN r, NEW b \in DOMAIN r, r[a] = r[b] PROVE a = b
        <4>1. a + 1 = b + 1
          BY <1>5, <1>7, <3>1 DEF IsInjective
        <4> QED BY <1>5, <4>1
      <3> QED BY <3>1 DEF IsInjective
    <2>2. q[1] \notin ToSet(r)
      BY <1>3, <1>5, <1>7 DEF IsInjective, ToSet
    <2> QED BY <2>1, <2>2
  <1>8. Head(q) \in ToSet(q)
    BY <1>1, <1>3 DEF ToSet
  <1> QED BY <1>1, <1>6, <1>7, <1>8 DEF r

LEMMA ConcatFacts ==
    ASSUME NEW S, NEW q \in Seq(S), NEW r \in Seq(S)
    PROVE  IsInjective(q \o r) <=>
               IsInjective(q) /\ IsInjective(r) /\ ToSet(q) \cap ToSet(r) = {}
  <1> DEFINE m == Len(q)
             n == Len(r)
             c == q \o r
  <1>1. /\ m \in Nat /\ n \in Nat /\ Len(c) = m + n /\ c \in Seq(S)
        /\ \A k \in 1..(m + n) : c[k] = IF k <= m THEN q[k] ELSE r[k - m]
    BY ConcatProperties
  <1>2. DOMAIN q = 1..m /\ DOMAIN r = 1..n /\ DOMAIN c = 1..(m + n)
    BY <1>1
  <1> HIDE DEF m, n, c
  <1>3. \A k \in DOMAIN q : k \in DOMAIN c /\ c[k] = q[k] /\ k \in Nat
    BY <1>1, <1>2
  <1>4. \A k \in DOMAIN r : m + k \in DOMAIN c /\ c[m + k] = r[k] /\ k \in Nat
    BY <1>1, <1>2
  <1>5. \A k \in DOMAIN c : (k \in DOMAIN q /\ c[k] = q[k])
                            \/ (k - m \in DOMAIN r /\ c[k] = r[k - m] /\ k \in Nat)
    BY <1>1, <1>2
  <1>6. \A j \in DOMAIN q, k \in DOMAIN r : j # m + k
    BY <1>1, <1>2
  <1>7. ASSUME IsInjective(c)
        PROVE  IsInjective(q) /\ IsInjective(r) /\ ToSet(q) \cap ToSet(r) = {}
    <2>1. IsInjective(q)
      BY <1>3, <1>7 DEF IsInjective
    <2>2. IsInjective(r)
      <3>1. ASSUME NEW a \in DOMAIN r, NEW b \in DOMAIN r, r[a] = r[b] PROVE a = b
        <4>1. m + a = m + b
          BY <1>4, <1>7, <3>1 DEF IsInjective
        <4> QED BY <1>1, <1>4, <4>1
      <3> QED BY <3>1 DEF IsInjective
    <2>3. ToSet(q) \cap ToSet(r) = {}
      <3>1. ASSUME NEW j \in DOMAIN q, NEW k \in DOMAIN r, q[j] = r[k] PROVE FALSE
        BY <1>3, <1>4, <1>6, <1>7, <3>1 DEF IsInjective
      <3> QED BY <3>1 DEF ToSet
    <2> QED BY <2>1, <2>2, <2>3
  <1>8. ASSUME IsInjective(q), IsInjective(r), ToSet(q) \cap ToSet(r) = {}
        PROVE  IsInjective(c)
    <2>1. ASSUME NEW a \in DOMAIN c, NEW b \in DOMAIN c, c[a] = c[b] PROVE a = b
      <3>1. \A j \in DOMAIN q, k \in DOMAIN r : q[j] # r[k]
        BY <1>8 DEF ToSet
      <3>2. CASE a \in DOMAIN q /\ c[a] = q[a] /\ b \in DOMAIN q /\ c[b] = q[b]
        BY <1>8, <2>1, <3>2 DEF IsInjective
      <3>3. CASE a - m \in DOMAIN r /\ c[a] = r[a - m] /\ b - m \in DOMAIN r /\ c[b] = r[b - m]
                 /\ a \in Nat /\ b \in Nat
        <4>1. a - m = b - m
          BY <1>8, <2>1, <3>3 DEF IsInjective
        <4> QED BY <1>1, <3>3, <4>1
      <3> QED BY <1>5, <2>1, <3>1, <3>2, <3>3
    <2> QED BY <2>1 DEF IsInjective
  <1> QED BY <1>7, <1>8 DEF c

\* A set put in a line is all there, once.
LEMMA LineOf ==
    ASSUME NEW T, T \subseteq Sessions, NEW q \in SetToSeqs(T)
    PROVE  q \in Seq(Sessions) /\ IsInjective(q) /\ ToSet(q) = T
  <1> DEFINE D == 1..Cardinality(T)
  <1>1. IsFiniteSet(T)
    <2>1. IsFiniteSet(Sessions)
      BY MailAssumption, FS_Singleton, FS_Union DEF Sessions
    <2> QED BY <2>1, FS_Subset
  <1>2. Cardinality(T) \in Nat
    BY <1>1, FS_CardinalityType
  <1>3. q \in [D -> T] /\ IsInjective(q)
    BY DEF SetToSeqs, IsInjective
  <1>4. IsFiniteSet(D) /\ Cardinality(D) = Cardinality(T)
    BY <1>2, FS_Interval
  <1>5. q \in Injection(D, T)
    BY <1>3 DEF Injection
  <1>6. q \in Surjection(D, T)
    BY <1>1, <1>4, <1>5, FS_Injection
  <1>7. ToSet(q) = T
    BY <1>3, <1>6 DEF Surjection, ToSet
  <1>8. q \in Seq(Sessions)
    <2>1. q \in [D -> Sessions]
      BY <1>3
    <2> QED BY <1>2, <2>1
  <1> QED BY <1>3, <1>7, <1>8

\* A line cut down by `gone' and lengthened by `new'.
LEMMA LeftFacts ==
    ASSUME NEW line \in Seq(Sessions), NEW new, new \subseteq Sessions, NEW gone,
           NEW q \in Left(line, new, gone)
    PROVE  q \in Seq(Sessions) /\ IsInjective(q) /\ ToSet(q) = (ToSet(line) \cup new) \ gone
  <1> DEFINE T == (ToSet(line) \cup new) \ gone
  <1>1. T \subseteq Sessions
    BY DEF ToSet
  <1>2. q \in SetToSeqs(T)
    BY DEF Left
  <1> HIDE DEF T
  <1>3. q \in Seq(Sessions) /\ IsInjective(q) /\ ToSet(q) = T
    BY <1>1, <1>2, LineOf
  <1> QED BY <1>3 DEF T

LEMMA CutFacts ==
    ASSUME NEW line \in Seq(Sessions), NEW gone, NEW q \in Left(line, {}, gone)
    PROVE  q \in Seq(Sessions) /\ IsInjective(q) /\ ToSet(q) = ToSet(line) \ gone
  <1> DEFINE T == ToSet(line) \ gone
  <1>1. T \subseteq Sessions
    BY DEF ToSet
  <1>2. (ToSet(line) \cup {}) \ gone = T
    OBVIOUS
  <1>3. q \in SetToSeqs(T)
    BY <1>2 DEF Left
  <1> HIDE DEF T
  <1>4. q \in Seq(Sessions) /\ IsInjective(q) /\ ToSet(q) = T
    BY <1>1, <1>3, LineOf
  <1> QED BY <1>4 DEF T

LEMMA EmptyLine ==
    /\ <<>> \in Seq(Sessions) /\ IsInjective(<<>>) /\ ToSet(<<>>) = {}
  <1>1. <<>> \in Seq(Sessions) /\ DOMAIN <<>> = {}
    OBVIOUS
  <1> QED BY <1>1 DEF IsInjective, ToSet

-----------------------------------------------------------------------------
(* Records *)

LEMMA RecordFacts ==
    /\ NoRecord \in Records /\ Owed \in Records /\ NoRecord.owed = FALSE /\ Owed.owed = TRUE
    /\ NoRecord.unanswered = 0 /\ Owed.unanswered = 0
    /\ \A r \in Records : /\ r.owed \in BOOLEAN /\ r.unanswered \in 0..MaxUnanswered
                          /\ ~r.owed => r = NoRecord
  <1> DEFINE Full3 == [unanswered : 0..MaxUnanswered, reported : BOOLEAN, owed : {TRUE}]
  <1>1. 0 \in 0..MaxUnanswered
    BY MailAssumption
  <1>2. NoRecord = [unanswered |-> 0, reported |-> FALSE, owed |-> FALSE]
    BY DEF NoRecord
  <1>3. Owed \in Full3 /\ Owed.owed = TRUE /\ Owed.unanswered = 0
    <2> DEFINE n == NoRecord
    <2>1. n \in [unanswered : 0..MaxUnanswered, reported : BOOLEAN, owed : BOOLEAN] /\ n.unanswered = 0
      BY <1>1, <1>2
    <2>2. Owed = [n EXCEPT !.owed = TRUE]
      BY DEF Owed
    <2> HIDE DEF n
    <2> QED BY <2>1, <2>2
  <1>4. Records = Full3 \cup {NoRecord}
    BY DEF Records
  <1>5. Owed \in Full3
    BY <1>3
  <1>6. \A r \in Full3 : r.owed = TRUE /\ r.unanswered \in 0..MaxUnanswered
    OBVIOUS
  <1> HIDE DEF Full3
  <1>7. NoRecord.owed = FALSE /\ NoRecord.unanswered = 0 /\ Owed.owed = TRUE /\ Owed.unanswered = 0
    BY <1>2, <1>3
  <1>8. ASSUME NEW r \in Records
        PROVE  r.owed \in BOOLEAN /\ r.unanswered \in 0..MaxUnanswered /\ (~r.owed => r = NoRecord)
    <2>1. CASE r \in Full3
      BY <1>6, <2>1
    <2>2. CASE r = NoRecord
      BY <1>1, <1>7, <2>2
    <2> QED BY <1>4, <2>1, <2>2
  <1> QED BY <1>4, <1>5, <1>7, <1>8

LEMMA CountedOnce ==
    ASSUME NEW r \in Records, r.owed
    PROVE  /\ [r EXCEPT !.reported = TRUE] \in Records
           /\ [r EXCEPT !.reported = TRUE].owed
           /\ [r EXCEPT !.reported = TRUE].unanswered = r.unanswered
           /\ r.unanswered < MaxUnanswered =>
                  /\ [r EXCEPT !.unanswered = @ + 1] \in Records
                  /\ [r EXCEPT !.unanswered = @ + 1].owed
                  /\ [r EXCEPT !.unanswered = @ + 1].unanswered = r.unanswered + 1
  <1> DEFINE Full3 == [unanswered : 0..MaxUnanswered, reported : BOOLEAN, owed : {TRUE}]
  <1>1. Records = Full3 \cup {NoRecord}
    BY DEF Records
  <1>2. r # NoRecord
    BY RecordFacts
  <1>3. r \in Full3
    BY <1>1, <1>2
  <1>4. MaxUnanswered \in Nat
    BY MailAssumption
  <1>5. /\ [r EXCEPT !.reported = TRUE] \in Full3
        /\ [r EXCEPT !.reported = TRUE].owed
        /\ [r EXCEPT !.reported = TRUE].unanswered = r.unanswered
    BY <1>3
  <1>6. ASSUME r.unanswered < MaxUnanswered
        PROVE  /\ [r EXCEPT !.unanswered = @ + 1] \in Full3
               /\ [r EXCEPT !.unanswered = @ + 1].owed
               /\ [r EXCEPT !.unanswered = @ + 1].unanswered = r.unanswered + 1
    <2> DEFINE n == r.unanswered + 1
    <2>1. n \in 0..MaxUnanswered
      BY <1>3, <1>4, <1>6
    <2> HIDE DEF n
    <2>2. /\ [r EXCEPT !.unanswered = n] \in Full3
          /\ [r EXCEPT !.unanswered = n].owed
          /\ [r EXCEPT !.unanswered = n].unanswered = n
      BY <1>3, <2>1
    <2> QED BY <2>2 DEF n
  <1> QED BY <1>1, <1>5, <1>6

-----------------------------------------------------------------------------
(* The invariant, instance by instance *)

RestOK ==
    /\ unread \in [Sessions -> Seq(Kinds)]
    /\ state \in [Children -> Running \cup {"stalled"}]
    /\ pane \in [Sessions -> {"free", "prompt"}]
    /\ loaded \in [Instances -> SUBSET Sessions]
    /\ silent \in [Sessions -> 0..MaxUnanswered]
    /\ told \in [Instances -> SUBSET Children] /\ fresh \subseteq Sessions
    /\ sends \in 0..MaxSends /\ moves \in 0..MaxMoves

Lined(records, q, r) ==
    /\ records \in [Sessions -> Records]
    /\ q \in Seq(Sessions) /\ r \in Seq(Sessions)
    /\ IsInjective(q) /\ IsInjective(r) /\ ToSet(q) \cap ToSet(r) = {}
    /\ \A s \in Sessions : records[s].owed <=> s \in ToSet(q) \cup ToSet(r)

Memory ==
    /\ DOMAIN nudges = Instances /\ nudges = [i \in Instances |-> nudges[i]]
    /\ DOMAIN waiting = Instances /\ waiting = [i \in Instances |-> waiting[i]]
    /\ DOMAIN cooling = Instances /\ cooling = [i \in Instances |-> cooling[i]]
    /\ \A i \in Instances : Lined(nudges[i], waiting[i], cooling[i])

LEMMA InvParts == MailInv <=> RestOK /\ Memory
  <1>1. ASSUME MailInv PROVE RestOK /\ Memory
    <2>1. RestOK
      BY <1>1 DEF MailInv, TypeOK, RestOK
    <2>2. /\ nudges \in [Instances -> [Sessions -> Records]]
          /\ waiting \in [Instances -> Seq(Sessions)] /\ cooling \in [Instances -> Seq(Sessions)]
      BY <1>1 DEF MailInv, TypeOK
    <2>3. ASSUME NEW i \in Instances PROVE Lined(nudges[i], waiting[i], cooling[i])
      <3>1. /\ waiting[i] \in Seq(Sessions) /\ cooling[i] \in Seq(Sessions)
            /\ nudges[i] \in [Sessions -> Records]
        BY <2>2
      <3>2. IsInjective(waiting[i] \o cooling[i])
        BY <1>1 DEF MailInv, TypeOK
      <3>3. \A s \in Sessions : nudges[i][s].owed <=> s \in ToSet(waiting[i]) \cup ToSet(cooling[i])
        BY <1>1 DEF MailInv, InLine
      <3> QED BY <3>1, <3>2, <3>3, ConcatFacts DEF Lined
    <2> QED BY <2>1, <2>2, <2>3 DEF Memory
  <1>2. ASSUME RestOK, Memory PROVE MailInv
    <2>1. \A i \in Instances : /\ waiting[i] \in Seq(Sessions) /\ cooling[i] \in Seq(Sessions)
                               /\ nudges[i] \in [Sessions -> Records]
                               /\ \A s \in Sessions : nudges[i][s].owed <=> InLine(i, s)
      BY <1>2 DEF Memory, Lined, InLine
    <2>2. \A i \in Instances : IsInjective(waiting[i] \o cooling[i])
      BY <1>2, <2>1, ConcatFacts DEF Memory, Lined
    <2>3. /\ nudges \in [Instances -> [Sessions -> Records]]
          /\ waiting \in [Instances -> Seq(Sessions)] /\ cooling \in [Instances -> Seq(Sessions)]
      BY <1>2, <2>1 DEF Memory
    <2> QED BY <1>2, <2>1, <2>2, <2>3 DEF MailInv, TypeOK, RestOK
  <1> QED BY <1>1, <1>2

\* A step that leaves the other processes' memory alone keeps the invariant if
\* it leaves this one's lines in order.
LEMMA OneMemory ==
    ASSUME MailInv, RestOK', NEW i \in Instances, NEW g, NEW q, NEW r,
           nudges' = [nudges EXCEPT ![i] = g], waiting' = [waiting EXCEPT ![i] = q],
           cooling' = [cooling EXCEPT ![i] = r], Lined(g, q, r)
    PROVE  MailInv'
  <1>1. Memory
    BY InvParts
  <1>2. Memory'
    <2>1. \A j \in Instances : Lined(nudges'[j], waiting'[j], cooling'[j])
      <3>1. ASSUME NEW j \in Instances PROVE Lined(nudges'[j], waiting'[j], cooling'[j])
        <4>1. CASE j = i
          <5>1. nudges'[j] = g /\ waiting'[j] = q /\ cooling'[j] = r
            BY <1>1, <4>1 DEF Memory
          <5> QED BY <5>1
        <4>2. CASE j # i
          <5>1. nudges'[j] = nudges[j] /\ waiting'[j] = waiting[j] /\ cooling'[j] = cooling[j]
            BY <1>1, <4>2 DEF Memory
          <5> QED BY <1>1, <5>1 DEF Memory
        <4> QED BY <4>1, <4>2
      <3> QED BY <3>1
    <2>2. /\ DOMAIN nudges' = Instances /\ nudges' = [j \in Instances |-> nudges'[j]]
          /\ DOMAIN waiting' = Instances /\ waiting' = [j \in Instances |-> waiting'[j]]
          /\ DOMAIN cooling' = Instances /\ cooling' = [j \in Instances |-> cooling'[j]]
      BY <1>1 DEF Memory
    <2> QED BY <2>1, <2>2 DEF Memory
  <1>3. (MailInv <=> RestOK /\ Memory)'
    BY InvParts, PTL
  <1> QED BY <1>2, <1>3

\* So does one that leaves every memory alone.
LEMMA NoMemory ==
    ASSUME MailInv, RestOK', UNCHANGED memory
    PROVE  MailInv'
  <1>1. Memory
    BY InvParts
  <1>2. Memory'
    BY <1>1 DEF memory, Memory
  <1>3. (MailInv <=> RestOK /\ Memory)'
    BY InvParts, PTL
  <1> QED BY <1>2, <1>3

-----------------------------------------------------------------------------
(* What may happen to the lines of one process *)

LEMMA LinedSame ==
    ASSUME NEW g, NEW q, NEW r, Lined(g, q, r), NEW h \in [Sessions -> Records],
           \A s \in Sessions : h[s].owed <=> g[s].owed
    PROVE  Lined(h, q, r)
  BY DEF Lined

\* Tried: from the head of one line to the end of the other.
LEMMA LinedTried ==
    ASSUME NEW g, NEW q, NEW r, Lined(g, q, r), q # <<>>
    PROVE  /\ Head(q) \in Sessions /\ g[Head(q)].owed
           /\ Lined(g, Tail(q), Append(r, Head(q)))
  <1>1. /\ Head(q) \in Sessions /\ Head(q) \in ToSet(q) /\ Head(q) \notin ToSet(Tail(q))
        /\ ToSet(q) = ToSet(Tail(q)) \cup {Head(q)}
        /\ Tail(q) \in Seq(Sessions) /\ IsInjective(Tail(q))
    BY TailFacts DEF Lined
  <1>2. Head(q) \notin ToSet(r)
    BY <1>1 DEF Lined
  <1>3. /\ Append(r, Head(q)) \in Seq(Sessions) /\ IsInjective(Append(r, Head(q)))
        /\ ToSet(Append(r, Head(q))) = ToSet(r) \cup {Head(q)}
    BY <1>1, <1>2, AppendFacts DEF Lined
  <1> QED BY <1>1, <1>2, <1>3 DEF Lined

\* The interval is over: back to the end of the first line.
LEMMA LinedElapsed ==
    ASSUME NEW g, NEW q, NEW r, Lined(g, q, r), r # <<>>
    PROVE  /\ Head(r) \in Sessions /\ g[Head(r)].owed /\ Head(r) \notin ToSet(q)
           /\ Lined(g, Append(q, Head(r)), Tail(r))
  <1>1. /\ Head(r) \in Sessions /\ Head(r) \in ToSet(r) /\ Head(r) \notin ToSet(Tail(r))
        /\ ToSet(r) = ToSet(Tail(r)) \cup {Head(r)}
        /\ Tail(r) \in Seq(Sessions) /\ IsInjective(Tail(r))
    BY TailFacts DEF Lined
  <1>2. Head(r) \notin ToSet(q)
    BY <1>1 DEF Lined
  <1>3. /\ Append(q, Head(r)) \in Seq(Sessions) /\ IsInjective(Append(q, Head(r)))
        /\ ToSet(Append(q, Head(r))) = ToSet(q) \cup {Head(r)}
    BY <1>1, <1>2, AppendFacts DEF Lined
  <1> QED BY <1>1, <1>2, <1>3 DEF Lined

\* Newly owed: to the end of the first line.
LEMMA LinedMore ==
    ASSUME NEW g, NEW q, NEW r, Lined(g, q, r), NEW s \in Sessions, ~g[s].owed,
           NEW h \in [Sessions -> Records],
           \A t \in Sessions : h[t].owed <=> g[t].owed \/ t = s
    PROVE  Lined(h, Append(q, s), r)
  <1>1. s \notin ToSet(q) /\ s \notin ToSet(r)
    BY DEF Lined
  <1>2. /\ Append(q, s) \in Seq(Sessions) /\ IsInjective(Append(q, s))
        /\ ToSet(Append(q, s)) = ToSet(q) \cup {s}
    BY <1>1, AppendFacts DEF Lined
  <1> QED BY <1>1, <1>2 DEF Lined

\* Settled: off the head of the first line.
LEMMA LinedLess ==
    ASSUME NEW g, NEW q, NEW r, Lined(g, q, r), q # <<>>,
           NEW h \in [Sessions -> Records],
           \A t \in Sessions : h[t].owed <=> g[t].owed /\ t # Head(q)
    PROVE  Lined(h, Tail(q), r)
  <1>1. /\ Head(q) \in Sessions /\ Head(q) \in ToSet(q) /\ Head(q) \notin ToSet(Tail(q))
        /\ ToSet(q) = ToSet(Tail(q)) \cup {Head(q)}
        /\ Tail(q) \in Seq(Sessions) /\ IsInjective(Tail(q))
    BY TailFacts DEF Lined
  <1> QED BY <1>1 DEF Lined

\* Rebuilt: `gone' is out of both lines, `new' behind the first.
LEMMA LinedRebuilt ==
    ASSUME NEW g, NEW q, NEW r, Lined(g, q, r), NEW new, NEW gone,
           new \subseteq Sessions, \A s \in new : ~g[s].owed,
           NEW h \in [Sessions -> Records],
           \A s \in Sessions : h[s].owed <=> (g[s].owed \/ s \in new) /\ s \notin gone,
           NEW x \in Left(q, new, gone), NEW y \in Left(r, {}, gone)
    PROVE  Lined(h, x, y)
  <1>1. q \in Seq(Sessions) /\ r \in Seq(Sessions)
    BY DEF Lined
  <1>2. x \in Seq(Sessions) /\ IsInjective(x) /\ ToSet(x) = (ToSet(q) \cup new) \ gone
    BY <1>1, LeftFacts
  <1>3. y \in Seq(Sessions) /\ IsInjective(y) /\ ToSet(y) = ToSet(r) \ gone
    BY <1>1, CutFacts
  <1>4. \A s \in new : s \notin ToSet(r)
    BY DEF Lined
  <1> QED BY <1>2, <1>3, <1>4 DEF Lined

-----------------------------------------------------------------------------
(* What a step does to the records of one process *)

\* Only process i's records change, to h.
Only(i, h) == h \in [Sessions -> Records] /\ nudges' = [nudges EXCEPT ![i] = h]

LEMMA SpendDoes ==
    ASSUME MailInv, NEW i \in Instances, NEW s \in Sessions, Spend(i, s)
    PROVE  \E h : /\ Only(i, h) /\ h[s].unanswered = 0
                  /\ \A t \in Sessions : /\ t # s => h[t] = nudges[i][t]
                                         /\ h[t].owed <=> nudges[i][t].owed
  <1> DEFINE e == IF nudges[i][s].owed THEN Owed ELSE nudges[i][s]
             h == [nudges[i] EXCEPT ![s] = e]
  <1>1. nudges[i] \in [Sessions -> Records]
    BY InvParts DEF Memory, Lined
  <1>2. e \in Records /\ e.unanswered = 0 /\ (e.owed <=> nudges[i][s].owed)
    BY <1>1, RecordFacts
  <1>3. nudges' = [nudges EXCEPT ![i] = h]
    BY DEF Spend
  <1> HIDE DEF e
  <1>4. h \in [Sessions -> Records] /\ h[s] = e /\ \A t \in Sessions : t # s => h[t] = nudges[i][t]
    BY <1>1, <1>2
  <1> HIDE DEF h
  <1>5. Only(i, h)
    BY <1>3, <1>4 DEF Only
  <1> QED BY <1>2, <1>4, <1>5

LEMMA DeliverDoes ==
    ASSUME MailInv, NEW i \in Instances, NEW s \in Sessions, NEW to \in Sessions, s # to,
           NEW kind, Deliver(i, s, to, kind)
    PROVE  \E h : /\ Only(i, h) /\ h[s].unanswered = 0
                  /\ \A t \in Sessions : /\ t # s /\ t # to => h[t] = nudges[i][t]
                                         /\ h[t].owed <=> nudges[i][t].owed \/ t = to
                  /\ h[to] = nudges[i][to] \/ h[to].unanswered = 0
  <1> DEFINE e == IF nudges[i][s].owed THEN Owed ELSE nudges[i][s]
             f == IF nudges[i][to].owed THEN nudges[i][to] ELSE Owed
             h == [nudges[i] EXCEPT ![s] = e, ![to] = f]
  <1>1. nudges[i] \in [Sessions -> Records] /\ nudges = [j \in Instances |-> nudges[j]]
    BY InvParts DEF Memory, Lined
  <1>2. e \in Records /\ e.unanswered = 0 /\ (e.owed <=> nudges[i][s].owed)
    BY <1>1, RecordFacts
  <1>3. f \in Records /\ f.owed /\ (f = nudges[i][to] \/ f.unanswered = 0)
    BY <1>1, RecordFacts
  <1>4. nudges' = [nudges EXCEPT ![i][s] = e, ![i][to] = f]
    BY <1>1 DEF Deliver
  <1> HIDE DEF e, f
  <1>5. nudges' = [nudges EXCEPT ![i] = h]
    BY <1>1, <1>4
  <1>6. /\ h \in [Sessions -> Records] /\ h[s] = e /\ h[to] = f
        /\ \A t \in Sessions : t # s /\ t # to => h[t] = nudges[i][t]
    BY <1>1, <1>2, <1>3
  <1> HIDE DEF h
  <1>7. Only(i, h)
    BY <1>5, <1>6 DEF Only
  <1>8. \A t \in Sessions : h[t].owed <=> nudges[i][t].owed \/ t = to
    BY <1>2, <1>3, <1>6
  <1> QED BY <1>2, <1>3, <1>6, <1>7, <1>8

-----------------------------------------------------------------------------
(* Each step keeps the invariant *)

\* What a step has to say for itself: the lines stay in order, and with one
\* process the count of reminders stays within those typed.
Kept == MailInv' /\ (OneProcess /\ Counted => Counted')

LEMMA LinesOf ==
    ASSUME MailInv, NEW i \in Instances
    PROVE  /\ RestOK /\ Lined(nudges[i], waiting[i], cooling[i])
           /\ nudges[i] \in [Sessions -> Records]
           /\ \A s \in Sessions : nudges[i][s] \in Records
           /\ nudges = [nudges EXCEPT ![i] = nudges[i]]
           /\ waiting = [waiting EXCEPT ![i] = waiting[i]]
           /\ cooling = [cooling EXCEPT ![i] = cooling[i]]
  <1>1. RestOK /\ Memory
    BY InvParts
  <1>2. /\ nudges = [nudges EXCEPT ![i] = nudges[i]]
        /\ waiting = [waiting EXCEPT ![i] = waiting[i]]
        /\ cooling = [cooling EXCEPT ![i] = cooling[i]]
    BY <1>1 DEF Memory
  <1>3. Lined(nudges[i], waiting[i], cooling[i])
    BY <1>1 DEF Memory
  <1>4. nudges[i] \in [Sessions -> Records]
    BY <1>3 DEF Lined
  <1> QED BY <1>1, <1>2, <1>3, <1>4

LEMMA OneKept ==
    ASSUME MailInv, RestOK', NEW i \in Instances, NEW h, NEW q, NEW r, Only(i, h),
           waiting' = [waiting EXCEPT ![i] = q], cooling' = [cooling EXCEPT ![i] = r],
           Lined(h, q, r),
           OneProcess /\ Counted => \A s \in Sessions : h[s].unanswered <= silent'[s]
    PROVE  Kept
  <1>1. nudges' = [nudges EXCEPT ![i] = h]
    BY DEF Only
  <1>2. MailInv'
    BY <1>1, OneMemory
  <1>3. ASSUME OneProcess, Counted PROVE Counted'
    <2>1. nudges'[i] = h
      BY <1>1, LinesOf, InvParts DEF Memory
    <2>2. \A j \in Instances : j = i
      BY <1>3 DEF OneProcess
    <2> QED BY <1>3, <2>1, <2>2 DEF Counted
  <1> QED BY <1>2, <1>3 DEF Kept

LEMMA NoneKept ==
    ASSUME MailInv, RestOK', UNCHANGED memory, UNCHANGED silent
    PROVE  Kept
  <1>1. MailInv'
    BY NoMemory
  <1>2. Counted => Counted'
    BY DEF Counted, memory
  <1> QED BY <1>1, <1>2 DEF Kept

\* Any call: its count is spent, nothing else of the memory moves.
LEMMA SpendKeeps ==
    ASSUME MailInv, RestOK', NEW i \in Instances, NEW s \in Sessions,
           Spend(i, s), Heard(s), UNCHANGED <<waiting, cooling>>
    PROVE  Kept
  <1>1. PICK h : /\ Only(i, h) /\ h[s].unanswered = 0
                 /\ \A t \in Sessions : /\ t # s => h[t] = nudges[i][t]
                                        /\ h[t].owed <=> nudges[i][t].owed
    BY SpendDoes
  <1>2. /\ RestOK /\ Lined(nudges[i], waiting[i], cooling[i])
        /\ waiting = [waiting EXCEPT ![i] = waiting[i]]
        /\ cooling = [cooling EXCEPT ![i] = cooling[i]]
    BY LinesOf
  <1>3. h \in [Sessions -> Records]
    BY <1>1 DEF Only
  <1>4. Lined(h, waiting[i], cooling[i])
    BY <1>1, <1>2, <1>3, LinedSame
  <1>5. silent' = [silent EXCEPT ![s] = 0] /\ silent \in [Sessions -> 0..MaxUnanswered]
    BY <1>2 DEF Heard, RestOK
  <1>6. ASSUME Counted PROVE \A t \in Sessions : h[t].unanswered <= silent'[t]
    BY <1>1, <1>5, <1>6 DEF Counted
  <1>7. /\ waiting' = [waiting EXCEPT ![i] = waiting[i]]
        /\ cooling' = [cooling EXCEPT ![i] = cooling[i]]
    BY <1>2
  <1> QED BY <1>1, <1>4, <1>6, <1>7, OneKept

LEMMA DeliverKeeps ==
    ASSUME MailInv, RestOK', NEW i \in Instances, NEW s \in Sessions, NEW to \in Sessions, s # to,
           NEW kind, Deliver(i, s, to, kind), Heard(s), UNCHANGED cooling
    PROVE  Kept
  <1>1. PICK h : /\ Only(i, h) /\ h[s].unanswered = 0
                 /\ \A t \in Sessions : /\ t # s /\ t # to => h[t] = nudges[i][t]
                                        /\ h[t].owed <=> nudges[i][t].owed \/ t = to
                 /\ h[to] = nudges[i][to] \/ h[to].unanswered = 0
    BY DeliverDoes
  <1>2. /\ RestOK /\ Lined(nudges[i], waiting[i], cooling[i])
        /\ waiting = [waiting EXCEPT ![i] = waiting[i]]
        /\ cooling = [cooling EXCEPT ![i] = cooling[i]]
        /\ nudges[i] \in [Sessions -> Records]
    BY LinesOf
  <1>3. h \in [Sessions -> Records]
    BY <1>1 DEF Only
  <1>4. silent' = [silent EXCEPT ![s] = 0] /\ silent \in [Sessions -> 0..MaxUnanswered]
    BY <1>2 DEF Heard, RestOK
  <1>5. ASSUME Counted PROVE \A t \in Sessions : h[t].unanswered <= silent'[t]
    BY <1>1, <1>4, <1>5 DEF Counted
  <1>6. cooling' = [cooling EXCEPT ![i] = cooling[i]]
    BY <1>2
  <1>7. CASE nudges[i][to].owed
    <2>1. Lined(h, waiting[i], cooling[i])
      BY <1>1, <1>2, <1>3, <1>7, LinedSame
    <2>2. waiting' = [waiting EXCEPT ![i] = waiting[i]]
      BY <1>2, <1>7 DEF Deliver
    <2> QED BY <1>1, <1>5, <1>6, <2>1, <2>2, OneKept
  <1>8. CASE ~nudges[i][to].owed
    <2>1. Lined(h, Append(waiting[i], to), cooling[i])
      BY <1>1, <1>2, <1>3, <1>8, LinedMore
    <2>2. waiting' = [waiting EXCEPT ![i] = Append(waiting[i], to)]
      BY <1>8 DEF Deliver
    <2> QED BY <1>1, <1>5, <1>6, <2>1, <2>2, OneKept
  <1> QED BY <1>7, <1>8

\* What is not memory, of any call.
LEMMA HeardTyped ==
    ASSUME RestOK, NEW s \in Sessions, Heard(s)
    PROVE  silent' \in [Sessions -> 0..MaxUnanswered] /\ told' \in [Instances -> SUBSET Children]
  BY MailAssumption DEF RestOK, Heard

LEMMA PutTyped ==
    ASSUME RestOK, NEW s \in Sessions, NEW kind \in Kinds
    PROVE  Put(unread, s, kind) \in [Sessions -> Seq(Kinds)]
  BY DEF RestOK, Put

LEMMA StatusKeeps ==
    ASSUME MailInv, NEW i \in Instances, NEW s \in Sessions, Status(i, s) PROVE Kept
  <1>1. RestOK
    BY LinesOf
  <1>2. RestOK'
    BY <1>1, HeardTyped DEF Status, RestOK, db, bounds
  <1> QED BY <1>2, SpendKeeps DEF Status

LEMMA ClaimKeeps ==
    ASSUME MailInv, NEW i \in Instances, NEW s \in Sessions, NEW limit \in 1..2, Claim(i, s, limit)
    PROVE  Kept
  <1>1. RestOK
    BY LinesOf
  <1>2. unread' \in [Sessions -> Seq(Kinds)]
    <2>1. unread[s] \in Seq(Kinds) /\ unread \in [Sessions -> Seq(Kinds)]
      BY <1>1 DEF RestOK
    <2>2. SubSeq(unread[s], limit + 1, Len(unread[s])) \in Seq(Kinds)
      BY <2>1
    <2>3. unread' = [unread EXCEPT ![s] = SubSeq(unread[s], limit + 1, Len(unread[s]))]
      BY DEF Claim
    <2> QED BY <2>1, <2>2, <2>3
  <1>3. RestOK'
    BY <1>1, <1>2, HeardTyped DEF Claim, RestOK, bounds
  <1> QED BY <1>3, SpendKeeps DEF Claim

LEMMA SendKeeps ==
    ASSUME MailInv, NEW i \in Instances, NEW s \in Sessions, NEW to \in Sessions, Send(i, s, to)
    PROVE  Kept
  <1>1. RestOK
    BY LinesOf
  <1>2. unread' \in [Sessions -> Seq(Kinds)] /\ fresh' \subseteq Sessions
    <2>1. "bridge" \in Kinds
      BY DEF Kinds, MailKinds
    <2> QED BY <1>1, <2>1, PutTyped DEF Send, Deliver, RestOK
  <1>3. sends' \in 0..MaxSends
    BY <1>1, MailAssumption DEF Send, RestOK
  <1>4. RestOK'
    BY <1>1, <1>2, <1>3, HeardTyped DEF Send, RestOK
  <1>5. s # to
    BY DEF Send
  <1> QED BY <1>4, <1>5, DeliverKeeps DEF Send

LEMMA ReportKeeps ==
    ASSUME MailInv, NEW i \in Instances, NEW c \in Children, ReportBlocked(i, c)
    PROVE  Kept
  <1>1. RestOK
    BY LinesOf
  <1>2. c \in Sessions /\ Owner \in Sessions /\ c # Owner
    BY MailAssumption DEF Sessions
  <1>3. unread' \in [Sessions -> Seq(Kinds)] /\ fresh' \subseteq Sessions
    <2>1. "bridge" \in Kinds
      BY DEF Kinds, MailKinds
    <2>2. CASE Full(Owner)
      BY <1>1, <2>2 DEF ReportBlocked, RestOK
    <2>3. CASE ~Full(Owner)
      BY <1>1, <1>2, <2>1, <2>3, PutTyped DEF ReportBlocked, Deliver, RestOK
    <2> QED BY <2>2, <2>3
  <1>4. sends' \in 0..MaxSends
    BY <1>1, MailAssumption DEF ReportBlocked, RestOK
  <1>5. state' \in [Children -> Running \cup {"stalled"}]
    BY <1>1 DEF ReportBlocked, RestOK, Running
  <1>6. RestOK'
    BY <1>1, <1>2, <1>3, <1>4, <1>5, HeardTyped DEF ReportBlocked, RestOK
  <1>7. CASE Full(Owner)
    BY <1>2, <1>6, <1>7, SpendKeeps DEF ReportBlocked
  <1>8. CASE ~Full(Owner)
    BY <1>2, <1>6, <1>8, DeliverKeeps DEF ReportBlocked
  <1> QED BY <1>7, <1>8

LEMMA MirrorKeeps ==
    ASSUME MailInv, NEW i \in Instances, NEW c \in Children, Mirror(i, c) PROVE Kept
  <1>1. RestOK
    BY LinesOf
  <1>2. RestOK'
    BY <1>1 DEF Mirror, RestOK, Running, history, bounds
  <1> QED BY <1>2, NoneKept DEF Mirror, history

LEMMA ResumeKeeps ==
    ASSUME MailInv, NEW i \in Instances, NEW c \in Children, Resume(i, c) PROVE Kept
  <1>1. RestOK
    BY LinesOf
  <1>2. moves' \in 0..MaxMoves /\ c \in Sessions
    BY <1>1, MailAssumption DEF Resume, Move, RestOK, Sessions
  <1>3. RestOK'
    BY <1>1, <1>2 DEF Resume, RestOK, Running, history
  <1> QED BY <1>3, NoneKept DEF Resume, history

LEMMA OutsideKeeps ==
    ASSUME MailInv, NEW s \in Sessions, PutPlain(s) \/ ReadElsewhere(s) \/ PaneChanges(s)
    PROVE  Kept
  <1>1. RestOK
    BY LinesOf, InvParts
  <1>2. CASE PutPlain(s)
    <2>1. unread' \in [Sessions -> Seq(Kinds)]
      BY <1>1, <1>2, PutTyped DEF PutPlain, Kinds
    <2>2. sends' \in 0..MaxSends
      BY <1>1, <1>2, MailAssumption DEF PutPlain, RestOK
    <2>3. RestOK'
      BY <1>1, <1>2, <2>1, <2>2 DEF PutPlain, RestOK, history
    <2> QED BY <1>2, <2>3, NoneKept DEF PutPlain, history
  <1>3. CASE ReadElsewhere(s)
    <2>1. <<>> \in Seq(Kinds)
      OBVIOUS
    <2>2. RestOK'
      BY <1>1, <1>3, <2>1 DEF ReadElsewhere, RestOK, history, bounds
    <2> QED BY <1>3, <2>2, NoneKept DEF ReadElsewhere, history
  <1>4. CASE PaneChanges(s)
    <2>1. moves' \in 0..MaxMoves
      BY <1>1, <1>4, MailAssumption DEF PaneChanges, Move, RestOK
    <2>2. RestOK'
      BY <1>1, <1>4, <2>1 DEF PaneChanges, RestOK, history, db
    <2> QED BY <1>4, <2>2, NoneKept DEF PaneChanges, history
  <1> QED BY <1>2, <1>3, <1>4

LEMMA ParkKeeps ==
    ASSUME MailInv, NEW i \in Instances, NEW s \in Sessions, ParkOrLoad(i, s) PROVE Kept
  <1>1. RestOK
    BY LinesOf
  <1>2. moves' \in 0..MaxMoves
    BY <1>1, MailAssumption DEF ParkOrLoad, Move, RestOK
  <1>3. RestOK'
    BY <1>1, <1>2 DEF ParkOrLoad, RestOK, history, db
  <1> QED BY <1>3, NoneKept DEF ParkOrLoad, history

LEMMA RestartKeeps ==
    ASSUME MailInv, NEW i \in Instances, Restart(i) PROVE Kept
  <1> DEFINE h == [s \in Sessions |-> NoRecord]
  <1>1. RestOK
    BY LinesOf
  <1>2. moves' \in 0..MaxMoves
    BY <1>1, MailAssumption DEF Restart, Move, RestOK
  <1>3. RestOK'
    BY <1>1, <1>2 DEF Restart, RestOK, db
  <1>4. h \in [Sessions -> Records] /\ \A s \in Sessions : ~h[s].owed /\ h[s].unanswered = 0
    BY RecordFacts
  <1>5. nudges' = [nudges EXCEPT ![i] = h]
    BY DEF Restart
  <1> HIDE DEF h
  <1>6. Lined(h, <<>>, <<>>)
    BY <1>4, EmptyLine DEF Lined
  <1>7. \A s \in Sessions : h[s].unanswered <= silent'[s]
    BY <1>1, <1>4, MailAssumption DEF Restart, RestOK
  <1>8. Only(i, h) /\ waiting' = [waiting EXCEPT ![i] = <<>>] /\ cooling' = [cooling EXCEPT ![i] = <<>>]
    BY <1>4, <1>5 DEF Restart, Only
  <1> QED BY <1>3, <1>6, <1>7, <1>8, OneKept

LEMMA ElapseKeeps ==
    ASSUME MailInv, NEW i \in Instances, Elapse(i) PROVE Kept
  <1> DEFINE s == Head(cooling[i])
  <1>1. /\ RestOK /\ Lined(nudges[i], waiting[i], cooling[i])
        /\ nudges[i] \in [Sessions -> Records]
        /\ nudges = [nudges EXCEPT ![i] = nudges[i]]
    BY LinesOf
  <1>2. RestOK'
    BY <1>1 DEF Elapse, RestOK, db, history, bounds
  <1>3. /\ nudges[i][s].owed /\ s \notin ToSet(waiting[i])
        /\ Lined(nudges[i], Append(waiting[i], s), Tail(cooling[i]))
    BY <1>1, LinedElapsed DEF Elapse
  <1>4. ~Contains(waiting[i], s)
    BY <1>3 DEF Contains, ToSet
  <1>5. /\ waiting' = [waiting EXCEPT ![i] = Append(waiting[i], s)]
        /\ cooling' = [cooling EXCEPT ![i] = Tail(cooling[i])]
    BY <1>3, <1>4 DEF Elapse
  <1>6. Only(i, nudges[i])
    BY <1>1 DEF Elapse, Only
  <1>7. Counted => \A t \in Sessions : nudges[i][t].unanswered <= silent'[t]
    BY DEF Counted, Elapse, history
  <1> QED BY <1>2, <1>3, <1>5, <1>6, <1>7, OneKept

LEMMA QuietKeeps ==
    ASSUME MailInv, NEW i \in Instances, KeepQuiet(i) PROVE Kept
  <1> DEFINE s == Head(waiting[i])
  <1>1. /\ RestOK /\ Lined(nudges[i], waiting[i], cooling[i])
        /\ nudges[i] \in [Sessions -> Records]
        /\ nudges = [nudges EXCEPT ![i] = nudges[i]]
    BY LinesOf
  <1>2. RestOK'
    BY <1>1 DEF KeepQuiet, Retried, RestOK, db, history, bounds
  <1>3. Lined(nudges[i], Tail(waiting[i]), Append(cooling[i], s))
    BY <1>1, LinedTried DEF KeepQuiet
  <1>4. /\ waiting' = [waiting EXCEPT ![i] = Tail(waiting[i])]
        /\ cooling' = [cooling EXCEPT ![i] = Append(cooling[i], s)]
    BY DEF KeepQuiet, Retried
  <1>5. Only(i, nudges[i])
    BY <1>1 DEF KeepQuiet, Only
  <1>6. Counted => \A t \in Sessions : nudges[i][t].unanswered <= silent'[t]
    BY DEF Counted, KeepQuiet, history
  <1> QED BY <1>2, <1>3, <1>4, <1>5, <1>6, OneKept

LEMMA SettleKeeps ==
    ASSUME MailInv, NEW i \in Instances, Settle(i) PROVE Kept
  <1> DEFINE s == Head(waiting[i])
             h == [nudges[i] EXCEPT ![s] = NoRecord]
  <1>1. /\ RestOK /\ Lined(nudges[i], waiting[i], cooling[i])
        /\ nudges[i] \in [Sessions -> Records]
        /\ nudges[i] \in [Sessions -> Records]
        /\ cooling = [cooling EXCEPT ![i] = cooling[i]]
    BY LinesOf
  <1>2. RestOK'
    BY <1>1 DEF Settle, RestOK, db, bounds
  <1>3. s \in Sessions
    BY <1>1, LinedTried DEF Settle
  <1>4. nudges' = [nudges EXCEPT ![i] = h]
    BY DEF Settle, Longest
  <1>5. /\ h \in [Sessions -> Records] /\ h[s] = NoRecord /\ Only(i, h)
        /\ \A t \in Sessions : t # s => h[t] = nudges[i][t]
    BY <1>1, <1>3, <1>4, RecordFacts DEF Only
  <1> HIDE DEF h
  <1>6. Lined(h, Tail(waiting[i]), cooling[i])
    <2>1. \A t \in Sessions : h[t].owed <=> nudges[i][t].owed /\ t # s
      BY <1>5, RecordFacts
    <2> QED BY <1>1, <1>5, <2>1, LinedLess DEF Settle
  <1>7. /\ waiting' = [waiting EXCEPT ![i] = Tail(waiting[i])]
        /\ cooling' = [cooling EXCEPT ![i] = cooling[i]]
    BY <1>1 DEF Settle
  <1>8. Counted => \A t \in Sessions : h[t].unanswered <= silent'[t]
    <2>1. silent' = silent /\ silent \in [Sessions -> 0..MaxUnanswered]
      BY <1>1 DEF Settle, RestOK
    <2> QED BY <1>5, <2>1, RecordFacts, MailAssumption DEF Counted
  <1> QED BY <1>2, <1>5, <1>6, <1>7, <1>8, OneKept

LEMMA NudgeKeeps ==
    ASSUME MailInv, NEW i \in Instances, Nudge(i) PROVE Kept
  <1> DEFINE s == Head(waiting[i])
             r == nudges[i][s]
             e == [r EXCEPT !.unanswered = @ + 1]
             h == [nudges[i] EXCEPT ![s] = e]
  <1>1. /\ RestOK /\ Lined(nudges[i], waiting[i], cooling[i])
        /\ nudges[i] \in [Sessions -> Records]
        /\ \A t \in Sessions : nudges[i][t] \in Records
    BY LinesOf
  <1>2. /\ s \in Sessions /\ r.owed
        /\ Lined(nudges[i], Tail(waiting[i]), Append(cooling[i], s))
    BY <1>1, LinedTried DEF Nudge
  <1>3. r \in Records
    BY <1>1, <1>2
  <1>4. r.unanswered < MaxUnanswered /\ r.unanswered \in 0..MaxUnanswered
    BY <1>3, RecordFacts, MailAssumption DEF Nudge, Exhausted, Longest
  <1>5. e \in Records /\ e.owed /\ e.unanswered = r.unanswered + 1
    BY <1>2, <1>3, <1>4, CountedOnce
  <1>6. nudges' = [nudges EXCEPT ![i] = h]
    BY DEF Nudge, Longest
  <1>7. /\ silent' = [silent EXCEPT ![s] = IF @ < MaxUnanswered THEN @ + 1 ELSE @]
        /\ fresh' = fresh \ {s}
        /\ waiting' = [waiting EXCEPT ![i] = Tail(waiting[i])]
        /\ cooling' = [cooling EXCEPT ![i] = Append(cooling[i], s)]
        /\ UNCHANGED <<db, pane, loaded, told, bounds>>
    BY DEF Nudge, Retried, Longest
  <1> HIDE DEF e, s
  <1>8. h \in [Sessions -> Records] /\ h[s] = e /\ \A t \in Sessions : t # s => h[t] = nudges[i][t]
    BY <1>1, <1>2, <1>5
  <1> HIDE DEF h
  <1>9. Only(i, h)
    BY <1>6, <1>8 DEF Only
  <1>10. Lined(h, Tail(waiting[i]), Append(cooling[i], s))
    <2>1. \A t \in Sessions : h[t].owed <=> nudges[i][t].owed
      BY <1>2, <1>5, <1>8
    <2> QED BY <1>2, <1>8, <2>1, LinedSame
  <1>11. silent' \in [Sessions -> 0..MaxUnanswered]
    BY <1>1, <1>2, <1>7, MailAssumption DEF RestOK
  <1>12. RestOK'
    BY <1>1, <1>7, <1>11 DEF RestOK, db, bounds
  <1>13. ASSUME Counted PROVE \A t \in Sessions : h[t].unanswered <= silent'[t]
    <2>1. silent \in [Sessions -> 0..MaxUnanswered] /\ MaxUnanswered \in Nat
      BY <1>1, MailAssumption DEF RestOK
    <2>2. r.unanswered <= silent[s]
      BY <1>2, <1>13 DEF Counted
    <2>3. h[s].unanswered <= silent'[s]
      BY <1>2, <1>4, <1>5, <1>7, <1>8, <2>1, <2>2
    <2>4. \A t \in Sessions : t # s => h[t].unanswered <= silent'[t]
      BY <1>2, <1>7, <1>8, <1>13, <2>1 DEF Counted
    <2> QED BY <2>3, <2>4
  <1> QED BY <1>7, <1>9, <1>10, <1>12, <1>13, OneKept

LEMMA ReportStalledKeeps ==
    ASSUME MailInv, NEW i \in Instances, ReportStalled(i) PROVE Kept
  <1> DEFINE s == Head(waiting[i])
             r == nudges[i][s]
             e == [r EXCEPT !.reported = TRUE]
             owe == ~Full(Owner) /\ ~nudges[i][Owner].owed
  <1>1. /\ RestOK /\ Lined(nudges[i], waiting[i], cooling[i])
        /\ nudges[i] \in [Sessions -> Records] /\ nudges = [nudges EXCEPT ![i] = nudges[i]]
        /\ \A t \in Sessions : nudges[i][t] \in Records
    BY LinesOf
  <1>2. /\ s \in Sessions /\ r.owed
        /\ Lined(nudges[i], Tail(waiting[i]), Append(cooling[i], s))
    BY <1>1, LinedTried DEF ReportStalled
  <1>3. Owner \in Sessions /\ (s # Owner => s \in Children)
    BY <1>2 DEF Sessions
  <1>4. e \in Records /\ e.owed /\ e.unanswered = r.unanswered
    BY <1>1, <1>2, CountedOnce
  <1>5. silent' = silent /\ silent \in [Sessions -> 0..MaxUnanswered]
    BY <1>1 DEF ReportStalled, RestOK
  <1>6. CASE s = Owner
    <2> DEFINE h == [nudges[i] EXCEPT ![s] = e]
    <2>1. nudges' = [nudges EXCEPT ![i] = h]
      BY <1>1, <1>3, <1>6 DEF ReportStalled, Longest
    <2>2. h \in [Sessions -> Records] /\ h[s] = e /\ \A t \in Sessions : t # s => h[t] = nudges[i][t]
      BY <1>1, <1>2, <1>4
    <2> HIDE DEF h
    <2>3. /\ waiting' = [waiting EXCEPT ![i] = Tail(waiting[i])]
          /\ cooling' = [cooling EXCEPT ![i] = Append(cooling[i], s)]
          /\ UNCHANGED <<db, told, fresh>>
      BY <1>6 DEF ReportStalled, Retried, Longest
    <2>4. RestOK'
      BY <1>1, <2>3 DEF ReportStalled, RestOK, db, bounds
    <2>5. Lined(h, Tail(waiting[i]), Append(cooling[i], s))
      <3>1. \A t \in Sessions : h[t].owed <=> nudges[i][t].owed
        BY <1>2, <1>4, <2>2
      <3> QED BY <1>2, <2>2, <3>1, LinedSame
    <2>6. Counted => \A t \in Sessions : h[t].unanswered <= silent'[t]
      BY <1>2, <1>4, <1>5, <2>2 DEF Counted
    <2> QED BY <2>1, <2>2, <2>3, <2>4, <2>5, <2>6, OneKept DEF Only
  <1>7. CASE s # Owner
    <2> DEFINE f == IF owe THEN Owed ELSE nudges[i][Owner]
               h == [nudges[i] EXCEPT ![s] = e, ![Owner] = f]
    <2>1. f \in Records /\ (f = nudges[i][Owner] \/ f.unanswered = 0)
          /\ (f.owed <=> nudges[i][Owner].owed \/ owe)
      BY <1>1, <1>3, RecordFacts
    <2>2. nudges' = [nudges EXCEPT ![i] = h]
      <3>1. nudges' = [nudges EXCEPT ![i][s].reported = TRUE, ![i][Owner] = f]
        BY <1>7 DEF ReportStalled, Longest
      <3> HIDE DEF f
      <3> QED BY <1>1, <1>2, <1>3, <1>7, <3>1
    <2>3. /\ waiting' = [waiting EXCEPT ![i] =
                             IF owe THEN Append(Tail(waiting[i]), Owner) ELSE Tail(waiting[i])]
          /\ cooling' = [cooling EXCEPT ![i] = Append(cooling[i], s)]
          /\ state' = [state EXCEPT ![s] = "stalled"]
          /\ unread' = IF Full(Owner) THEN unread ELSE Put(unread, Owner, "stalled")
          /\ fresh' = IF Full(Owner) THEN fresh ELSE fresh \cup {Owner}
          /\ told' = [told EXCEPT ![i] = told[i] \cup {s}]
          /\ UNCHANGED <<pane, loaded, silent, bounds>>
      BY <1>7 DEF ReportStalled, Longest
    <2> HIDE DEF f
    <2>4. /\ h \in [Sessions -> Records] /\ h[s] = e /\ h[Owner] = f
          /\ \A t \in Sessions : t # s /\ t # Owner => h[t] = nudges[i][t]
      BY <1>1, <1>2, <1>3, <1>4, <1>7, <2>1
    <2> HIDE DEF h
    <2>5. RestOK'
      <3>1. Put(unread, Owner, "stalled") \in [Sessions -> Seq(Kinds)]
        BY <1>1, <1>3, PutTyped DEF Kinds, MailKinds
      <3>2. unread' \in [Sessions -> Seq(Kinds)] /\ fresh' \subseteq Sessions
        BY <1>1, <1>3, <2>3, <3>1 DEF RestOK
      <3>3. told' \in [Instances -> SUBSET Children]
        BY <1>1, <1>3, <1>7, <2>3 DEF RestOK
      <3> QED BY <1>1, <2>3, <3>2, <3>3 DEF RestOK, Running, bounds
    <2>6. Counted => \A t \in Sessions : h[t].unanswered <= silent'[t]
      <3>1. ASSUME Counted, NEW t \in Sessions PROVE h[t].unanswered <= silent'[t]
        <4>1. nudges[i][t].unanswered <= silent'[t] /\ 0 <= silent'[t]
          BY <1>5, <3>1, MailAssumption DEF Counted
        <4>2. h[t].unanswered = nudges[i][t].unanswered \/ h[t].unanswered = 0
          BY <1>2, <1>4, <2>1, <2>4
        <4> QED BY <4>1, <4>2
      <3> QED BY <3>1
    <2>7. CASE owe
      <3>1. \A t \in Sessions : h[t].owed <=> nudges[i][t].owed \/ t = Owner
        BY <1>2, <1>4, <2>1, <2>4, <2>7
      <3>2. Lined(h, Append(Tail(waiting[i]), Owner), Append(cooling[i], s))
        BY <1>2, <1>3, <2>4, <2>7, <3>1, LinedMore
      <3>3. waiting' = [waiting EXCEPT ![i] = Append(Tail(waiting[i]), Owner)]
        BY <2>3, <2>7
      <3> QED BY <2>2, <2>3, <2>4, <2>5, <2>6, <3>2, <3>3, OneKept DEF Only
    <2>8. CASE ~owe
      <3>1. \A t \in Sessions : h[t].owed <=> nudges[i][t].owed
        BY <1>2, <1>4, <2>1, <2>4, <2>8
      <3>2. Lined(h, Tail(waiting[i]), Append(cooling[i], s))
        BY <1>2, <2>4, <3>1, LinedSame
      <3>3. waiting' = [waiting EXCEPT ![i] = Tail(waiting[i])]
        BY <2>3, <2>8
      <3> QED BY <2>2, <2>3, <2>4, <2>5, <2>6, <3>2, <3>3, OneKept DEF Only
    <2> QED BY <2>7, <2>8
  <1> QED BY <1>6, <1>7

LEMMA ReconcileKeeps ==
    ASSUME MailInv, NEW i \in Instances, Reconcile(i) PROVE Kept
  <1> DEFINE g     == nudges[i]
             owing == {s \in loaded[i] : Has(s, MailKinds)}
             kept  == {s \in Sessions : g[s].owed} \cup owing
             gone  == IF Cardinality(kept) > MaxRecords THEN kept \ loaded[i] ELSE {}
             new   == {s \in owing : ~g[s].owed}
             h     == [s \in Sessions |-> IF s \in gone THEN NoRecord
                                          ELSE IF s \in owing /\ ~g[s].owed THEN Owed ELSE g[s]]
  <1>1. /\ RestOK /\ Lined(g, waiting[i], cooling[i])
        /\ g \in [Sessions -> Records]
        /\ \A t \in Sessions : g[t] \in Records
    BY LinesOf
  <1>2. owing \subseteq Sessions /\ new \subseteq Sessions /\ gone \subseteq Sessions
    BY <1>1 DEF RestOK
  <1>3. PICK x \in Left(waiting[i], new, gone) : waiting' = [waiting EXCEPT ![i] = x]
    BY DEF Reconcile
  <1>4. PICK y \in Left(cooling[i], {}, gone) : cooling' = [cooling EXCEPT ![i] = y]
    BY DEF Reconcile
  <1>5. nudges' = [nudges EXCEPT ![i] = h]
    BY DEF Reconcile
  <1>6. /\ told' = [told EXCEPT ![i] = told[i] \ gone]
        /\ UNCHANGED <<db, pane, loaded, silent, fresh, bounds>>
    BY DEF Reconcile
  <1> HIDE DEF gone
  <1>7. RestOK'
    BY <1>1, <1>6 DEF RestOK, db, bounds
  <1>8. \A s \in new : s \in owing /\ ~g[s].owed
    OBVIOUS
  <1>9. /\ h \in [Sessions -> Records]
        /\ \A s \in Sessions : \/ h[s] = NoRecord /\ s \in gone
                               \/ h[s] = Owed /\ s \in new /\ s \notin gone
                               \/ h[s] = g[s] /\ s \notin new /\ s \notin gone
    BY <1>1, RecordFacts
  <1> HIDE DEF h, new, owing
  <1>10. \A s \in Sessions : h[s].owed <=> (g[s].owed \/ s \in new) /\ s \notin gone
    BY <1>9, RecordFacts
  <1>11. Lined(h, x, y)
    BY <1>1, <1>2, <1>8, <1>9, <1>10, LinedRebuilt
  <1>12. ASSUME Counted PROVE \A s \in Sessions : h[s].unanswered <= silent'[s]
    <2>1. silent' = silent /\ silent \in [Sessions -> 0..MaxUnanswered] /\ MaxUnanswered \in Nat
      BY <1>1, <1>6, MailAssumption DEF RestOK
    <2> QED BY <1>9, <1>12, <2>1, RecordFacts DEF Counted
  <1> QED BY <1>3, <1>4, <1>5, <1>7, <1>9, <1>11, <1>12, OneKept DEF Only

-----------------------------------------------------------------------------
(* The specification *)

LEMMA StartsInOrder == Init => MailInv /\ Counted
  <1> SUFFICES ASSUME Init PROVE MailInv /\ Counted
    OBVIOUS
  <1>1. RestOK
    <2>1. <<>> \in Seq(Kinds)
      OBVIOUS
    <2> QED BY <2>1, MailAssumption DEF Init, RestOK, Running
  <1>2. \A i \in Instances : /\ nudges[i] = [s \in Sessions |-> NoRecord]
                             /\ waiting[i] = <<>> /\ cooling[i] = <<>>
    BY DEF Init
  <1>3. \A i \in Instances : Lined(nudges[i], waiting[i], cooling[i])
    <2> DEFINE h == [s \in Sessions |-> NoRecord]
    <2>1. h \in [Sessions -> Records] /\ \A s \in Sessions : ~h[s].owed
      BY RecordFacts
    <2> HIDE DEF h
    <2>2. Lined(h, <<>>, <<>>)
      BY <2>1, EmptyLine DEF Lined
    <2> QED BY <1>2, <2>2 DEF h
  <1>4. Memory
    BY <1>3 DEF Init, Memory
  <1>5. Counted
    BY <1>2, RecordFacts DEF Init, Counted
  <1> QED BY <1>1, <1>4, <1>5, InvParts

LEMMA StepKeeps ==
    ASSUME MailInv, [Next]_vars PROVE Kept
  <1>1. CASE UNCHANGED vars
    <2>1. RestOK'
      BY <1>1, LinesOf, InvParts DEF vars, db, memory, history, bounds, RestOK
    <2> QED BY <1>1, <2>1, NoneKept DEF vars, memory, history
  <1>2. ASSUME NEW i \in Instances, Tick(i) PROVE Kept
    BY <1>2, SettleKeeps, QuietKeeps, NudgeKeeps, ReportStalledKeeps, ReconcileKeeps, ElapseKeeps,
       MirrorKeeps, ResumeKeeps DEF Tick, TickNudges
  <1>3. ASSUME NEW i \in Instances, NEW s \in Sessions, Call(i, s) PROVE Kept
    BY <1>3, StatusKeeps, ClaimKeeps, SendKeeps, ReportKeeps DEF Call
  <1>4. ASSUME Next PROVE Kept
    BY <1>2, <1>3, <1>4, RestartKeeps, ParkKeeps, OutsideKeeps DEF Next
  <1> QED BY <1>1, <1>4

\* The lines of every process are in order, whatever crashes, is parked or is
\* read elsewhere.
THEOREM MailInvariant == Spec => []MailInv
  <1>1. Init => MailInv
    BY StartsInOrder
  <1>2. MailInv /\ [Next]_vars => MailInv'
    BY StepKeeps DEF Kept
  <1> QED BY <1>1, <1>2, PTL DEF Spec

\* Mailboxes, records and lines stay in their types, and no recipient stands
\* twice in the lines of a process (tick_bridge_nudges, reconcile_owed_nudges).
THEOREM MailTypeCorrect == Spec => []TypeOK
  <1>1. MailInv => TypeOK
    BY DEF MailInv
  <1> QED BY <1>1, MailInvariant, PTL

\* No reminder is owed that no pass of the broker will come to: every branch
\* of tick_bridge_nudges, and the rebuild on the slow pass, leaves an owed
\* recipient in one of the lines of its process.
THEOREM OwedStandsInLine == Spec => []OwedIsScheduled
  <1>1. MailInv => OwedIsScheduled
    BY DEF MailInv, OwedIsScheduled, InLine
  <1> QED BY <1>1, MailInvariant, PTL

\* Where one process serves the database, a child is reported `stalled' only
\* after that many reminders it did not answer (report_stalled_child). With a
\* second process the count of the first outlives the calls the second serves.
THEOREM StallsAreEarned ==
    ASSUME OneProcess
    PROVE  Spec => StallIsEarned
  <1>1. Init => CountInv
    BY StartsInOrder DEF CountInv
  <1>2. CountInv /\ [Next]_vars => CountInv'
    BY StepKeeps DEF CountInv, Kept
  <1>3. CountInv /\ [Next]_vars =>
            [\A c \in Children : state[c] # "stalled" /\ state'[c] = "stalled"
                => silent[c] >= MaxUnanswered]_vars
    <2> SUFFICES ASSUME CountInv, [Next]_vars, NEW c \in Children,
                        state[c] # "stalled", state'[c] = "stalled"
                 PROVE  silent[c] >= MaxUnanswered
      OBVIOUS
    <2>1. RestOK /\ c \in Sessions
      BY InvParts DEF CountInv, Sessions
    <2>2. PICK i \in Instances : ReportStalled(i)
      <3>1. ASSUME NEW i \in Instances, NEW d \in Children,
                   Mirror(i, d) \/ Resume(i, d) \/ ReportBlocked(i, d)
            PROVE  FALSE
        BY <2>1, <3>1 DEF Mirror, Resume, ReportBlocked, RestOK, Running
      <3>2. state' # state
        OBVIOUS
      <3>3. ~UNCHANGED vars
        BY <3>2 DEF vars, db
      <3>4. ASSUME NEW i \in Instances, Tick(i) PROVE ReportStalled(i)
        BY <3>1, <3>2, <3>4 DEF Tick, TickNudges, Settle, KeepQuiet, Nudge, Reconcile, Elapse, db
      <3>5. ASSUME NEW i \in Instances, NEW s \in Sessions, Call(i, s) PROVE FALSE
        BY <3>1, <3>2, <3>5 DEF Call, Status, Claim, Send, db
      <3>6. ASSUME NEW i \in Instances, NEW s \in Sessions, ParkOrLoad(i, s) \/ Restart(i) PROVE FALSE
        BY <3>2, <3>6 DEF ParkOrLoad, Restart, db
      <3>7. ASSUME NEW s \in Sessions, PutPlain(s) \/ ReadElsewhere(s) \/ PaneChanges(s) PROVE FALSE
        BY <3>2, <3>7 DEF PutPlain, ReadElsewhere, PaneChanges, db
      <3> QED BY <2>1, <3>3, <3>4, <3>5, <3>6, <3>7 DEF Next
    <2>3. Head(waiting[i]) = c
      BY <2>1, <2>2 DEF ReportStalled, Longest, RestOK, db
    <2>4. nudges[i][c].unanswered >= MaxUnanswered /\ nudges[i][c] \in Records
      BY <2>1, <2>2, <2>3, LinesOf DEF ReportStalled, Longest, Exhausted, CountInv
    <2>5. nudges[i][c].unanswered <= silent[c] /\ silent[c] \in Nat
      BY <2>1, MailAssumption DEF CountInv, Counted, RestOK
    <2> QED BY <2>4, <2>5, RecordFacts, MailAssumption
  <1> QED BY <1>1, <1>2, <1>3, PTL DEF Spec, StallIsEarned

=============================================================================
