-------------------------- MODULE RunBroker_proofs --------------------------
(***************************************************************************)
(* What a watcher of a run receives, whatever the sizes of its queue and   *)
(* of the backlog, however many watch, and however the worker's puts and   *)
(* the watchers' reads interleave.                                         *)
(***************************************************************************)
EXTENDS RunBroker, SequenceTheorems, TLAPS

-----------------------------------------------------------------------------
(* Sequences: what the operations of a queue do to what is in it. *)

Once(q) == \A i, j \in 1..Len(q) : q[i] = q[j] => i = j

LEMMA ElementsAppend ==
  ASSUME NEW S, NEW q \in Seq(S), NEW e \in S
  PROVE  Elements(Append(q, e)) = Elements(q) \cup {e}
<1>1. /\ Len(q) \in Nat /\ Len(Append(q, e)) = Len(q) + 1
      /\ \A i \in 1..Len(q) : Append(q, e)[i] = q[i]
      /\ Append(q, e)[Len(q) + 1] = e
  BY AppendProperties, LenProperties
<1> QED
  BY <1>1 DEF Elements

LEMMA ElementsTail ==
  ASSUME NEW S, NEW q \in Seq(S), q # <<>>
  PROVE  /\ Elements(q) = {Head(q)} \cup Elements(Tail(q))
         /\ Once(q) => Head(q) \notin Elements(Tail(q)) /\ Once(Tail(q))
<1>1. /\ Len(q) \in Nat \ {0} /\ Len(Tail(q)) = Len(q) - 1 /\ Head(q) = q[1]
      /\ \A i \in 1..Len(Tail(q)) : Tail(q)[i] = q[i + 1]
  BY HeadTailProperties, EmptySeq
<1>2. ASSUME NEW x \in Elements(q), x # Head(q) PROVE x \in Elements(Tail(q))
  <2>1. PICK i \in 1..Len(q) : x = q[i]
    BY DEF Elements
  <2>2. i - 1 \in 1..Len(Tail(q)) /\ Tail(q)[i - 1] = x
    BY <1>1, <1>2, <2>1
  <2> QED
    BY <2>2 DEF Elements
<1>3. ASSUME NEW x \in Elements(Tail(q)) PROVE \E i \in 2..Len(q) : x = q[i]
  <2>1. PICK i \in 1..Len(Tail(q)) : x = Tail(q)[i]
    BY DEF Elements
  <2> QED
    BY <1>1, <2>1
<1>4. Head(q) \in Elements(q)
  BY <1>1 DEF Elements
<1>5. Elements(Tail(q)) \subseteq Elements(q)
  BY <1>1, <1>3 DEF Elements
<1>6. Once(q) => Head(q) \notin Elements(Tail(q))
  BY <1>1, <1>3 DEF Once
<1>7. Once(q) => Once(Tail(q))
  BY <1>1 DEF Once
<1> QED
  BY <1>2, <1>4, <1>5, <1>6, <1>7

LEMMA ElementsConcat ==
  ASSUME NEW S, NEW p \in Seq(S), NEW q \in Seq(S)
  PROVE  Elements(p \o q) = Elements(p) \cup Elements(q)
<1> DEFINE c == p \o q
           n == Len(p)
<1>1. /\ n \in Nat /\ Len(q) \in Nat /\ Len(c) = n + Len(q)
      /\ \A i \in 1..(n + Len(q)) : c[i] = IF i <= n THEN p[i] ELSE q[i - n]
  BY ConcatProperties, LenProperties
<1> HIDE DEF c, n
<1>2. \A i \in 1..Len(c) : (i \in 1..n /\ c[i] = p[i]) \/ (i - n \in 1..Len(q) /\ c[i] = q[i - n])
  BY <1>1
<1>3. \A i \in 1..n : i \in 1..Len(c) /\ c[i] = p[i]
  BY <1>1
<1>4. \A i \in 1..Len(q) : i + n \in 1..Len(c) /\ c[i + n] = q[i]
  BY <1>1
<1>5. Elements(c) \subseteq Elements(p) \cup Elements(q)
  BY <1>2 DEF Elements, n
<1>6. Elements(p) \subseteq Elements(c)
  BY <1>3 DEF Elements, n
<1>7. Elements(q) \subseteq Elements(c)
  BY <1>4 DEF Elements
<1> QED
  BY <1>5, <1>6, <1>7 DEF c

LEMMA OnceAppend ==
  ASSUME NEW S, NEW q \in Seq(S), NEW e \in S, Once(q), e \notin Elements(q)
  PROVE  Once(Append(q, e))
<1>1. /\ Len(q) \in Nat /\ Len(Append(q, e)) = Len(q) + 1
      /\ \A i \in 1..Len(q) : Append(q, e)[i] = q[i]
      /\ Append(q, e)[Len(q) + 1] = e
  BY AppendProperties, LenProperties
<1> QED
  BY <1>1 DEF Once, Elements

\* Two pieces of a sequence with one element between them left out.
LEMMA Joined ==
  ASSUME NEW S, NEW a \in Seq(S), NEW b \in Seq(S), NEW n \in Nat, NEW i \in 1..n,
         Len(a) = i - 1, Len(b) = n - i
  PROVE  /\ a \o b \in Seq(S) /\ Len(a \o b) = n - 1
         /\ \A k \in 1..(n - 1) : (a \o b)[k] = IF k < i THEN a[k] ELSE b[k - (i - 1)]
<1>1. Len(a) + Len(b) = n - 1
  OBVIOUS
<1>2. /\ a \o b \in Seq(S) /\ Len(a \o b) = Len(a) + Len(b)
      /\ \A k \in 1..(Len(a) + Len(b)) : (a \o b)[k] = IF k <= Len(a) THEN a[k] ELSE b[k - Len(a)]
  BY ConcatProperties
<1>3. \A k \in 1..(n - 1) : (a \o b)[k] = IF k <= i - 1 THEN a[k] ELSE b[k - (i - 1)]
  BY <1>1, <1>2
<1>4. \A k \in 1..(n - 1) : k <= i - 1 <=> k < i
  OBVIOUS
<1> QED
  BY <1>1, <1>2, <1>3, <1>4

\* What is in the list once is not in it any more when it is taken out.
LEMMA TakenOut ==
  ASSUME NEW S, NEW q \in Seq(S), Once(q), NEW i \in 1..Len(q),
         NEW rest, rest = SubSeq(q, 1, i - 1) \o SubSeq(q, i + 1, Len(q))
  PROVE  /\ rest \in Seq(S) /\ Once(rest)
         /\ Elements(rest) = Elements(q) \ {q[i]}
<1> DEFINE a == SubSeq(q, 1, i - 1)
           b == SubSeq(q, i + 1, Len(q))
<1>1. Len(q) \in Nat /\ \A k \in 1..Len(q) : q[k] \in S
  BY LenProperties, ElementOfSeq
<1>2. /\ a \in Seq(S) /\ Len(a) = i - 1
      /\ \A k \in 1..(i - 1) : a[k] = q[k]
  BY <1>1, SubSeqProperties
<1>3. /\ b \in Seq(S) /\ Len(b) = Len(q) - i
      /\ \A k \in 1..(Len(q) - i) : b[k] = q[i + k]
  BY <1>1, SubSeqProperties
<1> DEFINE n == Len(q)
<1>4. /\ rest \in Seq(S) /\ Len(rest) = n - 1
      /\ \A k \in 1..(n - 1) : rest[k] = IF k < i THEN a[k] ELSE b[k - (i - 1)]
  <2>1. rest = a \o b
    OBVIOUS
  <2>2. /\ n \in Nat /\ i \in 1..n
        /\ a \in Seq(S) /\ Len(a) = i - 1
        /\ b \in Seq(S) /\ Len(b) = n - i
    BY <1>1, <1>2, <1>3
  <2> HIDE DEF a, b, n
  <2>3. /\ a \o b \in Seq(S) /\ Len(a \o b) = n - 1
        /\ \A k \in 1..(n - 1) : (a \o b)[k] = IF k < i THEN a[k] ELSE b[k - (i - 1)]
    BY <2>2, Joined
  <2> QED
    BY <2>1, <2>3
<1>5. \A k \in 1..(n - 1) : rest[k] = IF k < i THEN q[k] ELSE q[k + 1]
  <2> HIDE DEF a, b
  <2> SUFFICES ASSUME NEW k \in 1..(n - 1)
               PROVE  rest[k] = IF k < i THEN q[k] ELSE q[k + 1]
    OBVIOUS
  <2>2. n \in Nat /\ i \in 1..n /\ k \in Nat
    BY <1>1
  <2> HIDE DEF n
  <2>3. CASE k < i
    <3>1. k \in 1..(i - 1)
      BY <2>2, <2>3
    <3> QED
      BY <1>2, <1>4, <2>3, <3>1 DEF n
  <2>4. CASE ~(k < i)
    <3>1. k - (i - 1) \in 1..(n - i) /\ i + (k - (i - 1)) = k + 1
      BY <2>2, <2>4
    <3>2. b[k - (i - 1)] = q[k + 1]
      BY <1>3, <3>1 DEF n
    <3> QED
      BY <1>4, <2>4, <3>2 DEF n
  <2> QED
    BY <2>3, <2>4
<1> HIDE DEF a, b
<1>6. Once(rest)
  <2> SUFFICES ASSUME NEW k \in 1..(n - 1), NEW m \in 1..(n - 1), rest[k] = rest[m]
               PROVE  k = m
    BY <1>4 DEF Once
  <2> DEFINE kk == IF k < i THEN k ELSE k + 1
             mm == IF m < i THEN m ELSE m + 1
  <2>1. kk \in 1..n /\ mm \in 1..n /\ (kk = mm => k = m)
    BY <1>1
  <2>2. q[kk] = q[mm]
    BY <1>5
  <2> QED
    BY <2>1, <2>2 DEF Once
<1>7. ASSUME NEW x \in Elements(rest) PROVE x \in Elements(q) \ {q[i]}
  <2>1. PICK k \in 1..(n - 1) : x = rest[k]
    BY <1>4 DEF Elements
  <2> DEFINE kk == IF k < i THEN k ELSE k + 1
  <2>2. kk \in 1..n /\ kk # i
    BY <1>1
  <2>3. x = q[kk]
    BY <1>5, <2>1
  <2> QED
    BY <2>2, <2>3 DEF Elements, Once
<1>8. ASSUME NEW x \in Elements(q) \ {q[i]} PROVE x \in Elements(rest)
  <2>1. PICK k \in 1..Len(q) : x = q[k] /\ k # i
    BY DEF Elements
  <2>2. CASE k < i
    <3>1. k \in 1..(n - 1)
      BY <1>1, <2>2
    <3>2. k \in 1..Len(rest) /\ rest[k] = x
      BY <1>4, <1>5, <2>1, <2>2, <3>1
    <3> QED
      BY <3>2 DEF Elements
  <2>3. CASE ~(k < i)
    <3>1. k - 1 \in 1..(n - 1) /\ ~(k - 1 < i) /\ (k - 1) + 1 = k
      BY <1>1, <2>1, <2>3
    <3>2. k - 1 \in 1..Len(rest) /\ rest[k - 1] = x
      BY <1>4, <1>5, <2>1, <3>1
    <3> QED
      BY <3>2 DEF Elements
  <2> QED
    BY <2>2, <2>3
<1> QED
  BY <1>4, <1>6, <1>7, <1>8

\* The newest of a sequence are a sequence's end.
LEMMA NewestIsEnd ==
  ASSUME NEW S, NEW q \in Seq(S), NEW n \in Nat
  PROVE  /\ Newest(q, n) \in Seq(S) /\ Len(Newest(q, n)) <= n
         /\ \E d \in Nat : /\ Len(q) = Len(Newest(q, n)) + d
                           /\ d > 0 => Len(Newest(q, n)) = n
                           /\ \A i \in 1..Len(Newest(q, n)) : Newest(q, n)[i] = q[i + d]
<1>1. Len(q) \in Nat /\ \A k \in 1..Len(q) : q[k] \in S
  BY LenProperties, ElementOfSeq
<1>2. CASE Len(q) <= n
  <2>1. Newest(q, n) = q
    BY <1>2 DEF Newest
  <2> QED
    BY <1>1, <1>2, <2>1
<1>3. CASE ~(Len(q) <= n)
  <2> DEFINE d == Len(q) - n
             r == SubSeq(q, d + 1, d + n)
  <2>1. Newest(q, n) = r
    BY <1>1, <1>3 DEF Newest
  <2>2. d \in Nat /\ Len(q) = n + d /\ \A k \in (d + 1)..(d + n) : q[k] \in S
    BY <1>1, <1>3
  <2> HIDE DEF d
  <2>3. r \in Seq(S) /\ Len(r) = n /\ \A i \in 1..n : r[i] = q[d + i]
    BY <2>2, SubSeqProperties
  <2> HIDE DEF r
  <2>4. \A i \in 1..n : i + d = d + i
    BY <2>2
  <2> QED
    BY <2>1, <2>2, <2>3, <2>4
<1> QED
  BY <1>2, <1>3

-----------------------------------------------------------------------------
(* Types. *)

Outputs == Kinds \X Nat
Events  == Outputs \cup {Sentinel}

WorkerTyped ==
    /\ row \in [Runs -> {"none", "active", "over", "deleted"}]
    /\ outcome \in [Runs -> {"none", "success", "failed", "fault"}]
    /\ at \in [Runs -> Ats]
    /\ sent \in [Runs -> [Kinds -> Nat]]
    /\ event \in [Runs -> Events]
    /\ targets \in [Runs -> Seq(Subscribers)]
    /\ finishes \in [Runs -> 0..2]
    /\ lost \subseteq Subscribers

BrokerTyped ==
    /\ subscribers \in Seq(Subscribers)
    /\ backlog \in Seq(Outputs) /\ Len(backlog) <= BacklogLimit
    /\ latest \in Seq(Outputs) /\ Len(latest) <= 1
    /\ finished \in BOOLEAN

WatcherTyped ==
    /\ state \in [Subscribers -> States]
    /\ of \in [Subscribers -> Runs \cup {0}]
    /\ replay \in [Subscribers -> Seq(Outputs)]
    /\ got \in [Subscribers -> Seq(Outputs)]

ChanTyped ==
    /\ chan \in [Subscribers -> Seq(Events)]
    /\ \A s \in Subscribers : Len(chan[s]) <= QueueSize

\* Between the two sections of publish somebody is still to get the event, and
\* finish is called a second time only where the first call was run_now's.
Stages ==
    \A g \in Runs :
        /\ at[g] \in {"full", "evicted"} => targets[g] # <<>>
        /\ at[g] \notin {"leaving", "ending", "gone"} => finishes[g] = 0
        /\ at[g] = "leaving" => finishes[g] \in 0..1

\* The list has the channel of every watcher that reads, once.
Listed ==
    /\ Once(subscribers)
    /\ \A s \in Subscribers : s \in Elements(subscribers) <=> state[s] = "reading"

Typed == WorkerTyped /\ BrokerTyped /\ WatcherTyped /\ ChanTyped /\ Stages /\ Listed

LEMMA TypedInit == Init => Typed
<1> SUFFICES ASSUME Init PROVE Typed
  OBVIOUS
<1>1. \A S : <<>> \in Seq(S) /\ Len(<<>>) = 0
  BY EmptySeq
<1>2. Elements(<<>>) = {} /\ Once(<<>>)
  BY <1>1 DEF Elements, Once
<1>3. Sentinel \in Events
  BY DEF Events
<1>4. WorkerTyped
  BY <1>1, <1>3 DEF Init, WorkerTyped, Ats
<1>5. BrokerTyped
  <2>1. Len(<<>>) = 0 /\ <<>> \in Seq(Subscribers) /\ <<>> \in Seq(Outputs)
    BY <1>1
  <2>2. Len(backlog) <= BacklogLimit /\ Len(latest) <= 1
    <3>1. Len(backlog) = 0 /\ Len(latest) = 0
      BY <2>1 DEF Init
    <3> QED
      BY <3>1, BrokerAssumption
  <2>3. subscribers \in Seq(Subscribers) /\ backlog \in Seq(Outputs) /\ latest \in Seq(Outputs)
    BY <2>1 DEF Init
  <2>4. finished \in BOOLEAN
    BY DEF Init
  <2> QED
    BY <2>2, <2>3, <2>4 DEF BrokerTyped
<1>6. WatcherTyped
  BY <1>1 DEF Init, WatcherTyped, States
<1>7. ChanTyped
  BY <1>1, BrokerAssumption DEF Init, ChanTyped
<1>8. Stages
  BY DEF Init, Stages
<1>9. Listed
  BY <1>2 DEF Init, Listed
<1> QED
  BY <1>4, <1>5, <1>6, <1>7, <1>8, <1>9 DEF Typed

LEMMA OutputParts ==
  ASSUME NEW e \in Events
  PROVE  /\ e = Sentinel \/ (e \in Outputs /\ e[1] \in Kinds /\ e[2] \in Nat /\ e = <<e[1], e[2]>>)
         /\ e[1] \in Kinds => e # Sentinel
  BY DEF Events, Outputs, Kinds, Sentinel

\* put_nowait into a channel that has room.
LEMMA Delivered ==
  ASSUME ChanTyped, NEW s \in Subscribers, NEW e \in Events, HasRoom(s), Deliver(s, e)
  PROVE  ChanTyped'
<1>1. Append(chan[s], e) \in Seq(Events) /\ Len(Append(chan[s], e)) = Len(chan[s]) + 1
  BY AppendProperties DEF ChanTyped
<1>2. Len(chan[s]) \in Nat /\ Len(chan[s]) < QueueSize
  BY LenProperties DEF ChanTyped, HasRoom
<1> HIDE DEF HasRoom
<1> QED
  BY <1>1, <1>2, BrokerAssumption DEF ChanTyped, Deliver

\* get_nowait, by the worker or by the watcher.
LEMMA Dropped ==
  ASSUME ChanTyped, NEW s \in Subscribers, chan[s] # <<>>, chan' = [chan EXCEPT ![s] = Tail(@)]
  PROVE  ChanTyped' /\ Head(chan[s]) \in Events
<1>1. /\ Tail(chan[s]) \in Seq(Events) /\ Len(Tail(chan[s])) = Len(chan[s]) - 1
      /\ Head(chan[s]) \in Events
  BY HeadTailProperties DEF ChanTyped
<1>2. Len(chan[s]) \in Nat
  BY LenProperties DEF ChanTyped
<1> QED
  BY <1>1, <1>2, BrokerAssumption DEF ChanTyped

\* The loop goes on to the next channel.
LEMMA Advanced ==
  ASSUME WorkerTyped, NEW g \in Runs, targets[g] # <<>>
  PROVE  /\ Head(targets[g]) \in Subscribers
         /\ NextTarget(g) => targets' \in [Runs -> Seq(Subscribers)]
<1>1. targets[g] \in Seq(Subscribers)
  BY DEF WorkerTyped
<1>2. Head(targets[g]) \in Subscribers /\ Tail(targets[g]) \in Seq(Subscribers)
  BY <1>1, HeadTailProperties
<1> QED
  BY <1>2 DEF WorkerTyped, NextTarget

\* An event is recorded in the backlog, or as the latest figure.
LEMMA Recorded ==
  ASSUME WorkerTyped, BrokerTyped, NEW g \in Runs, NEW k \in Kinds, Publish(g, k)
  PROVE  /\ sent' = [sent EXCEPT ![g][k] = sent[g][k] + 1]
         /\ event' = [event EXCEPT ![g] = <<k, sent[g][k] + 1>>]
         /\ targets' = [targets EXCEPT ![g] = subscribers]
         /\ at' = [at EXCEPT ![g] = "putting"]
         /\ <<k, sent[g][k] + 1>> \in Outputs
         /\ sent' \in [Runs -> [Kinds -> Nat]]
         /\ event' \in [Runs -> Events]
         /\ targets' \in [Runs -> Seq(Subscribers)]
         /\ BrokerTyped'
<1> DEFINE e == <<k, sent[g][k] + 1>>
<1>1. sent[g] \in [Kinds -> Nat] /\ sent[g][k] \in Nat
  BY DEF WorkerTyped
<1>2. e \in Outputs
  BY <1>1 DEF Outputs
<1>3. /\ sent' = [sent EXCEPT ![g][k] = sent[g][k] + 1]
      /\ event' = [event EXCEPT ![g] = e] /\ targets' = [targets EXCEPT ![g] = subscribers]
      /\ latest' = IF k = "stats" THEN <<e>> ELSE latest
      /\ backlog' = IF k = "log" THEN Newest(Append(backlog, e), BacklogLimit) ELSE backlog
      /\ at' = [at EXCEPT ![g] = "putting"]
      /\ subscribers' = subscribers /\ finished' = finished
  BY DEF Publish, Hand, Goto
<1> HIDE DEF e
<1>4. Append(backlog, e) \in Seq(Outputs) /\ <<e>> \in Seq(Outputs) /\ Len(<<e>>) = 1
  BY <1>2, AppendProperties DEF BrokerTyped
<1>5. /\ Newest(Append(backlog, e), BacklogLimit) \in Seq(Outputs)
      /\ Len(Newest(Append(backlog, e), BacklogLimit)) <= BacklogLimit
  BY <1>4, NewestIsEnd, BrokerAssumption
<1>6. BrokerTyped'
  BY <1>3, <1>4, <1>5 DEF BrokerTyped
<1>7. sent' \in [Runs -> [Kinds -> Nat]]
  BY <1>1, <1>3 DEF WorkerTyped
<1>8. event' \in [Runs -> Events] /\ targets' \in [Runs -> Seq(Subscribers)]
  BY <1>2, <1>3 DEF WorkerTyped, BrokerTyped, Events
<1> QED
  BY <1>2, <1>3, <1>6, <1>7, <1>8 DEF e

LEMMA WorkerStep1 ==
  ASSUME Typed, NEW g \in Runs,
         \/ Start(g) \/ CommitOutcome(g) \/ Fault(g) \/ Published(g) \/ DropRow(g)
         \/ FinishBegins(g) \/ PutSentinel(g) \/ FinishEnds(g)
  PROVE  WorkerTyped' /\ Stages'
<1> USE DEF Typed
<1>1. CASE Start(g)
  BY <1>1 DEF Start, WorkerTyped, Stages, Goto, Ats
<1>2. CASE CommitOutcome(g)
  <2>1. PICK o \in {"success", "failed"} : outcome' = [outcome EXCEPT ![g] = o]
    BY <1>2, BrokerAssumption DEF CommitOutcome
  <2> QED
    BY <1>2, <2>1 DEF CommitOutcome, WorkerTyped, Stages, Goto, Ats
<1>3. CASE Fault(g)
  BY <1>3 DEF Fault, WorkerTyped, Stages, Goto, Ats
<1>4. CASE Published(g)
  BY <1>4 DEF Published, WorkerTyped, Stages, Goto, Ats
<1>5. CASE DropRow(g)
  BY <1>5 DEF DropRow, WorkerTyped, Stages
<1>6. CASE FinishBegins(g)
  <2>1. finishes[g] \in 0..1 /\ finishes' = [finishes EXCEPT ![g] = finishes[g] + 1]
    BY <1>6 DEF FinishBegins, Stages
  <2>2. finishes' \in [Runs -> 0..2]
    BY <2>1 DEF WorkerTyped
  <2>3. /\ event' \in [Runs -> Events] /\ targets' \in [Runs -> Seq(Subscribers)]
        /\ at' = [at EXCEPT ![g] = "ending"] /\ at' \in [Runs -> Ats]
    BY <1>6 DEF FinishBegins, Hand, WorkerTyped, BrokerTyped, Events, Goto, Ats
  <2>4. WorkerTyped'
    BY <1>6, <2>2, <2>3 DEF FinishBegins, WorkerTyped
  <2>5. Stages'
    BY <1>6, <2>1, <2>3 DEF FinishBegins, Hand, WorkerTyped, Stages
  <2> QED
    BY <2>4, <2>5
<1>7. CASE PutSentinel(g)
  <2>1. targets' \in [Runs -> Seq(Subscribers)]
    BY <1>7, Advanced DEF PutSentinel
  <2> QED
    BY <1>7, <2>1 DEF PutSentinel, NextTarget, WorkerTyped, Stages
<1>8. CASE FinishEnds(g)
  BY <1>8 DEF FinishEnds, WorkerTyped, Stages, Goto, Ats
<1> QED
  BY <1>1, <1>2, <1>3, <1>4, <1>5, <1>6, <1>7, <1>8

LEMMA WorkerStep2 ==
  ASSUME Typed, NEW g \in Runs,
         \/ \E k \in Kinds : PublishOutput(g, k)
         \/ PublishOutcome(g) \/ Put(g) \/ Evict(g) \/ Retry(g)
  PROVE  WorkerTyped' /\ Stages'
<1> USE DEF Typed
<1>1. ASSUME NEW k \in Kinds, Publish(g, k), UNCHANGED <<row, outcome>>,
             at[g] \in {"busy", "committed"}
      PROVE  WorkerTyped' /\ Stages'
  BY <1>1, Recorded DEF Publish, WorkerTyped, Stages, Ats
<1>2. CASE \E k \in Kinds : PublishOutput(g, k)
  BY <1>1, <1>2 DEF PublishOutput
<1>3. CASE PublishOutcome(g)
  BY <1>1, <1>3 DEF PublishOutcome, Kinds
<1>4. CASE Put(g)
  <2>1. NextTarget(g) => targets' \in [Runs -> Seq(Subscribers)]
    BY <1>4, Advanced DEF Put
  <2>2. CASE NextTarget(g) /\ UNCHANGED at
    BY <1>4, <2>1, <2>2 DEF Put, NextTarget, WorkerTyped, Stages
  <2>3. CASE Goto(g, "full") /\ UNCHANGED targets
    BY <1>4, <2>3 DEF Put, Goto, WorkerTyped, Stages, Ats
  <2> QED
    BY <1>4, <2>2, <2>3 DEF Put
<1>5. CASE Evict(g)
  <2>1. targets[g] # <<>> /\ at[g] = "full" /\ finishes[g] = 0
    BY <1>5 DEF Evict, Stages
  <2>2. /\ Head(targets[g]) \in Subscribers
        /\ NextTarget(g) => targets' \in [Runs -> Seq(Subscribers)]
    BY <2>1, Advanced
  <2>3. lost' \subseteq Subscribers /\ UNCHANGED <<row, outcome, sent, event, finishes>>
    BY <1>5, <2>2 DEF Evict, WorkerTyped
  <2>4. CASE Goto(g, "evicted") /\ UNCHANGED targets
    BY <2>1, <2>3, <2>4 DEF Goto, WorkerTyped, Stages, Ats
  <2>5. CASE Goto(g, "putting") /\ NextTarget(g)
    BY <2>1, <2>2, <2>3, <2>5 DEF Goto, NextTarget, WorkerTyped, Stages, Ats
  <2> QED
    BY <1>5, <2>4, <2>5 DEF Evict
<1>6. CASE Retry(g)
  <2>1. targets[g] # <<>> /\ at[g] = "evicted" /\ finishes[g] = 0
    BY <1>6 DEF Retry, Stages
  <2>2. targets' \in [Runs -> Seq(Subscribers)]
    BY <1>6, <2>1, Advanced DEF Retry
  <2> QED
    BY <1>6, <2>1, <2>2 DEF Retry, Goto, NextTarget, WorkerTyped, Stages, Ats
<1> QED
  BY <1>2, <1>3, <1>4, <1>5, <1>6

LEMMA ChannelStep ==
  ASSUME Typed, NEW g \in Runs, Put(g) \/ Evict(g) \/ Retry(g) \/ PutSentinel(g)
  PROVE  ChanTyped'
<1> USE DEF Typed
<1> DEFINE s == Head(targets[g])
<1>1. targets[g] # <<>> /\ s \in Subscribers
  <2>1. targets[g] # <<>>
    BY DEF Put, Evict, Retry, PutSentinel, Stages
  <2> QED
    BY <2>1, Advanced
<1>2. event[g] \in Events /\ Sentinel \in Events
  BY DEF WorkerTyped, Events
<1>3. UNCHANGED chan => ChanTyped'
  BY DEF ChanTyped
<1> HIDE DEF s
<1>4. CASE Put(g)
  <2>1. UNCHANGED chan \/ (HasRoom(s) /\ Deliver(s, event[g]))
    BY <1>4 DEF Put, s
  <2> QED
    BY <1>1, <1>2, <1>3, <2>1, Delivered
<1>5. CASE Evict(g)
  <2>1. UNCHANGED chan \/ (chan[s] # <<>> /\ chan' = [chan EXCEPT ![s] = Tail(@)])
    BY <1>5 DEF Evict, s
  <2> QED
    BY <1>1, <1>3, <2>1, Dropped
<1>6. CASE Retry(g)
  <2>1. UNCHANGED chan \/ (HasRoom(s) /\ Deliver(s, event[g]))
    BY <1>6 DEF Retry, s
  <2> QED
    BY <1>1, <1>2, <1>3, <2>1, Delivered
<1>7. CASE PutSentinel(g)
  <2>1. UNCHANGED chan \/ (HasRoom(s) /\ Deliver(s, Sentinel))
    BY <1>7 DEF PutSentinel, s
  <2> QED
    BY <1>1, <1>2, <1>3, <2>1, Delivered
<1> QED
  BY <1>4, <1>5, <1>6, <1>7

\* What is handed out of a replay or a channel is received.
LEMMA Received ==
  ASSUME WatcherTyped, NEW s \in Subscribers, NEW e \in Outputs, Yield(s, e)
  PROVE  got' \in [Subscribers -> Seq(Outputs)]
<1>1. Append(got[s], e) \in Seq(Outputs)
  BY AppendProperties DEF WatcherTyped
<1> QED
  BY <1>1 DEF WatcherTyped, Yield

\* A watcher that is taken off the list is the only one that is.
LEMMA TakenOff ==
  ASSUME Typed, NEW s \in Subscribers, Unsubscribe(s)
  PROVE  /\ subscribers' \in Seq(Subscribers) /\ Once(subscribers')
         /\ Elements(subscribers') = Elements(subscribers) \ {s}
<1>1. subscribers \in Seq(Subscribers) /\ Once(subscribers)
  BY DEF Typed, BrokerTyped, Listed
<1>2. CASE s \notin Elements(subscribers) /\ UNCHANGED subscribers
  BY <1>1, <1>2
<1>3. ASSUME NEW i \in 1..Len(subscribers), subscribers[i] = s,
             subscribers' = SubSeq(subscribers, 1, i - 1)
                            \o SubSeq(subscribers, i + 1, Len(subscribers))
      PROVE  /\ subscribers' \in Seq(Subscribers) /\ Once(subscribers')
             /\ Elements(subscribers') = Elements(subscribers) \ {s}
  BY <1>1, <1>3, TakenOut
<1> QED
  BY <1>2, <1>3 DEF Unsubscribe

LEMMA WatcherStepTyped ==
  ASSUME Typed, NEW s \in Subscribers,
         \/ \E g \in Runs : Ask(s, g)
         \/ WatcherStep(s) \/ Leave(s)
  PROVE  WatcherTyped' /\ ChanTyped' /\ BrokerTyped' /\ Listed'
<1> USE DEF Typed
<1>1. CASE \E g \in Runs : Ask(s, g)
  <2>1. state[s] = "away" /\ state'[s] \in {"asked", "parting"}
    BY <1>1 DEF Ask, WatcherTyped
  <2>2. WatcherTyped'
    BY <1>1 DEF Ask, WatcherTyped, States, BrokerTyped
  <2>3. Listed'
    BY <1>1, <2>1 DEF Ask, WatcherTyped, Listed, brokerVars
  <2> QED
    BY <1>1, <2>2, <2>3 DEF Ask, brokerVars, ChanTyped, BrokerTyped
<1>2. CASE Subscribe(s)
  <2>1. backlog \o latest \in Seq(Outputs)
    BY ConcatProperties DEF BrokerTyped
  <2>2. state[s] = "asked" /\ s \notin Elements(subscribers)
    BY <1>2 DEF Subscribe, Listed
  <2>3. CASE /\ state' = [state EXCEPT ![s] = "parting"]
             /\ replay' = [replay EXCEPT ![s] = backlog]
             /\ UNCHANGED subscribers
    BY <1>2, <2>2, <2>3 DEF Subscribe, WatcherTyped, States, BrokerTyped, ChanTyped, Listed
  <2>4. CASE /\ state' = [state EXCEPT ![s] = "reading"]
             /\ replay' = [replay EXCEPT ![s] = backlog \o latest]
             /\ subscribers' = Append(subscribers, s)
    <3>1. /\ subscribers' \in Seq(Subscribers) /\ Once(subscribers')
          /\ Elements(subscribers') = Elements(subscribers) \cup {s}
      BY <2>2, <2>4, AppendProperties, ElementsAppend, OnceAppend DEF BrokerTyped, Listed
    <3>2. WatcherTyped'
      BY <1>2, <2>1, <2>4 DEF Subscribe, WatcherTyped, States
    <3>3. Listed'
      BY <2>4, <3>1 DEF WatcherTyped, Listed
    <3> QED
      BY <1>2, <3>1, <3>2, <3>3 DEF Subscribe, BrokerTyped, ChanTyped
  <2> QED
    BY <1>2, <2>3, <2>4 DEF Subscribe
<1>3. CASE Replay(s)
  <2>1. Head(replay[s]) \in Outputs /\ Tail(replay[s]) \in Seq(Outputs)
    BY <1>3, HeadTailProperties DEF Replay, WatcherTyped
  <2>2. got' \in [Subscribers -> Seq(Outputs)]
    BY <1>3, <2>1, Received DEF Replay
  <2> QED
    BY <1>3, <2>1, <2>2 DEF Replay, WatcherTyped, brokerVars, BrokerTyped, ChanTyped, Listed
<1>4. CASE PartingEnds(s)
  BY <1>4 DEF PartingEnds, WatcherTyped, States, brokerVars, BrokerTyped, ChanTyped, Listed
<1>5. CASE Get(s)
  <2>1. ChanTyped' /\ Head(chan[s]) \in Events
    BY <1>5, Dropped DEF Get
  <2>2. CASE /\ Head(chan[s]) # Sentinel /\ Yield(s, Head(chan[s]))
             /\ UNCHANGED <<state, subscribers>>
    <3>1. got' \in [Subscribers -> Seq(Outputs)]
      BY <2>1, <2>2, Received, OutputParts
    <3> QED
      BY <1>5, <2>1, <2>2, <3>1 DEF Get, WatcherTyped, BrokerTyped, Listed
  <2>3. CASE /\ state' = [state EXCEPT ![s] = "ended"]
             /\ Unsubscribe(s) /\ UNCHANGED got
    BY <1>5, <2>1, <2>3, TakenOff DEF Get, WatcherTyped, States, BrokerTyped, Listed
  <2> QED
    BY <1>5, <2>2, <2>3 DEF Get
<1>6. CASE Leave(s)
  BY <1>6, TakenOff DEF Leave, WatcherTyped, States, BrokerTyped, ChanTyped, Listed
<1> QED
  BY <1>1, <1>2, <1>3, <1>4, <1>5, <1>6 DEF WatcherStep

LEMMA TypedStep == Typed /\ [Next]_vars => Typed'
<1> SUFFICES ASSUME Typed, [Next]_vars PROVE Typed'
  OBVIOUS
<1>1. ASSUME NEW s \in Subscribers,
             (\E g \in Runs : Ask(s, g)) \/ WatcherStep(s) \/ Leave(s)
      PROVE  Typed'
  <2>1. UNCHANGED workerVars /\ UNCHANGED lost
    BY <1>1 DEF Ask, WatcherStep, Subscribe, Replay, PartingEnds, Get, Leave
  <2>2. WorkerTyped' /\ Stages'
    BY <2>1 DEF Typed, workerVars, WorkerTyped, Stages
  <2> QED
    BY <1>1, <2>2, WatcherStepTyped DEF Typed
<1>2. ASSUME NEW g \in Runs, \/ Put(g) \/ Evict(g) \/ Retry(g) \/ PutSentinel(g)
      PROVE  Typed'
  <2>1. UNCHANGED brokerVars /\ UNCHANGED watcherVars
    BY <1>2 DEF Put, Evict, Retry, PutSentinel
  <2>2. BrokerTyped' /\ WatcherTyped' /\ Listed'
    BY <2>1 DEF Typed, brokerVars, watcherVars, BrokerTyped, WatcherTyped, Listed
  <2> QED
    BY <1>2, <2>2, ChannelStep, WorkerStep1, WorkerStep2 DEF Typed
<1>3. ASSUME NEW g \in Runs, (\E k \in Kinds : PublishOutput(g, k)) \/ PublishOutcome(g)
      PROVE  Typed'
  <2>1. PICK k \in Kinds : Publish(g, k)
    BY <1>3 DEF PublishOutput, PublishOutcome, Kinds
  <2>2. UNCHANGED subscribers /\ UNCHANGED watcherVars /\ UNCHANGED chan
    BY <2>1 DEF Publish
  <2>3. WatcherTyped' /\ ChanTyped' /\ Listed'
    BY <2>2 DEF Typed, watcherVars, WatcherTyped, ChanTyped, Listed
  <2>4. BrokerTyped'
    BY <2>1, Recorded DEF Typed
  <2> QED
    BY <1>3, <2>3, <2>4, WorkerStep2 DEF Typed
<1>4. ASSUME NEW g \in Runs,
             Start(g) \/ CommitOutcome(g) \/ Fault(g) \/ DropRow(g) \/ Published(g)
             \/ FinishBegins(g) \/ FinishEnds(g)
      PROVE  Typed'
  <2>1. UNCHANGED subscribers /\ UNCHANGED watcherVars /\ UNCHANGED chan
    BY <1>4 DEF Start, CommitOutcome, Fault, DropRow, Published, FinishBegins, FinishEnds, brokerVars
  <2>2. WatcherTyped' /\ ChanTyped' /\ Listed'
    BY <2>1 DEF Typed, watcherVars, WatcherTyped, ChanTyped, Listed
  <2>3. \/ UNCHANGED brokerVars
        \/ backlog' = <<>> /\ latest' = <<>> /\ finished' = TRUE /\ UNCHANGED subscribers
    BY <1>4 DEF Start, CommitOutcome, Fault, DropRow, Published, FinishBegins, FinishEnds
  <2>4. BrokerTyped'
    <3>1. CASE UNCHANGED brokerVars
      BY <3>1 DEF Typed, brokerVars, BrokerTyped
    <3>2. CASE backlog' = <<>> /\ latest' = <<>> /\ finished' = TRUE /\ UNCHANGED subscribers
      <4>1. backlog' \in Seq(Outputs) /\ latest' \in Seq(Outputs)
            /\ Len(backlog') = 0 /\ Len(latest') = 0
        BY <3>2, EmptySeq
      <4>2. Len(backlog') <= BacklogLimit /\ Len(latest') <= 1
        BY <4>1, BrokerAssumption
      <4> QED
        BY <3>2, <4>1, <4>2 DEF Typed, BrokerTyped
    <3> QED
      BY <2>3, <3>1, <3>2
  <2> QED
    BY <1>4, <2>2, <2>4, WorkerStep1 DEF Typed
<1>5. CASE UNCHANGED vars
  BY <1>5 DEF vars, workerVars, brokerVars, watcherVars, Typed, WorkerTyped, BrokerTyped,
       WatcherTyped, ChanTyped, Stages, Listed
<1> QED
  BY <1>1, <1>2, <1>3, <1>4, <1>5 DEF Next, WorkerStep

\* Every variable keeps its type; the backlog and the queues keep their limits,
\* and the broker's list has exactly the watchers that read, whoever comes, is
\* ended or leaves while the worker is between two puts.
THEOREM TypeCorrect == Spec => []TypeOK
<1>1. Typed => TypeOK
  <2> SUFFICES ASSUME Typed PROVE TypeOK
    OBVIOUS
  <2>1. ASSUME NEW g \in Runs PROVE Elements(targets[g]) \subseteq Subscribers
    BY ElementOfSeq DEF Typed, WorkerTyped, Elements
  <2> QED
    BY <2>1 DEF Typed, WorkerTyped, BrokerTyped, WatcherTyped, ChanTyped, Listed, TypeOK
<1> QED
  BY <1>1, TypedInit, TypedStep, PTL DEF Spec

-----------------------------------------------------------------------------
(* Order: what a watcher has, is about to replay and has in its channel. *)

\* Of one kind, the earlier event has the lower number.
Before(e, f) == e[1] = f[1] /\ e[1] \in Kinds => e[2] < f[2]

Ordered(q) == \A i, j \in 1..Len(q) : i < j => Before(q[i], q[j])

Earlier(p, q) == \A e \in Elements(p), f \in Elements(q) : Before(e, f)

Stream(g, r, c) ==
    /\ Ordered(g) /\ Ordered(r) /\ Ordered(c)
    /\ Earlier(g, r) /\ Earlier(g, c) /\ Earlier(r, c)

InAll(g, r, c) == Elements(g) \cup Elements(r) \cup Elements(c)

LEMMA EmptyStream == Elements(<<>>) = {} /\ Ordered(<<>>) /\ Once(<<>>)
<1>1. Len(<<>>) = 0
  BY EmptySeq
<1> QED
  BY <1>1 DEF Elements, Ordered, Once

LEMMA OrderedAppend ==
  ASSUME NEW S, NEW q \in Seq(S), NEW e \in S, Ordered(q), \A x \in Elements(q) : Before(x, e)
  PROVE  Ordered(Append(q, e))
<1> DEFINE a == Append(q, e)
           n == Len(q)
<1>1. /\ n \in Nat /\ Len(a) = n + 1
      /\ \A i \in 1..n : a[i] = q[i] /\ q[i] \in Elements(q)
      /\ a[n + 1] = e
  BY AppendProperties, LenProperties DEF Elements
<1> HIDE DEF a
<1> SUFFICES ASSUME NEW i \in 1..Len(a), NEW j \in 1..Len(a), i < j PROVE Before(a[i], a[j])
  BY DEF Ordered, a
<1>2. CASE j \in 1..n
  <2>1. i \in 1..n /\ Before(q[i], q[j])
    BY <1>1, <1>2 DEF Ordered
  <2> QED
    BY <1>1, <1>2, <2>1
<1>3. CASE j = n + 1
  <2>1. i \in 1..n
    BY <1>1, <1>3
  <2> QED
    BY <1>1, <1>3, <2>1
<1> QED
  BY <1>1, <1>2, <1>3

LEMMA OrderedTail ==
  ASSUME NEW S, NEW q \in Seq(S), q # <<>>, Ordered(q)
  PROVE  Ordered(Tail(q)) /\ \A x \in Elements(Tail(q)) : Before(Head(q), x)
<1> DEFINE t == Tail(q)
<1>1. /\ Len(q) \in Nat \ {0} /\ Len(t) = Len(q) - 1 /\ Head(q) = q[1]
      /\ \A i \in 1..Len(t) : t[i] = q[i + 1]
  BY HeadTailProperties, EmptySeq
<1> HIDE DEF t
<1>2. ASSUME NEW i \in 1..Len(t), NEW j \in 1..Len(t), i < j PROVE Before(t[i], t[j])
  <2>1. i + 1 \in 1..Len(q) /\ j + 1 \in 1..Len(q) /\ i + 1 < j + 1
    BY <1>1, <1>2
  <2> QED
    BY <1>1, <2>1 DEF Ordered
<1>3. ASSUME NEW i \in 1..Len(t) PROVE Before(Head(q), t[i])
  <2>1. 1 \in 1..Len(q) /\ i + 1 \in 1..Len(q) /\ 1 < i + 1
    BY <1>1
  <2> QED
    BY <1>1, <2>1 DEF Ordered
<1> QED
  BY <1>2, <1>3 DEF Ordered, Elements, t

\* The watcher takes the first event of its replay.
LEMMA StreamReplay ==
  ASSUME NEW g \in Seq(Outputs), NEW r \in Seq(Outputs), NEW c \in Seq(Events),
         r # <<>>, Stream(g, r, c)
  PROVE  /\ Stream(Append(g, Head(r)), Tail(r), c)
         /\ InAll(Append(g, Head(r)), Tail(r), c) = InAll(g, r, c)
<1>1. Head(r) \in Outputs /\ Elements(r) = {Head(r)} \cup Elements(Tail(r))
  BY HeadTailProperties, ElementsTail
<1>2. Elements(Append(g, Head(r))) = Elements(g) \cup {Head(r)}
  BY <1>1, ElementsAppend
<1>3. Ordered(Tail(r)) /\ \A x \in Elements(Tail(r)) : Before(Head(r), x)
  BY OrderedTail DEF Stream
<1>4. Ordered(Append(g, Head(r)))
  BY <1>1, OrderedAppend DEF Stream, Earlier
<1> QED
  BY <1>1, <1>2, <1>3, <1>4 DEF Stream, Earlier, InAll

\* And then the first event of its channel.
LEMMA StreamGet ==
  ASSUME NEW g \in Seq(Outputs), NEW c \in Seq(Events),
         c # <<>>, Head(c) \in Outputs, Stream(g, <<>>, c)
  PROVE  /\ Stream(Append(g, Head(c)), <<>>, Tail(c))
         /\ InAll(Append(g, Head(c)), <<>>, Tail(c)) = InAll(g, <<>>, c)
<1>1. Elements(c) = {Head(c)} \cup Elements(Tail(c))
  BY ElementsTail
<1>2. Elements(Append(g, Head(c))) = Elements(g) \cup {Head(c)}
  BY ElementsAppend
<1>3. Ordered(Tail(c)) /\ \A x \in Elements(Tail(c)) : Before(Head(c), x)
  BY OrderedTail DEF Stream
<1>4. Ordered(Append(g, Head(c)))
  BY <1>1, OrderedAppend DEF Stream, Earlier
<1> QED
  BY <1>1, <1>2, <1>3, <1>4, EmptyStream DEF Stream, Earlier, InAll

\* The worker puts an event that is newer than all the watcher has of its kind.
LEMMA StreamPut ==
  ASSUME NEW g, NEW r, NEW c \in Seq(Events), NEW e \in Events,
         Stream(g, r, c), \A x \in InAll(g, r, c) : Before(x, e)
  PROVE  /\ Stream(g, r, Append(c, e))
         /\ InAll(g, r, Append(c, e)) = InAll(g, r, c) \cup {e}
<1>1. Elements(Append(c, e)) = Elements(c) \cup {e}
  BY ElementsAppend
<1>2. Ordered(Append(c, e))
  BY OrderedAppend DEF Stream, InAll
<1> QED
  BY <1>1, <1>2 DEF Stream, Earlier, InAll

\* The oldest event of a channel is dropped.
LEMMA StreamDrop ==
  ASSUME NEW g, NEW r, NEW c \in Seq(Events), c # <<>>, Stream(g, r, c)
  PROVE  /\ Stream(g, r, Tail(c))
         /\ InAll(g, r, Tail(c)) \subseteq InAll(g, r, c)
<1>1. Elements(c) = {Head(c)} \cup Elements(Tail(c))
  BY ElementsTail
<1>2. Ordered(Tail(c))
  BY OrderedTail DEF Stream
<1> QED
  BY <1>1, <1>2 DEF Stream, Earlier, InAll

-----------------------------------------------------------------------------
(* The invariant of one incarnation of the run id.                         *)

Delivering == at[1] \in {"putting", "full", "evicted"}

\* The worker has yet to put what it publishes into the watcher's channel.
Waiting(s) == Delivering /\ s \in Elements(targets[1])

\* What a watcher has received, is about to replay, or has in its channel.
All(s) == InAll(got[s], replay[s], chan[s])

Numbered(X) == \A x \in X \cap Outputs : x[2] \in 1..sent[1][x[1]]

\* Where the worker is tells whether the run has an outcome and what is handed out.
Phases ==
    /\ at[1] \in {"unborn", "busy"} => outcome[1] = "none"
    /\ at[1] \in {"committed", "leaving", "ending", "gone"} => outcome[1] # "none"
    /\ row[1] \in {"over", "deleted"} \/ finished => outcome[1] # "none"
    /\ Delivering => /\ event[1] \in Outputs
                     /\ event[1][2] = sent[1][event[1][1]] /\ event[1][2] # 0
    /\ Once(targets[1])
    /\ at[1] = "evicted" => Head(targets[1]) \in lost

\* The backlog has lines only, in order, and the latest figure is none of them.
Recent ==
    /\ Ordered(backlog) /\ Ordered(latest)
    /\ \A x \in Elements(backlog) : x[1] = "log"
    /\ \A x \in Elements(latest) : x[1] = "stats"
    /\ Numbered(Elements(backlog) \cup Elements(latest))

\* Everything on its way to a watcher is in order, and what the worker is still
\* to put into its channel is newer; an end is on its way only once there is one.
Watched(s) ==
    /\ Stream(got[s], replay[s], chan[s])
    /\ Numbered(All(s))
    /\ Waiting(s) => \A x \in All(s) : Before(x, event[1])
    /\ state[s] \in {"away", "asked"} =>
          /\ got[s] = <<>> /\ replay[s] = <<>> /\ chan[s] = <<>>
          /\ s \notin Elements(targets[1])
    /\ state[s] \in {"parting", "ended"} \/ Sentinel \in Elements(chan[s]) => outcome[1] # "none"

OrderInv == Typed /\ Phases /\ Recent /\ \A s \in Subscribers : Watched(s)

LEMMA OrderInit == ASSUME Incarnations = 1 PROVE Init => OrderInv
<1> SUFFICES ASSUME Init PROVE OrderInv
  OBVIOUS
<1> USE EmptyStream
<1>1. 1 \in Runs
  BY DEF Runs
<1>2. Phases
  BY <1>1 DEF Init, Phases, Delivering
<1>3. Recent
  BY DEF Init, Recent, Numbered
<1>4. ASSUME NEW s \in Subscribers PROVE Watched(s)
  <2>1. got[s] = <<>> /\ replay[s] = <<>> /\ chan[s] = <<>> /\ targets[1] = <<>> /\ state[s] = "away"
    BY <1>1 DEF Init
  <2> QED
    BY <2>1 DEF Watched, Stream, Earlier, All, InAll, Numbered
<1> QED
  BY TypedInit, <1>2, <1>3, <1>4 DEF OrderInv

\* The newest of what is in order are in order.
LEMMA NewestOrdered ==
  ASSUME NEW S, NEW q \in Seq(S), NEW n \in Nat, Ordered(q)
  PROVE  Ordered(Newest(q, n)) /\ Elements(Newest(q, n)) \subseteq Elements(q)
<1> DEFINE r == Newest(q, n)
<1>1. PICK d \in Nat : Len(q) = Len(r) + d /\ \A i \in 1..Len(r) : r[i] = q[i + d]
  BY NewestIsEnd
<1>2. Len(r) \in Nat /\ Len(q) \in Nat
  BY NewestIsEnd, LenProperties
<1> HIDE DEF r
<1>3. \A i \in 1..Len(r) : i + d \in 1..Len(q)
  BY <1>1, <1>2
<1>4. Elements(r) \subseteq Elements(q)
  BY <1>1, <1>3 DEF Elements
<1>5. ASSUME NEW i \in 1..Len(r), NEW j \in 1..Len(r), i < j PROVE Before(r[i], r[j])
  <2>1. i + d < j + d
    BY <1>2, <1>5
  <2> QED
    BY <1>1, <1>3, <2>1 DEF Ordered
<1> QED
  BY <1>4, <1>5 DEF Ordered, r

LEMMA PhasesStep ==
  ASSUME Incarnations = 1, OrderInv, [Next]_vars PROVE Phases'
<1> USE DEF OrderInv
<1>1. Runs = {1} /\ WorkerTyped /\ Stages
  BY DEF Runs, Typed
<1>2. ASSUME NEW s \in Subscribers, (\E g \in Runs : Ask(s, g)) \/ WatcherStep(s) \/ Leave(s)
      PROVE  Phases'
  <2>1. UNCHANGED <<row, outcome, at, sent, event, targets, lost, finished>>
    BY <1>2 DEF Ask, WatcherStep, Subscribe, Replay, PartingEnds, Get, Leave, workerVars, brokerVars
  <2> QED
    BY <2>1 DEF Phases, Delivering
<1>3. CASE Start(1)
  BY <1>1, <1>3 DEF Start, Goto, Phases, Delivering, brokerVars, WorkerTyped
<1>4. CASE CommitOutcome(1)
  BY <1>1, <1>4, BrokerAssumption DEF CommitOutcome, Goto, Phases, Delivering, brokerVars, WorkerTyped
<1>5. CASE Fault(1)
  BY <1>1, <1>5 DEF Fault, Goto, Phases, Delivering, brokerVars, WorkerTyped
<1>6. CASE Published(1)
  BY <1>1, <1>6 DEF Published, Goto, Phases, Delivering, brokerVars, WorkerTyped
<1>7. CASE DropRow(1)
  BY <1>1, <1>7 DEF DropRow, Phases, Delivering, brokerVars, WorkerTyped
<1>8. CASE FinishBegins(1)
  <2>1. Once(targets'[1]) /\ at'[1] = "ending"
    BY <1>1, <1>8 DEF FinishBegins, Hand, Goto, WorkerTyped, Typed, Listed
  <2> QED
    BY <1>1, <1>8, <2>1 DEF FinishBegins, Phases, Delivering, brokerVars
<1>9. CASE FinishEnds(1)
  <2>1. at'[1] \in {"leaving", "gone"}
    BY <1>1, <1>9 DEF FinishEnds, Goto, WorkerTyped
  <2> QED
    BY <1>1, <1>9, <2>1 DEF FinishEnds, Phases, Delivering
<1>10. CASE PutSentinel(1)
  <2>1. targets[1] \in Seq(Subscribers) /\ targets[1] # <<>> /\ targets'[1] = Tail(targets[1])
    BY <1>1, <1>10 DEF PutSentinel, NextTarget, WorkerTyped
  <2>2. Once(targets'[1])
    BY <2>1, ElementsTail DEF Phases
  <2> QED
    BY <1>1, <1>10, <2>2 DEF PutSentinel, Phases, Delivering, brokerVars
<1>11. ASSUME NEW k \in Kinds, Publish(1, k), UNCHANGED <<row, outcome>> PROVE Phases'
  <2>1. /\ targets'[1] = subscribers /\ at'[1] = "putting"
        /\ event'[1] = <<k, sent[1][k] + 1>> /\ event'[1] \in Outputs
        /\ sent'[1][k] = sent[1][k] + 1 /\ sent[1][k] \in Nat
    <3>1. /\ sent' = [sent EXCEPT ![1][k] = sent[1][k] + 1]
          /\ event' = [event EXCEPT ![1] = <<k, sent[1][k] + 1>>]
          /\ targets' = [targets EXCEPT ![1] = subscribers]
          /\ at' = [at EXCEPT ![1] = "putting"]
          /\ <<k, sent[1][k] + 1>> \in Outputs
      BY <1>1, <1>11, Recorded DEF Typed
    <3>2. sent[1] \in [Kinds -> Nat]
      BY <1>1 DEF WorkerTyped
    <3> QED
      BY <1>1, <3>1, <3>2 DEF WorkerTyped
  <2>2. /\ event'[1][1] = k /\ event'[1][2] = sent[1][k] + 1
        /\ event'[1][2] = sent'[1][event'[1][1]] /\ event'[1][2] # 0
    BY <2>1
  <2> QED
    BY <1>11, <2>1, <2>2 DEF Publish, Phases, Typed, Listed
<1>12. CASE PublishOutcome(1) \/ \E k \in Kinds : PublishOutput(1, k)
  BY <1>11, <1>12 DEF PublishOutcome, PublishOutput, Kinds
<1>13. CASE Put(1)
  <2>1. targets[1] \in Seq(Subscribers) /\ targets[1] # <<>> /\ at[1] = "putting"
    BY <1>1, <1>13 DEF Put, WorkerTyped
  <2>2. UNCHANGED <<row, outcome, sent, event, finished, lost>> /\ at'[1] \in {"putting", "full"}
    BY <1>1, <1>13, <2>1 DEF Put, Goto, brokerVars, WorkerTyped
  <2>3. targets'[1] = targets[1] \/ targets'[1] = Tail(targets[1])
    BY <1>1, <1>13 DEF Put, NextTarget, WorkerTyped
  <2>4. Once(targets'[1])
    BY <2>1, <2>3, ElementsTail DEF Phases
  <2> QED
    BY <2>1, <2>2, <2>4 DEF Phases, Delivering
<1>14. CASE Evict(1)
  <2>1. targets[1] \in Seq(Subscribers) /\ targets[1] # <<>> /\ at[1] = "full"
    BY <1>1, <1>14 DEF Evict, WorkerTyped, Stages
  <2>2. UNCHANGED <<row, outcome, sent, event, finished>> /\ lost' = lost \cup {Head(targets[1])}
    BY <1>14 DEF Evict, brokerVars
  <2>3. \/ at'[1] = "evicted" /\ targets'[1] = targets[1]
        \/ at'[1] = "putting" /\ targets'[1] = Tail(targets[1])
    BY <1>1, <1>14 DEF Evict, NextTarget, Goto, WorkerTyped
  <2>4. Once(targets'[1])
    BY <2>1, <2>3, ElementsTail DEF Phases
  <2> QED
    BY <2>1, <2>2, <2>3, <2>4 DEF Phases, Delivering
<1>15. CASE Retry(1)
  <2>1. targets[1] \in Seq(Subscribers) /\ targets[1] # <<>> /\ at[1] = "evicted"
    BY <1>1, <1>15 DEF Retry, WorkerTyped, Stages
  <2>2. UNCHANGED <<row, outcome, sent, event, finished, lost>>
    BY <1>15 DEF Retry, brokerVars
  <2>3. at'[1] = "putting" /\ targets'[1] = Tail(targets[1])
    BY <1>1, <1>15 DEF Retry, NextTarget, Goto, WorkerTyped
  <2>4. Once(targets'[1])
    BY <2>1, <2>3, ElementsTail DEF Phases
  <2> QED
    BY <2>1, <2>2, <2>3, <2>4 DEF Phases, Delivering
<1>16. CASE UNCHANGED vars
  BY <1>16 DEF vars, workerVars, brokerVars, Phases, Delivering
<1> QED
  BY <1>1, <1>2, <1>3, <1>4, <1>5, <1>6, <1>7, <1>8, <1>9, <1>10, <1>12, <1>13, <1>14, <1>15,
     <1>16 DEF Next, WorkerStep

LEMMA RecentStep ==
  ASSUME Incarnations = 1, OrderInv, [Next]_vars PROVE Recent'
<1> USE DEF OrderInv
<1>1. Runs = {1} /\ WorkerTyped /\ BrokerTyped
  BY DEF Runs, Typed
<1>2. CASE UNCHANGED <<backlog, latest, sent>>
  BY <1>2 DEF Recent, Numbered
<1>3. CASE FinishEnds(1)
  BY <1>3, EmptyStream DEF FinishEnds, Recent, Numbered
<1>4. ASSUME NEW k \in Kinds, Publish(1, k) PROVE Recent'
  <2> DEFINE e == <<k, sent[1][k] + 1>>
             a == Append(backlog, e)
  <2>1. /\ e \in Outputs /\ sent[1][k] \in Nat /\ \A j \in Kinds : sent[1][j] \in Nat
        /\ sent'[1] = [sent[1] EXCEPT ![k] = sent[1][k] + 1] /\ sent[1] \in [Kinds -> Nat]
    BY <1>1, <1>4, Recorded DEF WorkerTyped
  <2>2. /\ latest' = IF k = "stats" THEN <<e>> ELSE latest
        /\ backlog' = IF k = "log" THEN Newest(a, BacklogLimit) ELSE backlog
    BY <1>4 DEF Publish
  <2>3. e[1] = k /\ e[2] = sent[1][k] + 1 /\ e[2] \in 1..sent'[1][k]
    BY <2>1
  <2>4. \A j \in Kinds : \A n \in 1..sent[1][j] : n \in 1..sent'[1][j] /\ (j = k => n < e[2])
    BY <2>1, <2>3
  <2> HIDE DEF e
  <2>5. \A x \in Outputs : x[1] \in Kinds
    BY DEF Outputs
  <2>6. Numbered(Elements(backlog) \cup Elements(latest))'
        <=> \A x \in (Elements(backlog') \cup Elements(latest')) \cap Outputs : x[2] \in 1..sent'[1][x[1]]
    BY DEF Numbered, Elements
  <2>7. \A x \in (Elements(backlog) \cup Elements(latest)) :
           x \in Outputs /\ x[2] \in 1..sent[1][x[1]] /\ x[2] \in 1..sent'[1][x[1]]
    <3>1. Elements(backlog) \cup Elements(latest) \subseteq Outputs
      BY <1>1, ElementOfSeq DEF BrokerTyped, Elements
    <3> QED
      BY <2>4, <2>5, <3>1 DEF Recent, Numbered
  <2>8. CASE k = "log"
    <3>1. latest' = latest /\ backlog' = Newest(a, BacklogLimit)
      BY <2>2, <2>8
    <3>2. /\ a \in Seq(Outputs) /\ Elements(a) = Elements(backlog) \cup {e}
      BY <1>1, <2>1, AppendProperties, ElementsAppend DEF BrokerTyped
    <3>3. \A x \in Elements(backlog) : Before(x, e)
      BY <2>3, <2>4, <2>5, <2>7 DEF Before
    <3>4. Ordered(a)
      BY <1>1, <2>1, <3>3, OrderedAppend DEF BrokerTyped, Recent
    <3> HIDE DEF a
    <3>5. Ordered(backlog') /\ Elements(backlog') \subseteq Elements(backlog) \cup {e}
      BY <3>1, <3>2, <3>4, NewestOrdered, BrokerAssumption
    <3> QED
      BY <2>3, <2>6, <2>7, <2>8, <3>1, <3>5 DEF Recent
  <2>9. CASE k = "stats"
    <3>1. latest' = <<e>> /\ backlog' = backlog
      BY <2>2, <2>9
    <3>2. Elements(<<e>>) = {e} /\ Ordered(<<e>>)
      BY DEF Elements, Ordered
    <3> QED
      BY <2>3, <2>6, <2>7, <2>9, <3>1, <3>2 DEF Recent
  <2> QED
    BY <2>8, <2>9 DEF Kinds
<1>5. CASE Next
  <2>1. ASSUME NEW s \in Subscribers, (\E g \in Runs : Ask(s, g)) \/ WatcherStep(s) \/ Leave(s)
        PROVE  UNCHANGED <<backlog, latest, sent>>
    BY <2>1 DEF Ask, WatcherStep, Subscribe, Replay, PartingEnds, Get, Leave, workerVars, brokerVars
  <2>2. CASE PublishOutcome(1) \/ \E k \in Kinds : PublishOutput(1, k)
    BY <1>4, <2>2 DEF PublishOutcome, PublishOutput, Kinds
  <2>3. CASE Start(1) \/ CommitOutcome(1) \/ Fault(1) \/ Published(1) \/ DropRow(1)
             \/ FinishBegins(1) \/ PutSentinel(1) \/ Put(1) \/ Evict(1) \/ Retry(1)
    BY <1>2, <2>3 DEF Start, CommitOutcome, Fault, Published, DropRow, FinishBegins, PutSentinel,
         Put, Evict, Retry, brokerVars
  <2> QED
    BY <1>1, <1>2, <1>3, <1>5, <2>1, <2>2, <2>3 DEF Next, WorkerStep
<1> QED
  BY <1>2, <1>5 DEF vars, workerVars, brokerVars

\* A step that leaves a watcher's events alone, and hands it nothing new.
SameEvents(t) == got'[t] = got[t] /\ replay'[t] = replay[t] /\ chan'[t] = chan[t]
OutcomeStays  == outcome[1] # "none" => outcome'[1] # "none"

LEMMA WatchedKept ==
  ASSUME NEW t \in Subscribers, Watched(t), SameEvents(t), state'[t] = state[t],
         sent' = sent, OutcomeStays,
         Waiting(t)' => Waiting(t) /\ event' = event,
         state[t] \in {"away", "asked"} => t \notin Elements(targets'[1])
  PROVE  Watched(t)'
<1>1. All(t)' = All(t) /\ Elements(chan'[t]) = Elements(chan[t])
  BY DEF All, InAll, SameEvents, Elements
<1>2. (t \in Elements(targets[1]))' <=> t \in Elements(targets'[1])
  BY DEF Elements
<1>3. Stream(got[t], replay[t], chan[t])'
  BY DEF Watched, SameEvents, Stream, Ordered, Earlier, Before, Elements
<1>4. Numbered(All(t))'
  BY <1>1 DEF Watched, Numbered
<1>5. Waiting(t)' => \A x \in All(t)' : Before(x, event'[1])
  BY <1>1 DEF Watched
<1> QED
  BY <1>1, <1>2, <1>3, <1>4, <1>5 DEF Watched, SameEvents, OutcomeStays, Before, Elements

\* The event is put into the channel of the watcher that waits for it.
LEMMA WatchedPut ==
  ASSUME NEW t \in Subscribers, Watched(t), Phases, Waiting(t), chan[t] \in Seq(Events),
         sent[1] \in [Kinds -> Nat],
         got'[t] = got[t], replay'[t] = replay[t], chan'[t] = Append(chan[t], event[1]),
         state'[t] = state[t], sent' = sent, OutcomeStays, ~Waiting(t)'
  PROVE  Watched(t)'
<1> DEFINE e == event[1]
<1>1. e \in Outputs /\ e \in Events /\ e[2] = sent[1][e[1]] /\ e[2] # 0 /\ e[1] \in Kinds
  BY DEF Phases, Waiting, Events, Outputs
<1>2. e # Sentinel
  BY <1>1 DEF Kinds, Sentinel
<1>3. e[2] \in 1..sent[1][e[1]]
  BY <1>1
<1>4. \A x \in All(t) : Before(x, e)
  BY DEF Watched
<1>5. state[t] \notin {"away", "asked"}
  BY DEF Watched, Waiting
<1> HIDE DEF e
<1>6. chan'[t] = Append(chan[t], e) /\ Elements(chan'[t]) = Elements(chan[t]) \cup {e}
  BY <1>1, ElementsAppend DEF e
<1>7. /\ Stream(got'[t], replay'[t], chan'[t])
      /\ InAll(got'[t], replay'[t], chan'[t]) = All(t) \cup {e}
  BY <1>1, <1>4, <1>6, StreamPut DEF Watched, All
<1>8. \A x \in (All(t) \cup {e}) \cap Outputs : x[2] \in 1..sent'[1][x[1]]
  BY <1>3 DEF Watched, Numbered
<1>9. Numbered(All(t))'
  BY <1>7, <1>8 DEF Numbered, All, InAll, Elements
<1>10. Stream(got[t], replay[t], chan[t])'
  BY <1>7 DEF Stream, Ordered, Earlier, Before, Elements
<1>11. Sentinel \in Elements(chan'[t]) => outcome'[1] # "none"
  BY <1>2, <1>6 DEF Watched, OutcomeStays
<1>12. state'[t] \in {"parting", "ended"} => outcome'[1] # "none"
  BY DEF Watched, OutcomeStays
<1> QED
  BY <1>5, <1>9, <1>10, <1>11, <1>12 DEF Watched, Elements

\* The sentinel is put; it is of neither kind.
LEMMA WatchedEnd ==
  ASSUME NEW t \in Subscribers, Watched(t), t \in Elements(targets[1]), chan[t] \in Seq(Events),
         got'[t] = got[t], replay'[t] = replay[t], chan'[t] = Append(chan[t], Sentinel),
         state'[t] = state[t], sent' = sent, outcome'[1] # "none", ~Delivering'
  PROVE  Watched(t)'
<1>1. Sentinel \in Events /\ Sentinel \notin Outputs /\ Sentinel[1] \notin Kinds
  BY DEF Events, Outputs, Kinds, Sentinel
<1>2. \A x \in All(t) : Before(x, Sentinel)
  BY <1>1 DEF Before
<1>3. state[t] \notin {"away", "asked"}
  BY DEF Watched
<1>4. /\ Stream(got'[t], replay'[t], chan'[t])
      /\ InAll(got'[t], replay'[t], chan'[t]) = All(t) \cup {Sentinel}
  BY <1>1, <1>2, StreamPut DEF Watched, All
<1>5. Numbered(All(t))'
  BY <1>1, <1>4 DEF Watched, Numbered, All, InAll, Elements
<1>6. Stream(got[t], replay[t], chan[t])'
  BY <1>4 DEF Stream, Ordered, Earlier, Before, Elements
<1> QED
  BY <1>3, <1>5, <1>6 DEF Watched, Waiting, Delivering

\* The oldest event of a full channel is dropped.
LEMMA WatchedDrop ==
  ASSUME NEW t \in Subscribers, Watched(t), chan[t] \in Seq(Events), chan[t] # <<>>,
         got'[t] = got[t], replay'[t] = replay[t], chan'[t] = Tail(chan[t]),
         state'[t] = state[t], sent' = sent, OutcomeStays,
         Waiting(t)' => Waiting(t) /\ event' = event
  PROVE  Watched(t)'
<1>1. /\ Stream(got'[t], replay'[t], chan'[t])
      /\ InAll(got'[t], replay'[t], chan'[t]) \subseteq All(t)
  BY StreamDrop DEF Watched, All
<1>2. Elements(chan'[t]) \subseteq Elements(chan[t])
  BY ElementsTail
<1>3. All(t)' \subseteq All(t)
  BY <1>1 DEF All, InAll, Elements
<1>4. Numbered(All(t))'
  BY <1>3 DEF Watched, Numbered
<1>5. Stream(got[t], replay[t], chan[t])'
  BY <1>1 DEF Stream, Ordered, Earlier, Before, Elements
<1>6. state[t] \notin {"away", "asked"}
  BY DEF Watched
<1>7. Waiting(t)' => \A x \in All(t)' : Before(x, event'[1])
  BY <1>3 DEF Watched
<1>8. Sentinel \in Elements(chan'[t]) => outcome'[1] # "none"
  BY <1>2 DEF Watched, OutcomeStays
<1>9. state'[t] \in {"parting", "ended"} => outcome'[1] # "none"
  BY DEF Watched, OutcomeStays
<1> QED
  BY <1>4, <1>5, <1>6, <1>7, <1>8, <1>9 DEF Watched, Before, Elements

\* A new event is newer than all that anybody has of its kind.
LEMMA WatchedPublish ==
  ASSUME Incarnations = 1, Typed, Phases, NEW k \in Kinds, Publish(1, k), UNCHANGED outcome,
         NEW t \in Subscribers, Watched(t)
  PROVE  Watched(t)'
<1> DEFINE e == <<k, sent[1][k] + 1>>
<1>1. 1 \in Runs /\ sent \in [Runs -> [Kinds -> Nat]] /\ targets \in [Runs -> Seq(Subscribers)]
      /\ event \in [Runs -> Events] /\ sent[1] \in [Kinds -> Nat]
  BY DEF Runs, Typed, WorkerTyped
<1>2. /\ sent' = [sent EXCEPT ![1][k] = sent[1][k] + 1]
      /\ event' = [event EXCEPT ![1] = e] /\ targets' = [targets EXCEPT ![1] = subscribers]
  BY <1>1, Recorded DEF Typed
<1>3. /\ sent'[1] = [sent[1] EXCEPT ![k] = sent[1][k] + 1]
      /\ event'[1] = e /\ targets'[1] = subscribers
  BY <1>1, <1>2
<1>4. e[1] = k /\ e[2] = sent[1][k] + 1
  OBVIOUS
<1>5. \A j \in Kinds : \A n \in 1..sent[1][j] : n \in 1..sent'[1][j] /\ (j = k => n < sent[1][k] + 1)
  BY <1>1, <1>3
<1> HIDE DEF e
<1>6. got' = got /\ replay' = replay /\ chan' = chan /\ state' = state
  BY DEF Publish, watcherVars
<1>7. All(t)' = All(t)
  BY <1>6 DEF All, InAll, Elements
<1>8. \A x \in All(t) : x \in Events
  BY <1>1, ElementOfSeq DEF Typed, WatcherTyped, ChanTyped, All, InAll, Elements, Events
<1>9. ASSUME NEW x \in All(t), x[1] \in Kinds
      PROVE  x \in Outputs /\ x[2] \in 1..sent[1][x[1]]
  BY <1>8, <1>9, OutputParts DEF Watched, Numbered
<1>10. \A x \in All(t) : Before(x, e)
  BY <1>4, <1>5, <1>9 DEF Before
<1>11. Numbered(All(t))'
  <2>1. \A x \in All(t) \cap Outputs : x[1] \in Kinds
    BY DEF Outputs
  <2> QED
    BY <1>5, <1>7, <1>9, <2>1 DEF Numbered
<1>12. Stream(got[t], replay[t], chan[t])'
  <2>1. Stream(got'[t], replay'[t], chan'[t])
    BY <1>6 DEF Watched
  <2> QED
    BY <2>1 DEF Stream, Ordered, Earlier, Before, Elements
<1>13. state[t] \in {"away", "asked"} => t \notin Elements(subscribers)
  BY DEF Typed, Listed
<1>14. Elements(targets'[1]) = Elements(subscribers) /\ Elements(chan'[t]) = Elements(chan[t])
  BY <1>3, <1>6 DEF Elements
<1>15. \A x \in All(t)' : Before(x, event'[1])
  BY <1>3, <1>7, <1>10
<1> QED
  BY <1>6, <1>11, <1>12, <1>13, <1>14, <1>15 DEF Watched, Before, Elements

\* What a watcher that has seen nothing yet is given to replay.
LEMMA WatchedReplaying ==
  ASSUME Typed, Recent, NEW t \in Subscribers, Watched(t), state[t] \in {"away", "asked"},
         NEW r \in {backlog, backlog \o latest},
         got'[t] = got[t], chan'[t] = chan[t], replay'[t] = r,
         UNCHANGED <<sent, targets, event, outcome>>,
         \/ state'[t] = "reading"
         \/ state'[t] = "parting" /\ outcome[1] # "none"
  PROVE  Watched(t)'
<1>1. backlog \in Seq(Outputs) /\ latest \in Seq(Outputs)
  BY DEF Typed, BrokerTyped
<1>2. r \in Seq(Outputs) /\ Ordered(r) /\ Elements(r) \subseteq Elements(backlog) \cup Elements(latest)
  <2>1. CASE r = backlog
    BY <1>1, <2>1 DEF Recent
  <2>2. CASE r = backlog \o latest
    <3>1. /\ backlog \o latest \in Seq(Outputs)
          /\ Len(backlog \o latest) = Len(backlog) + Len(latest)
          /\ Len(backlog) \in Nat /\ Len(latest) \in Nat
          /\ \A i \in 1..(Len(backlog) + Len(latest)) :
                (backlog \o latest)[i] = IF i <= Len(backlog) THEN backlog[i]
                                         ELSE latest[i - Len(backlog)]
      BY <1>1, ConcatProperties, LenProperties
    <3> DEFINE b == Len(backlog)
    <3>2. \A i \in 1..Len(r) : \/ i \in 1..b /\ r[i] = backlog[i]
                               \/ i \notin 1..b /\ i - b \in 1..Len(latest) /\ r[i] = latest[i - b]
      BY <2>2, <3>1
    <3>3. Elements(r) \subseteq Elements(backlog) \cup Elements(latest)
      BY <3>2 DEF Elements
    <3>4. ASSUME NEW i \in 1..Len(r), NEW j \in 1..Len(r), i < j PROVE Before(r[i], r[j])
      <4> HIDE DEF b
      <4>1. b \in Nat /\ Len(r) \in Nat
        BY <2>2, <3>1 DEF b
      <4>2. CASE i \in 1..b /\ j \in 1..b
        BY <3>2, <3>4, <4>2 DEF Recent, Ordered, b
      <4>3. CASE i \in 1..b /\ j \notin 1..b
        <5>1. r[i] \in Elements(backlog) /\ r[j] \in Elements(latest)
          BY <3>2, <4>3 DEF Elements, b
        <5> QED
          BY <5>1 DEF Recent, Before
      <4>4. CASE i \notin 1..b
        <5>1. j \notin 1..b /\ i - b < j - b
          BY <3>4, <4>1, <4>4
        <5> QED
          BY <3>2, <4>4, <5>1 DEF Recent, Ordered
      <4> QED
        BY <4>2, <4>3, <4>4
    <3> QED
      BY <2>2, <3>1, <3>3, <3>4 DEF Ordered
  <2> QED
    BY <2>1, <2>2
<1>3. got'[t] = <<>> /\ chan'[t] = <<>> /\ t \notin Elements(targets[1])
  BY DEF Watched
<1>4. Stream(got'[t], replay'[t], chan'[t])
  BY <1>2, <1>3, EmptyStream DEF Stream, Earlier
<1>5. Stream(got[t], replay[t], chan[t])'
  BY <1>4 DEF Stream, Ordered, Earlier, Before, Elements
<1>6. All(t)' \subseteq Elements(backlog) \cup Elements(latest)
  <2>1. All(t)' = Elements(got'[t]) \cup Elements(replay'[t]) \cup Elements(chan'[t])
    BY DEF All, InAll, Elements
  <2> QED
    BY <1>2, <1>3, <2>1, EmptyStream
<1>7. Numbered(All(t))'
  BY <1>6 DEF Recent, Numbered
<1>8. Elements(targets'[1]) = Elements(targets[1]) /\ Elements(chan'[t]) = {}
  BY <1>3, EmptyStream DEF Elements
<1> QED
  BY <1>3, <1>5, <1>7, <1>8 DEF Watched, Waiting, Elements

\* The next event of the replay, or of the channel, is received.
LEMMA WatchedReceived ==
  ASSUME NEW t \in Subscribers, Watched(t), state[t] \notin {"away", "asked"},
         Stream(got'[t], replay'[t], chan'[t]),
         InAll(got'[t], replay'[t], chan'[t]) = All(t),
         Elements(chan'[t]) \subseteq Elements(chan[t]),
         UNCHANGED <<workerVars, state>>
  PROVE  Watched(t)'
<1> USE DEF workerVars
<1>1. All(t)' = All(t)
  BY DEF All, InAll, Elements
<1>2. Stream(got[t], replay[t], chan[t])'
  BY DEF Stream, Ordered, Earlier, Before, Elements
<1>3. Numbered(All(t))'
  BY <1>1 DEF Watched, Numbered
<1>4. Waiting(t)' <=> Waiting(t)
  BY DEF Waiting, Delivering, Elements
<1> QED
  BY <1>1, <1>2, <1>3, <1>4 DEF Watched, Before, Elements

LEMMA WatchedByWatcher ==
  ASSUME Incarnations = 1, OrderInv, NEW s \in Subscribers,
         (\E g \in Runs : Ask(s, g)) \/ WatcherStep(s) \/ Leave(s),
         NEW t \in Subscribers
  PROVE  Watched(t)'
<1> USE DEF OrderInv
<1>1. Runs = {1} /\ WatcherTyped /\ ChanTyped /\ Watched(t)
  BY DEF Runs, Typed
<1>2. UNCHANGED workerVars
  BY DEF Ask, WatcherStep, Subscribe, Replay, PartingEnds, Get, Leave
<1>3. /\ UNCHANGED <<sent, targets, event, outcome, at>> /\ OutcomeStays
      /\ Waiting(t)' => Waiting(t) /\ event' = event
      /\ state[t] \in {"away", "asked"} => t \notin Elements(targets'[1])
  BY <1>1, <1>2 DEF workerVars, OutcomeStays, Waiting, Delivering, Elements, Watched
<1>4. SameEvents(t) /\ state'[t] = state[t] => Watched(t)'
  BY <1>1, <1>3, WatchedKept
<1>5. SameEvents(t) /\ state'[t] \in {"ended", "left"}
      /\ (state'[t] = "ended" => outcome[1] # "none") => Watched(t)'
  <2> SUFFICES ASSUME SameEvents(t), state'[t] \in {"ended", "left"},
                      state'[t] = "ended" => outcome[1] # "none"
               PROVE  Watched(t)'
    OBVIOUS
  <2>1. All(t)' = All(t) /\ Elements(chan'[t]) = Elements(chan[t])
    BY DEF All, InAll, SameEvents, Elements
  <2>2. Stream(got[t], replay[t], chan[t])'
    BY <1>1 DEF Watched, SameEvents, Stream, Ordered, Earlier, Before, Elements
  <2>3. Numbered(All(t))'
    BY <1>1, <1>3, <2>1 DEF Watched, Numbered
  <2> QED
    BY <1>1, <1>3, <2>1, <2>2, <2>3 DEF Watched, OutcomeStays, Before, Elements
<1>6. CASE t # s
  <2>1. SameEvents(t) /\ state'[t] = state[t]
    BY <1>1, <1>6 DEF Ask, WatcherStep, Subscribe, Replay, PartingEnds, Get, Leave, Yield,
         SameEvents, WatcherTyped, ChanTyped
  <2> QED
    BY <1>4, <2>1
<1>7. CASE t = s /\ Ask(s, 1)
  <2>1. CASE row[1] = "active"
    <3>1. SameEvents(t) /\ state[t] = "away" /\ state'[t] = "asked"
      BY <1>1, <1>7, <2>1 DEF Ask, SameEvents, WatcherTyped
    <3>2. All(t)' = All(t) /\ Elements(chan'[t]) = Elements(chan[t])
      BY <3>1 DEF All, InAll, SameEvents, Elements
    <3>3. Stream(got[t], replay[t], chan[t])'
      BY <1>1, <3>1 DEF Watched, SameEvents, Stream, Ordered, Earlier, Before, Elements
    <3>4. Numbered(All(t))'
      BY <1>1, <1>3, <3>2 DEF Watched, Numbered
    <3> QED
      BY <1>1, <1>3, <3>1, <3>2, <3>3, <3>4 DEF Watched, SameEvents, OutcomeStays, Before, Elements
  <2>2. CASE row[1] = "over"
    <3>1. /\ state[t] = "away" /\ state'[t] = "parting" /\ replay'[t] = backlog
          /\ got'[t] = got[t] /\ chan'[t] = chan[t] /\ outcome[1] # "none"
      BY <1>1, <1>7, <2>2 DEF Ask, WatcherTyped, Phases
    <3> QED
      BY <1>1, <1>3, <3>1, WatchedReplaying
  <2> QED
    BY <1>7, <2>1, <2>2 DEF Ask
<1>8. CASE t = s /\ Subscribe(s)
  <2>1. /\ state[t] = "asked" /\ got'[t] = got[t] /\ chan'[t] = chan[t]
        /\ \/ state'[t] = "parting" /\ finished /\ replay'[t] = backlog
           \/ state'[t] = "reading" /\ replay'[t] = backlog \o latest
    BY <1>1, <1>8 DEF Subscribe, WatcherTyped
  <2>2. finished => outcome[1] # "none"
    BY DEF Phases
  <2>3. CASE state'[t] = "parting" /\ finished /\ replay'[t] = backlog
    BY <1>1, <1>3, <2>1, <2>2, <2>3, WatchedReplaying
  <2>4. CASE state'[t] = "reading" /\ replay'[t] = backlog \o latest
    BY <1>1, <1>3, <2>1, <2>4, WatchedReplaying
  <2> QED
    BY <2>1, <2>3, <2>4
<1>9. CASE t = s /\ Replay(s)
  <2>1. /\ replay[t] \in Seq(Outputs) /\ replay[t] # <<>> /\ got[t] \in Seq(Outputs)
        /\ chan[t] \in Seq(Events) /\ state[t] \notin {"away", "asked"}
        /\ got'[t] = Append(got[t], Head(replay[t])) /\ replay'[t] = Tail(replay[t])
        /\ chan'[t] = chan[t] /\ UNCHANGED state
    BY <1>1, <1>9 DEF Replay, Yield, WatcherTyped, ChanTyped
  <2>2. /\ Stream(got'[t], replay'[t], chan'[t])
        /\ InAll(got'[t], replay'[t], chan'[t]) = All(t)
        /\ Elements(chan'[t]) \subseteq Elements(chan[t])
    BY <1>1, <2>1, StreamReplay DEF Watched, All
  <2> QED
    BY <1>1, <1>2, <2>1, <2>2, WatchedReceived
<1>10. CASE t = s /\ PartingEnds(s)
  <2>1. SameEvents(t) /\ state'[t] = "ended" /\ outcome[1] # "none"
    BY <1>1, <1>10 DEF PartingEnds, SameEvents, WatcherTyped, Watched
  <2> QED
    BY <1>5, <2>1
<1>11. CASE t = s /\ Get(s)
  <2>1. /\ chan[t] \in Seq(Events) /\ chan[t] # <<>> /\ got[t] \in Seq(Outputs)
        /\ replay[t] = <<>> /\ replay'[t] = replay[t] /\ chan'[t] = Tail(chan[t])
        /\ state[t] = "reading"
    BY <1>1, <1>11 DEF Get, WatcherTyped, ChanTyped
  <2>2. Head(chan[t]) \in Events /\ Elements(chan[t]) = {Head(chan[t])} \cup Elements(Tail(chan[t]))
    BY <2>1, HeadTailProperties, ElementsTail
  <2>3. CASE Head(chan[t]) # Sentinel /\ Yield(t, Head(chan[t])) /\ UNCHANGED state
    <3>1. Head(chan[t]) \in Outputs /\ got'[t] = Append(got[t], Head(chan[t]))
      BY <1>1, <2>2, <2>3, OutputParts DEF Yield, WatcherTyped
    <3>2. /\ Stream(got'[t], replay'[t], chan'[t])
          /\ InAll(got'[t], replay'[t], chan'[t]) = All(t)
      BY <1>1, <2>1, <3>1, StreamGet DEF Watched, All
    <3> QED
      BY <1>1, <1>2, <2>1, <2>2, <2>3, <3>2, WatchedReceived
  <2>4. CASE Head(chan[t]) = Sentinel /\ state' = [state EXCEPT ![t] = "ended"] /\ UNCHANGED got
    <3>1. outcome[1] # "none" /\ state'[t] = "ended" /\ got'[t] = got[t]
      BY <1>1, <2>2, <2>4 DEF Watched, WatcherTyped
    <3>2. /\ Stream(got'[t], replay'[t], chan'[t])
          /\ InAll(got'[t], replay'[t], chan'[t]) \subseteq All(t)
      BY <1>1, <2>1, <3>1, StreamDrop DEF Watched, All
    <3>3. All(t)' \subseteq All(t)
      BY <3>2 DEF All, InAll, Elements
    <3>4. Stream(got[t], replay[t], chan[t])'
      BY <3>2 DEF Stream, Ordered, Earlier, Before, Elements
    <3>5. Numbered(All(t))'
      BY <1>1, <1>3, <3>3 DEF Watched, Numbered
    <3> QED
      BY <1>1, <1>3, <3>1, <3>3, <3>4, <3>5 DEF Watched, Before, Elements
  <2> QED
    BY <1>11, <2>3, <2>4 DEF Get
<1>12. CASE t = s /\ Leave(s)
  <2>1. SameEvents(t) /\ state'[t] = "left"
    BY <1>1, <1>12 DEF Leave, SameEvents, WatcherTyped
  <2> QED
    BY <1>5, <2>1
<1> QED
  BY <1>1, <1>6, <1>7, <1>8, <1>9, <1>10, <1>11, <1>12 DEF WatcherStep

LEMMA WatchedByWorker ==
  ASSUME Incarnations = 1, OrderInv, NEW t \in Subscribers,
         \/ Start(1) \/ CommitOutcome(1) \/ Fault(1) \/ Published(1) \/ DropRow(1)
         \/ FinishBegins(1) \/ FinishEnds(1) \/ PutSentinel(1)
         \/ Put(1) \/ Evict(1) \/ Retry(1)
  PROVE  Watched(t)'
<1> USE DEF OrderInv
<1>1. Runs = {1} /\ WorkerTyped /\ ChanTyped /\ Watched(t)
  BY DEF Runs, Typed
<1>2. /\ UNCHANGED watcherVars /\ UNCHANGED sent
      /\ got'[t] = got[t] /\ replay'[t] = replay[t] /\ state'[t] = state[t]
  BY DEF Start, CommitOutcome, Fault, Published, DropRow, FinishBegins, FinishEnds,
       PutSentinel, Put, Evict, Retry, watcherVars
<1>3. OutcomeStays
  BY <1>1, BrokerAssumption DEF Start, CommitOutcome, Fault, Published, DropRow, FinishBegins,
       FinishEnds, PutSentinel, Put, Evict, Retry, OutcomeStays, WorkerTyped
<1>4. state[t] \in {"away", "asked"} =>
          t \notin Elements(targets[1]) /\ t \notin Elements(subscribers)
  BY DEF Watched, Typed, Listed
<1>5. chan[t] \in Seq(Events) /\ targets[1] \in Seq(Subscribers) /\ sent[1] \in [Kinds -> Nat]
  BY <1>1 DEF WorkerTyped, ChanTyped
<1>6. CASE Start(1) \/ CommitOutcome(1) \/ Fault(1) \/ Published(1) \/ DropRow(1) \/ FinishEnds(1)
  <2>1. UNCHANGED <<chan, targets, event>> /\ (Delivering' => Delivering)
    BY <1>1, <1>6 DEF Start, CommitOutcome, Fault, Published, DropRow, FinishEnds, Goto,
         WorkerTyped, Delivering
  <2>2. SameEvents(t) /\ (Waiting(t)' => Waiting(t)) /\ targets'[1] = targets[1]
    BY <1>2, <2>1 DEF SameEvents, Waiting, Elements
  <2> QED
    BY <1>1, <1>2, <1>3, <1>4, <2>1, <2>2, WatchedKept
<1>7. CASE FinishBegins(1)
  <2>1. chan' = chan /\ targets'[1] = subscribers /\ ~Delivering'
    BY <1>1, <1>7 DEF FinishBegins, Hand, Goto, WorkerTyped, Delivering
  <2>2. SameEvents(t) /\ ~Waiting(t)'
    BY <1>2, <2>1 DEF SameEvents, Waiting
  <2> QED
    BY <1>1, <1>2, <1>3, <1>4, <2>1, <2>2, WatchedKept
<1>8. ASSUME targets[1] # <<>>, targets'[1] = Tail(targets[1]), event' = event,
             Delivering' => Delivering,
             UNCHANGED chan \/ t # Head(targets[1]), chan'[t] = chan[t]
      PROVE  Watched(t)'
  <2>1. Elements(targets[1]) = {Head(targets[1])} \cup Elements(targets'[1])
    BY <1>5, <1>8, ElementsTail
  <2>2. SameEvents(t) /\ (Waiting(t)' => Waiting(t))
    BY <1>2, <1>8, <2>1 DEF SameEvents, Waiting, Elements
  <2>3. state[t] \in {"away", "asked"} => t \notin Elements(targets'[1])
    BY <1>4, <2>1
  <2> QED
    BY <1>1, <1>2, <1>3, <1>8, <2>2, <2>3, WatchedKept
<1>9. ASSUME targets[1] # <<>>, t = Head(targets[1]), targets'[1] = Tail(targets[1])
      PROVE  t \in Elements(targets[1]) /\ t \notin Elements(targets'[1]) /\ ~Waiting(t)'
  <2>1. t \in Elements(targets[1]) /\ t \notin Elements(targets'[1])
    BY <1>5, <1>9, ElementsTail DEF Phases
  <2> QED
    BY <2>1 DEF Waiting, Elements
<1>10. CASE PutSentinel(1)
  <2>1. /\ targets[1] # <<>> /\ targets'[1] = Tail(targets[1]) /\ event' = event
        /\ ~Delivering /\ ~Delivering' /\ outcome'[1] # "none"
        /\ chan' = chan \/ chan' = [chan EXCEPT ![Head(targets[1])] = Append(@, Sentinel)]
    BY <1>1, <1>10 DEF PutSentinel, NextTarget, Deliver, WorkerTyped, Delivering, Phases
  <2>2. CASE chan'[t] = chan[t] /\ (chan' = chan \/ t # Head(targets[1]))
    BY <1>8, <2>1, <2>2
  <2>3. CASE t = Head(targets[1]) /\ chan'[t] = Append(chan[t], Sentinel)
    BY <1>1, <1>2, <1>5, <1>9, <2>1, <2>3, WatchedEnd
  <2> QED
    BY <1>1, <2>1, <2>2, <2>3 DEF ChanTyped
<1>11. CASE Put(1)
  <2>1. at[1] = "putting" /\ targets[1] # <<>> /\ event' = event
    BY <1>11 DEF Put
  <2>2. CASE UNCHANGED <<chan, targets>> /\ Goto(1, "full")
    <3>1. SameEvents(t) /\ (Waiting(t)' => Waiting(t)) /\ targets'[1] = targets[1]
      BY <1>2, <2>1, <2>2 DEF SameEvents, Waiting, Delivering, Elements
    <3> QED
      BY <1>1, <1>2, <1>3, <1>4, <2>1, <3>1, WatchedKept
  <2>3. CASE Deliver(Head(targets[1]), event[1]) /\ NextTarget(1) /\ UNCHANGED at
    <3>1. targets'[1] = Tail(targets[1]) /\ Delivering
      BY <1>1, <2>1, <2>3 DEF NextTarget, WorkerTyped, Delivering
    <3>2. CASE t = Head(targets[1])
      <4>1. chan'[t] = Append(chan[t], event[1])
        BY <1>1, <2>3, <3>2 DEF Deliver, ChanTyped
      <4>2. Waiting(t) /\ ~Waiting(t)'
        BY <1>9, <2>1, <3>1, <3>2 DEF Waiting
      <4> QED
        BY <1>1, <1>2, <1>3, <1>5, <4>1, <4>2, WatchedPut
    <3>3. CASE t # Head(targets[1])
      <4>1. chan'[t] = chan[t]
        BY <1>1, <2>3, <3>3 DEF Deliver, ChanTyped
      <4> QED
        BY <1>8, <2>1, <3>1, <3>3, <4>1
    <3> QED
      BY <3>2, <3>3
  <2> QED
    BY <1>11, <2>2, <2>3 DEF Put
<1>12. CASE Evict(1)
  <2>1. at[1] = "full" /\ targets[1] # <<>> /\ event' = event /\ Delivering /\ Head(targets[1]) \in Subscribers
    <3>1. at[1] = "full" /\ targets[1] # <<>> /\ event' = event
      BY <1>1, <1>12 DEF Evict, Typed, Stages
    <3> QED
      BY <1>5, <3>1, HeadTailProperties DEF Delivering
  <2>2. CASE /\ chan[Head(targets[1])] # <<>>
             /\ chan' = [chan EXCEPT ![Head(targets[1])] = Tail(@)]
             /\ UNCHANGED targets
    <3>1. Waiting(t)' => Waiting(t)
      BY <2>1, <2>2 DEF Waiting, Elements
    <3>2. CASE t = Head(targets[1])
      <4>1. chan[t] # <<>> /\ chan'[t] = Tail(chan[t])
        BY <1>1, <2>2, <3>2 DEF ChanTyped
      <4> QED
        BY <1>1, <1>2, <1>3, <1>5, <2>1, <3>1, <4>1, WatchedDrop
    <3>3. CASE t # Head(targets[1])
      <4>1. SameEvents(t)
        BY <1>1, <1>2, <2>2, <3>3 DEF SameEvents, ChanTyped
      <4> QED
        BY <1>1, <1>2, <1>3, <1>4, <2>1, <2>2, <3>1, <4>1, WatchedKept
    <3> QED
      BY <3>2, <3>3
  <2>3. CASE UNCHANGED chan /\ NextTarget(1)
    <3>1. targets'[1] = Tail(targets[1])
      BY <1>1, <2>3 DEF NextTarget, WorkerTyped
    <3> QED
      BY <1>8, <2>1, <2>3, <3>1
  <2> QED
    BY <1>12, <2>2, <2>3 DEF Evict
<1>13. CASE Retry(1)
  <2>1. at[1] = "evicted" /\ targets[1] # <<>> /\ event' = event /\ Delivering
    <3>1. at[1] = "evicted" /\ targets[1] # <<>> /\ event' = event
      BY <1>1, <1>13 DEF Retry, Typed, Stages
    <3> QED
      BY <3>1 DEF Delivering
  <2>2. targets'[1] = Tail(targets[1])
    BY <1>1, <1>13 DEF Retry, NextTarget, WorkerTyped
  <2>3. chan' = chan \/ Deliver(Head(targets[1]), event[1])
    BY <1>13 DEF Retry
  <2>4. CASE chan'[t] = chan[t] /\ (chan' = chan \/ t # Head(targets[1]))
    BY <1>8, <2>1, <2>2, <2>4
  <2>5. CASE t = Head(targets[1]) /\ chan'[t] = Append(chan[t], event[1])
    <3>1. Waiting(t) /\ ~Waiting(t)'
      BY <1>9, <2>1, <2>2, <2>5 DEF Waiting
    <3> QED
      BY <1>1, <1>2, <1>3, <1>5, <2>5, <3>1, WatchedPut
  <2> QED
    BY <1>1, <2>3, <2>4, <2>5 DEF Deliver, ChanTyped
<1> QED
  BY <1>6, <1>7, <1>10, <1>11, <1>12, <1>13

LEMMA OrderStep == ASSUME Incarnations = 1 PROVE OrderInv /\ [Next]_vars => OrderInv'
<1> SUFFICES ASSUME OrderInv, [Next]_vars PROVE OrderInv'
  OBVIOUS
<1>1. Typed' /\ Phases' /\ Recent'
  BY TypedStep, PhasesStep, RecentStep DEF OrderInv
<1>2. ASSUME NEW t \in Subscribers PROVE Watched(t)'
  <2>1. Runs = {1} /\ Watched(t)
    BY DEF Runs, OrderInv
  <2>2. CASE PublishOutcome(1) \/ \E k \in Kinds : PublishOutput(1, k)
    <3>1. PICK k \in Kinds : Publish(1, k) /\ UNCHANGED outcome
      BY <2>2 DEF PublishOutcome, PublishOutput, Kinds
    <3> QED
      BY <2>1, <3>1, WatchedPublish DEF OrderInv
  <2>3. CASE UNCHANGED vars
    <3>1. /\ SameEvents(t) /\ state'[t] = state[t] /\ sent' = sent /\ OutcomeStays
          /\ Waiting(t)' => Waiting(t) /\ event' = event
          /\ state[t] \in {"away", "asked"} => t \notin Elements(targets'[1])
      BY <2>1, <2>3 DEF vars, workerVars, watcherVars, SameEvents, OutcomeStays, Waiting,
           Delivering, Elements, Watched
    <3> QED
      BY <2>1, <3>1, WatchedKept
  <2>4. CASE Next
    BY <2>1, <2>2, <2>4, WatchedByWatcher, WatchedByWorker DEF Next, WorkerStep
  <2> QED
    BY <2>3, <2>4
<1> QED
  BY <1>1, <1>2 DEF OrderInv

-----------------------------------------------------------------------------
(* RunBroker implements RunStream. *)

Ended == {s \in Subscribers : state[s] = "ended"}

\* An event that is newer than all a watcher has may be received.
LEMMA PromisedReceive ==
  ASSUME OrderInv, NEW s \in Subscribers, NEW e \in Outputs, state[s] # "ended",
         e \in All(s), \A x \in Elements(got[s]) : Before(x, e), Yield(s, e),
         Runs = {1}, UNCHANGED <<sent, outcome, state>>
  PROVE  Promised!Next
<1>1. e[1] \in Kinds /\ e[2] \in 1..sent[1][e[1]] /\ e = <<e[1], e[2]>>
  BY DEF OrderInv, Watched, Numbered, Outputs
<1>2. \A i \in 1..Len(got[s]) : got[s][i][1] = e[1] => got[s][i][2] < e[2]
  BY <1>1 DEF Elements, Before
<1>3. e[2] <= sent[1][e[1]]
  BY <1>1 DEF OrderInv, Typed, WorkerTyped
<1>4. got' = [got EXCEPT ![s] = Append(@, <<e[1], e[2]>>)]
  BY <1>1 DEF Yield
<1>5. Promised!Receive(s, e[1], e[2])
  BY <1>2, <1>3, <1>4 DEF Promised!Receive
<1> QED
  BY <1>1, <1>5 DEF Promised!Next

LEMMA PromisedFinish ==
  ASSUME Typed, NEW s \in Subscribers, outcome[1] # "none",
         state' = [state EXCEPT ![s] = "ended"], UNCHANGED <<sent, outcome, got>>
  PROVE  Promised!Next
<1>1. Ended' = Ended \cup {s}
  BY DEF Ended, Typed, WatcherTyped
<1>2. Promised!Finish(s)
  BY <1>1 DEF Promised!Finish, Ended
<1> QED
  BY <1>2 DEF Promised!Next

LEMMA PromisedStep ==
  ASSUME Incarnations = 1, OrderInv, [Next]_vars
  PROVE  [Promised!Next]_(Promised!vars)
<1> USE DEF OrderInv
<1>1. Runs = {1} /\ WorkerTyped /\ WatcherTyped /\ ChanTyped /\ BrokerTyped
  BY DEF Runs, Typed
<1>2. CASE UNCHANGED <<sent, outcome, got, state>>
  BY <1>2 DEF Promised!vars
<1>3. CASE UNCHANGED vars
  BY <1>2, <1>3 DEF vars, workerVars, watcherVars
<1>4. ASSUME NEW k \in Kinds, Publish(1, k), UNCHANGED <<outcome>> PROVE Promised!Next
  <2>1. sent'[1] = [sent[1] EXCEPT ![k] = @ + 1]
    BY <1>1, <1>4 DEF Publish, WorkerTyped
  <2>2. UNCHANGED <<outcome, got, state>>
    BY <1>4 DEF Publish, watcherVars
  <2>3. Promised!Produce(k)
    BY <2>1, <2>2 DEF Promised!Produce
  <2> QED
    BY <2>3 DEF Promised!Next
<1>5. CASE PublishOutcome(1) \/ \E k \in Kinds : PublishOutput(1, k)
  BY <1>4, <1>5 DEF PublishOutcome, PublishOutput, Kinds
<1>6. CASE CommitOutcome(1) \/ Fault(1)
  <2>1. UNCHANGED <<sent, got, state>> /\ outcome[1] = "none" /\ outcome'[1] # "none"
    <3>1. at[1] = "busy" /\ UNCHANGED <<sent, got, state>>
      BY <1>6 DEF CommitOutcome, Fault, watcherVars
    <3>2. \E o \in {"success", "failed", "fault"} : outcome' = [outcome EXCEPT ![1] = o]
      BY <1>6, BrokerAssumption DEF CommitOutcome, Fault
    <3> QED
      BY <1>1, <3>1, <3>2 DEF Phases, WorkerTyped
  <2>2. Promised!End
    BY <2>1 DEF Promised!End
  <2> QED
    BY <2>2 DEF Promised!Next
<1>7. CASE Start(1) \/ Published(1) \/ DropRow(1) \/ FinishBegins(1) \/ FinishEnds(1)
           \/ PutSentinel(1) \/ Put(1) \/ Evict(1) \/ Retry(1)
  BY <1>2, <1>7 DEF Start, Published, DropRow, FinishBegins, FinishEnds, PutSentinel, Put,
       Evict, Retry, watcherVars
<1>8. ASSUME NEW s \in Subscribers, Ask(s, 1) \/ Subscribe(s) \/ Leave(s)
      PROVE  UNCHANGED (Promised!vars)
  <2>1. UNCHANGED <<sent, outcome, got>> /\ Ended' = Ended
    BY <1>1, <1>8 DEF Ask, Subscribe, Leave, workerVars, Ended, WatcherTyped
  <2> QED
    BY <2>1 DEF Promised!vars, Ended
<1>9. ASSUME NEW s \in Subscribers, Replay(s) PROVE Promised!Next
  <2>1. /\ replay[s] \in Seq(Outputs) /\ replay[s] # <<>> /\ state[s] # "ended"
        /\ UNCHANGED <<sent, outcome, state>> /\ Yield(s, Head(replay[s]))
    BY <1>1, <1>9 DEF Replay, workerVars, WatcherTyped
  <2>2. Head(replay[s]) \in Outputs /\ Head(replay[s]) \in Elements(replay[s])
    BY <2>1, HeadTailProperties, ElementsTail
  <2>3. Head(replay[s]) \in All(s) /\ \A x \in Elements(got[s]) : Before(x, Head(replay[s]))
    BY <2>2 DEF Watched, Stream, Earlier, All, InAll
  <2> QED
    BY <1>1, <2>1, <2>2, <2>3, PromisedReceive
<1>10. ASSUME NEW s \in Subscribers, PartingEnds(s) PROVE Promised!Next
  <2>1. outcome[1] # "none" /\ UNCHANGED <<sent, outcome, got>>
        /\ state' = [state EXCEPT ![s] = "ended"]
    BY <1>10 DEF PartingEnds, workerVars, Watched
  <2> QED
    BY <2>1, PromisedFinish
<1>11. ASSUME NEW s \in Subscribers, Get(s) PROVE Promised!Next
  <2>1. chan[s] \in Seq(Events) /\ chan[s] # <<>> /\ state[s] # "ended" /\ UNCHANGED <<sent, outcome>>
    BY <1>1, <1>11 DEF Get, workerVars, ChanTyped
  <2>2. Head(chan[s]) \in Events /\ Head(chan[s]) \in Elements(chan[s])
    BY <2>1, HeadTailProperties, ElementsTail
  <2>3. CASE Head(chan[s]) # Sentinel /\ Yield(s, Head(chan[s])) /\ UNCHANGED state
    <3>1. Head(chan[s]) \in Outputs
      BY <2>2, <2>3, OutputParts
    <3>2. Head(chan[s]) \in All(s) /\ \A x \in Elements(got[s]) : Before(x, Head(chan[s]))
      BY <2>2 DEF Watched, Stream, Earlier, All, InAll
    <3> QED
      BY <1>1, <2>1, <2>3, <3>1, <3>2, PromisedReceive
  <2>4. CASE Head(chan[s]) = Sentinel /\ state' = [state EXCEPT ![s] = "ended"] /\ UNCHANGED got
    BY <2>1, <2>2, <2>4, PromisedFinish DEF Watched
  <2> QED
    BY <1>11, <2>3, <2>4 DEF Get
<1> QED
  BY <1>1, <1>3, <1>5, <1>6, <1>7, <1>8, <1>9, <1>10, <1>11 DEF Next, WorkerStep, WatcherStep

\* The broker is an implementation of RunStream: a watcher receives each kind of
\* output in the order it was published and never twice, through replays, full
\* queues, evictions and a finish that is called twice, and its stream does not
\* end before the run has.  (Where the id is not given out again: the numbers of
\* a second run would start anew.)
THEOREM StreamKept == ASSUME Incarnations = 1 PROVE Spec => StreamAsPromised
<1>1. Init => Promised!Init
  <2> SUFFICES ASSUME Init PROVE Promised!Init
    OBVIOUS
  <2>1. 1 \in Runs
    BY DEF Runs
  <2>2. sent[1] = [k \in Kinds |-> 0] /\ (outcome[1] # "none") = FALSE
    BY <2>1 DEF Init
  <2>3. got = [s \in Subscribers |-> <<>>] /\ {s \in Subscribers : state[s] = "ended"} = {}
    BY DEF Init
  <2> QED
    BY <2>2, <2>3 DEF Promised!Init
<1>2. OrderInv /\ [Next]_vars => [Promised!Next]_(Promised!vars)
  BY PromisedStep
<1> QED
  BY <1>1, <1>2, OrderInit, OrderStep, PTL DEF Spec, StreamAsPromised, Promised!Spec

-----------------------------------------------------------------------------
(* Gaps: which lines are on their way to a watcher whose queue never overflowed. *)

Line(n) == <<"log", n>>

\* With a line, every line that was published after it.
Upward(X) == \A n, m \in Nat : Line(n) \in X /\ n <= m /\ m <= sent[1]["log"] => Line(m) \in X

\* With two lines, every line between them.
Convex(X) == \A a, b, n \in Nat : Line(a) \in X /\ Line(b) \in X /\ a <= n /\ n <= b => Line(n) \in X

\* What a watcher has or will have without the worker publishing any more.
Coming(s) == All(s) \cup {e \in {event[1]} : Waiting(s)}

Taken(s) == Elements(got[s]) \cup Elements(replay[s])

Gapless(s) ==
    s \notin lost =>
        /\ state[s] = "reading" => Upward(Coming(s))
        /\ state[s] # "reading" => Convex(Taken(s))

GapInv == OrderInv /\ Upward(Elements(backlog)) /\ \A s \in Subscribers : Gapless(s)

LEMMA LineParts ==
  ASSUME NEW n \in Nat
  PROVE  /\ Line(n) \in Outputs /\ Line(n)[1] = "log" /\ Line(n)[2] = n
         /\ Line(n) # Sentinel
  BY DEF Line, Outputs, Kinds, Sentinel

LEMMA LineNumber ==
  ASSUME NEW X, Numbered(X), NEW n \in Nat, Line(n) \in X
  PROVE  n \in 1..sent[1]["log"]
  BY LineParts DEF Numbered

\* What comes to a reader has no gap, so neither has what it has taken so far.
LEMMA ReadersHaveNoGap ==
  ASSUME NEW s \in Subscribers, Watched(s), Upward(Coming(s)), sent[1]["log"] \in Nat
  PROVE  Convex(Taken(s))
<1> SUFFICES ASSUME NEW a \in Nat, NEW b \in Nat, NEW n \in Nat,
                    Line(a) \in Taken(s), Line(b) \in Taken(s), a <= n, n <= b
             PROVE  Line(n) \in Taken(s)
  BY DEF Convex
<1>1. Taken(s) \subseteq All(s)
  BY DEF Taken, All, InAll
<1>2. b <= sent[1]["log"]
  BY <1>1, LineNumber DEF Watched
<1>3. Line(n) \in Coming(s)
  <2>1. Line(a) \in Coming(s)
    BY <1>1 DEF Coming
  <2>2. n <= sent[1]["log"]
    BY <1>2
  <2> QED
    BY <2>1, <2>2 DEF Upward
<1>4. ASSUME NEW e, e = Line(n), Before(Line(b), e) PROVE FALSE
  BY <1>4, LineParts DEF Before, Kinds
<1>5. Line(n) \notin Elements(chan[s])
  BY <1>4 DEF Watched, Stream, Earlier, Taken
<1>6. Waiting(s) => Line(n) # event[1]
  BY <1>1, <1>4 DEF Watched
<1> QED
  BY <1>3, <1>5, <1>6 DEF Coming, All, InAll, Taken

LEMMA GapInit == ASSUME Incarnations = 1 PROVE Init => GapInv
<1> SUFFICES ASSUME Init PROVE GapInv
  OBVIOUS
<1>1. Upward(Elements(backlog))
  BY EmptyStream DEF Init, Upward
<1>2. ASSUME NEW s \in Subscribers PROVE Gapless(s)
  <2>1. state[s] = "away" /\ Taken(s) = {}
    BY EmptyStream DEF Init, Taken
  <2> QED
    BY <2>1 DEF Gapless, Convex
<1> QED
  BY <1>1, <1>2, OrderInit DEF GapInv

\* A step that changes neither what comes to a reader nor what others received.
LEMMA GaplessKept ==
  ASSUME NEW t \in Subscribers, Gapless(t), lost \subseteq lost', state'[t] = state[t],
         sent' = sent,
         t \notin lost' /\ state[t] = "reading" =>
             \A n \in Nat : Line(n) \in Coming(t)' <=> Line(n) \in Coming(t),
         state[t] # "reading" => Taken(t)' = Taken(t)
  PROVE  Gapless(t)'
<1>1. CASE t \in lost'
  BY <1>1 DEF Gapless
<1>2. CASE t \notin lost' /\ state[t] = "reading"
  <2>1. Upward(Coming(t))'
    <3>1. Upward(Coming(t))
      BY <1>2 DEF Gapless
    <3> QED
      BY <1>2, <3>1 DEF Upward
  <2> QED
    BY <1>2, <2>1 DEF Gapless
<1>3. CASE t \notin lost' /\ state[t] # "reading"
  <2>1. Convex(Taken(t))
    BY <1>3 DEF Gapless
  <2>2. Convex(Taken(t))'
    BY <1>3, <2>1 DEF Convex
  <2> QED
    BY <1>3, <2>2 DEF Gapless
<1> QED
  BY <1>1, <1>2, <1>3

\* A watcher that stops reading has no gap.
LEMMA GaplessStopped ==
  ASSUME NEW t \in Subscribers, Gapless(t), Watched(t), sent[1]["log"] \in Nat,
         lost' = lost, state'[t] # "reading",
         got'[t] = got[t], replay'[t] = replay[t]
  PROVE  Gapless(t)'
<1>1. CASE t \in lost
  BY <1>1 DEF Gapless
<1>2. CASE t \notin lost
  <2>1. Convex(Taken(t))
    BY <1>2, ReadersHaveNoGap DEF Gapless
  <2>2. Taken(t)' = Taken(t)
    BY DEF Taken, Elements
  <2>3. Convex(Taken(t))'
    BY <2>1, <2>2 DEF Convex
  <2> QED
    BY <2>3 DEF Gapless
<1> QED
  BY <1>1, <1>2

LEMMA GaplessPublish ==
  ASSUME Incarnations = 1, GapInv, NEW k \in Kinds, Publish(1, k), ~Delivering
  PROVE  Upward(Elements(backlog))' /\ \A t \in Subscribers : Gapless(t)'
<1> USE DEF GapInv, OrderInv
<1> DEFINE e == <<k, sent[1][k] + 1>>
           top == sent[1]["log"]
<1>1. 1 \in Runs /\ WorkerTyped /\ BrokerTyped
  BY DEF Runs, Typed
<1>2. /\ sent' = [sent EXCEPT ![1][k] = sent[1][k] + 1] /\ e \in Outputs
      /\ event' = [event EXCEPT ![1] = e] /\ targets' = [targets EXCEPT ![1] = subscribers]
      /\ at' = [at EXCEPT ![1] = "putting"]
  BY <1>1, Recorded DEF Typed
<1>3. /\ event'[1] = e /\ targets'[1] = subscribers /\ at'[1] = "putting"
      /\ sent'[1] = [sent[1] EXCEPT ![k] = sent[1][k] + 1]
      /\ sent[1] \in [Kinds -> Nat] /\ top \in Nat
  BY <1>1, <1>2 DEF WorkerTyped, Kinds
<1>4. /\ k = "log" => e = Line(top + 1) /\ sent'[1]["log"] = top + 1
      /\ k # "log" => sent'[1]["log"] = top /\ \A n \in Nat : e # Line(n)
  BY <1>3 DEF Line, Kinds
<1>5. UNCHANGED <<got, replay, chan, state, lost>>
      /\ backlog' = IF k = "log" THEN Newest(Append(backlog, e), BacklogLimit) ELSE backlog
  BY DEF Publish, watcherVars
<1> HIDE DEF e, top
<1>6. ASSUME NEW X, NEW Y, \A n \in Nat : Line(n) \in Y <=> Line(n) \in X \/ (k = "log" /\ n = top + 1),
             \A n, m \in Nat : Line(n) \in X /\ n <= m /\ m <= top => Line(m) \in X
      PROVE  \A n, m \in Nat : Line(n) \in Y /\ n <= m /\ m <= sent'[1]["log"] => Line(m) \in Y
  <2> SUFFICES ASSUME NEW n \in Nat, NEW m \in Nat, Line(n) \in Y, n <= m, m <= sent'[1]["log"]
               PROVE  Line(m) \in Y
    OBVIOUS
  <2>1. CASE k = "log" /\ m = top + 1
    BY <1>6, <2>1
  <2>2. CASE m <= top
    <3>1. Line(n) \in X
      BY <1>3, <1>6, <2>2
    <3> QED
      BY <1>6, <2>2, <3>1
  <2> QED
    BY <1>3, <1>4, <2>1, <2>2
<1>7. \A n \in Nat : Line(n) = Line(top + 1) <=> n = top + 1
  BY <1>3 DEF Line
<1>8. Upward(Elements(backlog))'
  <2>1. CASE k # "log"
    <3>1. backlog' = backlog /\ sent'[1]["log"] = top
      BY <1>4, <1>5, <2>1
    <3>2. \A n, m \in Nat : Line(n) \in Elements(backlog) /\ n <= m /\ m <= sent'[1]["log"] => Line(m) \in Elements(backlog)
      BY <3>1 DEF Upward, top
    <3> QED
      BY <3>1, <3>2 DEF Upward, Elements
  <2>2. CASE k = "log"
    <3> DEFINE a == Append(backlog, e)
               r == Newest(a, BacklogLimit)
               u == sent'[1]["log"]
    <3>1. a \in Seq(Outputs) /\ Elements(a) = Elements(backlog) \cup {Line(top + 1)}
      <4>1. backlog \in Seq(Outputs) /\ e \in Outputs
        BY <1>1, <1>2 DEF BrokerTyped
      <4>2. Append(backlog, e) \in Seq(Outputs)
        BY <4>1, AppendProperties
      <4>3. Elements(Append(backlog, e)) = Elements(backlog) \cup {e}
        BY <4>1, ElementsAppend
      <4> QED
        BY <1>4, <2>2, <4>2, <4>3
    <3>2. \A n, m \in Nat : Line(n) \in Elements(a) /\ n <= m /\ m <= u => Line(m) \in Elements(a)
      <4>1. \A n \in Nat : Line(n) \in Elements(a) <=> Line(n) \in Elements(backlog) \/ (k = "log" /\ n = top + 1)
        BY <1>7, <2>2, <3>1
      <4>2. \A n, m \in Nat : Line(n) \in Elements(backlog) /\ n <= m /\ m <= top => Line(m) \in Elements(backlog)
        BY DEF Upward, top
      <4> QED
        BY <1>6, <4>1, <4>2
    <3>3. Ordered(a)
      <4>1. ASSUME NEW x \in Elements(backlog) PROVE Before(x, e)
        <5>1. x \in Outputs
          BY <1>1, ElementOfSeq DEF BrokerTyped, Elements
        <5>2. x[1] = "log" /\ x[2] \in 1..top
          BY <5>1 DEF Recent, Numbered, top
        <5> QED
          BY <1>3, <1>4, <2>2, <5>2, LineParts DEF Before
      <4> QED
        BY <1>1, <1>2, <4>1, OrderedAppend DEF BrokerTyped, Recent
    <3> HIDE DEF a, u
    <3>4. PICK d \in Nat : Len(a) = Len(r) + d /\ \A i \in 1..Len(r) : r[i] = a[i + d]
      BY <3>1, NewestIsEnd, BrokerAssumption
    <3>5. Len(r) \in Nat /\ Len(a) \in Nat
      BY <3>1, NewestIsEnd, LenProperties, BrokerAssumption
    <3> HIDE DEF r
    <3>6. ASSUME NEW n \in Nat, NEW m \in Nat, Line(n) \in Elements(r), n <= m, m <= u
          PROVE  Line(m) \in Elements(r)
      <4>1. PICK i \in 1..Len(r) : r[i] = Line(n)
        BY <3>6 DEF Elements
      <4>2. i + d \in 1..Len(a) /\ a[i + d] = Line(n)
        BY <3>4, <3>5, <4>1
      <4>3. Line(m) \in Elements(a)
        BY <3>2, <3>6, <4>2 DEF Elements
      <4>4. PICK j \in 1..Len(a) : a[j] = Line(m)
        BY <4>3 DEF Elements
      <4>5. ~(j < i + d)
        <5>1. SUFFICES ASSUME j < i + d PROVE FALSE
          OBVIOUS
        <5>2. Before(Line(m), Line(n))
          BY <3>3, <4>2, <4>4, <5>1 DEF Ordered
        <5> QED
          BY <3>6, <5>2, LineParts DEF Before, Kinds
      <4>6. j - d \in 1..Len(r) /\ (j - d) + d = j
        BY <3>4, <3>5, <4>1, <4>4, <4>5
      <4>7. r[j - d] = Line(m)
        BY <3>4, <4>4, <4>6
      <4> QED
        BY <4>6, <4>7 DEF Elements
    <3>7. backlog' = r
      BY <1>5, <2>2 DEF r, a
    <3> QED
      BY <3>6, <3>7 DEF Upward, Elements, u
  <2> QED
    BY <2>1, <2>2
<1>9. ASSUME NEW t \in Subscribers PROVE Gapless(t)'
  <2>1. All(t)' = All(t) /\ Taken(t)' = Taken(t)
    BY <1>5 DEF All, InAll, Taken, Elements
  <2>2. CASE t \in lost \/ state[t] # "reading"
    BY <1>5, <2>1, <2>2 DEF Gapless, Convex
  <2>3. CASE t \notin lost /\ state[t] = "reading"
    <3>1. Waiting(t)' /\ event'[1] = e
      BY <1>3, <2>3 DEF Waiting, Delivering, Elements, Typed, Listed
    <3>2. Coming(t) = All(t) /\ Coming(t)' = All(t) \cup {e}
      BY <2>1, <3>1 DEF Coming, Waiting
    <3>3. \A n \in Nat : Line(n) \in Coming(t)' <=> Line(n) \in Coming(t) \/ (k = "log" /\ n = top + 1)
      BY <1>4, <1>7, <3>2
    <3>4. Upward(Coming(t))
      BY <2>3 DEF Gapless
    <3>5. Upward(Coming(t))'
      <4>1. \A n, m \in Nat : Line(n) \in Coming(t) /\ n <= m /\ m <= top => Line(m) \in Coming(t)
        BY <3>4 DEF Upward, top
      <4>2. \A n, m \in Nat : Line(n) \in Coming(t)' /\ n <= m /\ m <= sent'[1]["log"] => Line(m) \in Coming(t)'
        BY <1>6, <3>3, <4>1
      <4> QED
        BY <4>2 DEF Upward
    <3> QED
      BY <1>5, <2>3, <3>5 DEF Gapless
  <2> QED
    BY <2>2, <2>3
<1> QED
  BY <1>8, <1>9

LEMMA GaplessByWorker ==
  ASSUME Incarnations = 1, GapInv, NEW t \in Subscribers,
         \/ Start(1) \/ CommitOutcome(1) \/ Fault(1) \/ Published(1) \/ DropRow(1)
         \/ FinishBegins(1) \/ FinishEnds(1) \/ PutSentinel(1)
         \/ Put(1) \/ Evict(1) \/ Retry(1)
  PROVE  Gapless(t)'
<1> USE DEF GapInv, OrderInv
<1>1. Runs = {1} /\ WorkerTyped /\ ChanTyped /\ Gapless(t)
  BY DEF Runs, Typed
<1>2. /\ sent' = sent /\ state'[t] = state[t] /\ lost \subseteq lost'
      /\ got'[t] = got[t] /\ replay'[t] = replay[t]
  BY DEF Start, CommitOutcome, Fault, Published, DropRow, FinishBegins, FinishEnds,
       PutSentinel, Put, Evict, Retry, watcherVars
<1>3. Taken(t)' = Taken(t)
  BY <1>2 DEF Taken, Elements
<1>4. t \in lost' => Gapless(t)'
  BY DEF Gapless
<1>5. (\A n \in Nat : Line(n) \in Coming(t)' <=> Line(n) \in Coming(t)) => Gapless(t)'
  BY <1>1, <1>2, <1>3, GaplessKept
<1>6. chan[t] \in Seq(Events) /\ targets[1] \in Seq(Subscribers)
  BY <1>1 DEF WorkerTyped, ChanTyped
<1>7. chan'[t] = chan[t] => All(t)' = All(t)
  BY <1>2 DEF All, InAll, Elements
<1>8. CASE \/ Start(1) \/ CommitOutcome(1) \/ Fault(1) \/ Published(1) \/ DropRow(1)
           \/ FinishBegins(1) \/ FinishEnds(1)
  <2>1. chan' = chan /\ ~Waiting(t) /\ ~Waiting(t)'
    BY <1>1, <1>8, EmptyStream DEF Start, CommitOutcome, Fault, Published, DropRow, FinishBegins,
         FinishEnds, Goto, WorkerTyped, Waiting, Delivering, Elements
  <2> QED
    BY <1>5, <1>7, <2>1 DEF Coming
<1>9. CASE PutSentinel(1)
  <2>1. /\ ~Waiting(t) /\ ~Waiting(t)'
        /\ chan'[t] = chan[t] \/ chan'[t] = Append(chan[t], Sentinel)
    BY <1>1, <1>9 DEF PutSentinel, Deliver, ChanTyped, Waiting, Delivering
  <2>2. CASE chan'[t] = Append(chan[t], Sentinel)
    <3>1. Elements(chan'[t]) = Elements(chan[t]) \cup {Sentinel}
      BY <1>6, <2>2, ElementsAppend DEF Events
    <3>2. Coming(t) = All(t) /\ Coming(t)' = All(t) \cup {Sentinel}
      BY <1>2, <2>1, <3>1 DEF Coming, All, InAll, Elements
    <3> QED
      BY <1>5, <3>2, LineParts
  <2> QED
    BY <1>5, <1>7, <2>1, <2>2 DEF Coming
<1>10. ASSUME targets[1] # <<>>, targets'[1] = Tail(targets[1]), t # Head(targets[1]),
              Delivering, Delivering', event' = event, chan'[t] = chan[t]
       PROVE  Gapless(t)'
  <2>1. Elements(targets[1]) = {Head(targets[1])} \cup Elements(targets'[1])
    BY <1>6, <1>10, ElementsTail
  <2>2. Waiting(t)' <=> Waiting(t)
    BY <1>10, <2>1 DEF Waiting, Elements
  <2> QED
    BY <1>5, <1>7, <1>10, <2>2 DEF Coming
<1>11. ASSUME targets'[1] = targets[1], Delivering, Delivering', event' = event, chan'[t] = chan[t]
       PROVE  Gapless(t)'
  <2>1. Waiting(t)' <=> Waiting(t)
    BY <1>11 DEF Waiting, Elements
  <2> QED
    BY <1>5, <1>7, <1>11, <2>1 DEF Coming
<1>12. CASE Put(1)
  <2>1. targets[1] # <<>> /\ event' = event /\ at[1] = "putting" /\ Delivering
    BY <1>12 DEF Put, Delivering
  <2>2. CASE UNCHANGED <<chan, targets>> /\ Goto(1, "full")
    <3>1. Delivering'
      BY <1>1, <2>2 DEF Goto, Delivering, WorkerTyped
    <3> QED
      BY <1>11, <2>1, <2>2, <3>1
  <2>3. CASE Deliver(Head(targets[1]), event[1]) /\ NextTarget(1) /\ UNCHANGED at
    <3>1. targets'[1] = Tail(targets[1]) /\ Delivering'
      BY <1>1, <2>1, <2>3 DEF NextTarget, WorkerTyped, Delivering
    <3>2. CASE t = Head(targets[1])
      <4>1. event[1] \in Events /\ chan'[t] = Append(chan[t], event[1])
        BY <1>1, <2>3, <3>2 DEF Deliver, ChanTyped, WorkerTyped
      <4>2. Elements(chan'[t]) = Elements(chan[t]) \cup {event[1]}
        BY <1>6, <4>1, ElementsAppend
      <4>3. Waiting(t) /\ ~Waiting(t)'
        BY <1>6, <2>1, <3>1, <3>2, ElementsTail DEF Waiting, Phases, Elements
      <4>4. Coming(t)' = Coming(t)
        BY <1>2, <4>2, <4>3 DEF Coming, All, InAll, Elements
      <4> QED
        BY <1>5, <4>4
    <3>3. CASE t # Head(targets[1])
      <4>1. chan'[t] = chan[t]
        BY <1>1, <2>3, <3>3 DEF Deliver, ChanTyped
      <4> QED
        BY <1>10, <2>1, <3>1, <3>3, <4>1
    <3> QED
      BY <3>2, <3>3
  <2> QED
    BY <1>12, <2>2, <2>3 DEF Put
<1>13. CASE Evict(1)
  <2>1. /\ targets[1] # <<>> /\ event' = event /\ Delivering /\ Delivering'
        /\ lost' = lost \cup {Head(targets[1])}
        /\ targets'[1] \in {targets[1], Tail(targets[1])}
    BY <1>1, <1>13 DEF Evict, Goto, NextTarget, Delivering, WorkerTyped, Typed, Stages
  <2>2. CASE t = Head(targets[1])
    BY <1>4, <2>1, <2>2
  <2>3. CASE t # Head(targets[1])
    <3>1. chan'[t] = chan[t]
      BY <1>1, <1>13, <2>3 DEF Evict, ChanTyped
    <3> QED
      BY <1>10, <1>11, <2>1, <2>3, <3>1
  <2> QED
    BY <2>2, <2>3
<1>14. CASE Retry(1)
  <2>1. /\ targets[1] # <<>> /\ event' = event /\ Delivering /\ Delivering'
        /\ lost' = lost /\ Head(targets[1]) \in lost
        /\ targets'[1] = Tail(targets[1])
    BY <1>1, <1>14 DEF Retry, Goto, NextTarget, Delivering, WorkerTyped, Typed, Stages, Phases
  <2>2. CASE t = Head(targets[1])
    BY <1>4, <2>1, <2>2
  <2>3. CASE t # Head(targets[1])
    <3>1. chan'[t] = chan[t]
      BY <1>1, <1>14, <2>3 DEF Retry, Deliver, ChanTyped
    <3> QED
      BY <1>10, <2>1, <2>3, <3>1
  <2> QED
    BY <2>2, <2>3
<1> QED
  BY <1>8, <1>9, <1>12, <1>13, <1>14

\* A watcher that is served the backlog only.
LEMMA GaplessParting ==
  ASSUME OrderInv, Upward(Elements(backlog)), NEW t \in Subscribers,
         state[t] \in {"away", "asked"}, sent[1]["log"] \in Nat,
         state'[t] # "reading", got'[t] = got[t], replay'[t] = backlog
  PROVE  Gapless(t)'
<1>1. got'[t] = <<>> /\ Elements(got'[t]) = {}
  BY EmptyStream DEF OrderInv, Watched
<1>2. Taken(t)' = Elements(backlog)
  <2>1. Taken(t)' = Elements(got'[t]) \cup Elements(replay'[t])
    BY DEF Taken, Elements
  <2> QED
    BY <1>1, <2>1
<1>3. ASSUME NEW a \in Nat, NEW b \in Nat, NEW n \in Nat,
             Line(a) \in Elements(backlog), Line(b) \in Elements(backlog), a <= n, n <= b
      PROVE  Line(n) \in Elements(backlog)
  <2>1. Numbered(Elements(backlog) \cup Elements(latest))
    BY DEF OrderInv, Recent
  <2>2. b \in 1..sent[1]["log"]
    BY <1>3, <2>1, LineNumber
  <2>3. n <= sent[1]["log"]
    BY <1>3, <2>2
  <2> QED
    BY <1>3, <2>3 DEF Upward
<1>4. Convex(Taken(t))'
  BY <1>2, <1>3 DEF Convex
<1> QED
  BY <1>4 DEF Gapless

\* And one that will read its channel too, of which the broker knows in the same
\* locked section.
LEMMA GaplessSubscribed ==
  ASSUME OrderInv, Upward(Elements(backlog)), NEW t \in Subscribers,
         state[t] = "asked", UNCHANGED <<sent, targets>>, state'[t] = "reading",
         got'[t] = got[t], chan'[t] = chan[t], replay'[t] = backlog \o latest
  PROVE  Gapless(t)'
<1>1. /\ got'[t] = <<>> /\ chan'[t] = <<>> /\ Elements(<<>>) = {}
      /\ t \notin Elements(targets[1])
  BY EmptyStream DEF OrderInv, Watched
<1>2. Coming(t)' = Elements(backlog \o latest)
  <2>1. All(t)' = Elements(got'[t]) \cup Elements(replay'[t]) \cup Elements(chan'[t])
    BY DEF All, InAll, Elements
  <2>2. ~Waiting(t)'
    BY <1>1 DEF Waiting, Elements
  <2> QED
    BY <1>1, <2>1, <2>2 DEF Coming
<1>3. backlog \in Seq(Outputs) /\ latest \in Seq(Outputs)
  BY DEF OrderInv, Typed, BrokerTyped
<1>4. Elements(backlog \o latest) = Elements(backlog) \cup Elements(latest)
  BY <1>3, ElementsConcat
<1>5. \A n \in Nat : Line(n) \in Elements(backlog \o latest) <=> Line(n) \in Elements(backlog)
  BY <1>4, LineParts DEF OrderInv, Recent
<1>6. Upward(Coming(t))'
  <2>1. \A n, m \in Nat : Line(n) \in Coming(t)' /\ n <= m /\ m <= sent'[1]["log"] => Line(m) \in Coming(t)'
    BY <1>2, <1>5 DEF Upward
  <2> QED
    BY <2>1 DEF Upward
<1> QED
  BY <1>6 DEF Gapless

LEMMA GaplessByWatcher ==
  ASSUME Incarnations = 1, GapInv, NEW s \in Subscribers,
         (\E g \in Runs : Ask(s, g)) \/ WatcherStep(s) \/ Leave(s),
         NEW t \in Subscribers
  PROVE  Gapless(t)'
<1> USE DEF GapInv
<1>1. /\ Runs = {1} /\ WatcherTyped /\ ChanTyped /\ Gapless(t) /\ Watched(t) /\ OrderInv
      /\ sent[1]["log"] \in Nat
  BY DEF Runs, OrderInv, Typed, WorkerTyped, Kinds
<1>2. UNCHANGED workerVars /\ UNCHANGED lost
  BY DEF Ask, WatcherStep, Subscribe, Replay, PartingEnds, Get, Leave
<1>3. /\ UNCHANGED <<sent, targets, event, at, lost>>
      /\ Waiting(t)' <=> Waiting(t)
  BY <1>2 DEF workerVars, Waiting, Delivering, Elements
<1>4. All(t)' = All(t) /\ Taken(t)' = Taken(t) /\ state'[t] = state[t] => Gapless(t)'
  <2> SUFFICES ASSUME All(t)' = All(t), Taken(t)' = Taken(t), state'[t] = state[t]
               PROVE  Gapless(t)'
    OBVIOUS
  <2>1. Coming(t)' = Coming(t)
    BY <1>3 DEF Coming
  <2> QED
    BY <1>1, <1>3, <2>1, GaplessKept
<1>5. got'[t] = got[t] /\ replay'[t] = replay[t] /\ state'[t] # "reading" => Gapless(t)'
  BY <1>1, <1>3, GaplessStopped
<1>6. CASE t # s
  <2>1. SameEvents(t) /\ state'[t] = state[t]
    BY <1>1, <1>6 DEF Ask, WatcherStep, Subscribe, Replay, PartingEnds, Get, Leave, Yield,
         SameEvents, WatcherTyped, ChanTyped
  <2>2. All(t)' = All(t) /\ Taken(t)' = Taken(t)
    BY <2>1 DEF SameEvents, All, InAll, Taken, Elements
  <2> QED
    BY <1>4, <2>1, <2>2
<1>7. CASE t = s /\ Ask(s, 1)
  <2>1. CASE row[1] = "active"
    BY <1>1, <1>5, <1>7, <2>1 DEF Ask, WatcherTyped
  <2>2. CASE row[1] = "over"
    <3>1. /\ state[t] = "away" /\ state'[t] = "parting" /\ replay'[t] = backlog
          /\ got'[t] = got[t]
      BY <1>1, <1>7, <2>2 DEF Ask, WatcherTyped
    <3> QED
      BY <1>1, <3>1, GaplessParting
  <2> QED
    BY <1>7, <2>1, <2>2 DEF Ask
<1>8. CASE t = s /\ Subscribe(s)
  <2>1. /\ state[t] = "asked" /\ got'[t] = got[t] /\ chan'[t] = chan[t]
        /\ \/ state'[t] = "parting" /\ replay'[t] = backlog
           \/ state'[t] = "reading" /\ replay'[t] = backlog \o latest
    BY <1>1, <1>8 DEF Subscribe, WatcherTyped
  <2>2. CASE state'[t] = "parting" /\ replay'[t] = backlog
    BY <1>1, <2>1, <2>2, GaplessParting
  <2>3. CASE state'[t] = "reading" /\ replay'[t] = backlog \o latest
    BY <1>1, <1>3, <2>1, <2>3, GaplessSubscribed
  <2> QED
    BY <2>1, <2>2, <2>3
<1>9. CASE t = s /\ Replay(s)
  <2>1. /\ replay[t] \in Seq(Outputs) /\ replay[t] # <<>> /\ got[t] \in Seq(Outputs)
        /\ chan[t] \in Seq(Events)
        /\ got'[t] = Append(got[t], Head(replay[t])) /\ replay'[t] = Tail(replay[t])
        /\ chan'[t] = chan[t] /\ state'[t] = state[t]
    BY <1>1, <1>9 DEF Replay, Yield, WatcherTyped, ChanTyped
  <2>2. /\ Elements(replay[t]) = {Head(replay[t])} \cup Elements(replay'[t])
        /\ Elements(got'[t]) = Elements(got[t]) \cup {Head(replay[t])}
    BY <2>1, HeadTailProperties, ElementsTail, ElementsAppend
  <2>3. All(t)' = All(t) /\ Taken(t)' = Taken(t)
    BY <2>1, <2>2 DEF All, InAll, Taken, Elements
  <2> QED
    BY <1>4, <2>1, <2>3
<1>10. CASE t = s /\ PartingEnds(s)
  BY <1>1, <1>5, <1>10 DEF PartingEnds, WatcherTyped
<1>11. CASE t = s /\ Get(s)
  <2>1. /\ chan[t] \in Seq(Events) /\ chan[t] # <<>> /\ got[t] \in Seq(Outputs)
        /\ replay'[t] = replay[t] /\ chan'[t] = Tail(chan[t]) /\ state[t] = "reading"
    BY <1>1, <1>11 DEF Get, WatcherTyped, ChanTyped
  <2>2. Head(chan[t]) \in Events /\ Elements(chan[t]) = {Head(chan[t])} \cup Elements(chan'[t])
    BY <2>1, HeadTailProperties, ElementsTail
  <2>3. CASE Head(chan[t]) # Sentinel /\ Yield(t, Head(chan[t])) /\ UNCHANGED state
    <3>1. Head(chan[t]) \in Outputs /\ got'[t] = Append(got[t], Head(chan[t]))
      BY <1>1, <2>2, <2>3, OutputParts DEF Yield, WatcherTyped
    <3>2. Elements(got'[t]) = Elements(got[t]) \cup {Head(chan[t])}
      BY <2>1, <3>1, ElementsAppend
    <3>3. All(t)' = All(t)
      BY <2>1, <2>2, <3>2 DEF All, InAll, Elements
    <3>4. Coming(t)' = Coming(t)
      BY <1>3, <3>3 DEF Coming
    <3> QED
      BY <1>1, <1>3, <2>1, <2>3, <3>4, GaplessKept
  <2>4. CASE Head(chan[t]) = Sentinel /\ state' = [state EXCEPT ![t] = "ended"] /\ UNCHANGED got
    BY <1>1, <1>5, <2>1, <2>4 DEF WatcherTyped
  <2> QED
    BY <1>11, <2>3, <2>4 DEF Get
<1>12. CASE t = s /\ Leave(s)
  BY <1>1, <1>5, <1>12 DEF Leave, WatcherTyped
<1> QED
  BY <1>1, <1>6, <1>7, <1>8, <1>9, <1>10, <1>11, <1>12 DEF WatcherStep

LEMMA GapStep == ASSUME Incarnations = 1 PROVE GapInv /\ [Next]_vars => GapInv'
<1> SUFFICES ASSUME GapInv, [Next]_vars PROVE GapInv'
  OBVIOUS
<1>1. OrderInv' /\ Runs = {1}
  BY OrderStep DEF GapInv, Runs
<1>2. CASE PublishOutcome(1) \/ \E k \in Kinds : PublishOutput(1, k)
  <2>1. PICK k \in Kinds : Publish(1, k)
    BY <1>2 DEF PublishOutcome, PublishOutput, Kinds
  <2>2. ~Delivering
    BY <1>2 DEF PublishOutcome, PublishOutput, Delivering
  <2> QED
    BY <1>1, <2>1, <2>2, GaplessPublish DEF GapInv
<1>3. CASE ~(PublishOutcome(1) \/ \E k \in Kinds : PublishOutput(1, k))
  <2>1. sent' = sent /\ (backlog' = backlog \/ backlog' = <<>>)
    BY <1>1, <1>3 DEF Next, WorkerStep, WatcherStep, Start, CommitOutcome, Fault, DropRow,
         Put, Evict, Retry, Published, FinishBegins, PutSentinel, FinishEnds,
         Ask, Subscribe, Replay, PartingEnds, Get, Leave, brokerVars, workerVars, vars
  <2>2. Upward(Elements(backlog))'
    <3>1. Elements(backlog') \in {Elements(backlog), {}}
      BY <2>1, EmptyStream
    <3>2. \A n, m \in Nat : Line(n) \in Elements(backlog') /\ n <= m /\ m <= sent'[1]["log"]
              => Line(m) \in Elements(backlog')
      BY <2>1, <3>1 DEF GapInv, Upward
    <3> QED
      BY <3>2 DEF Upward, Elements
  <2>3. ASSUME NEW t \in Subscribers PROVE Gapless(t)'
    <3>1. CASE UNCHANGED vars
      <4>1. Gapless(t) /\ UNCHANGED <<sent, state, lost, got, replay, chan, at, targets, event>>
        BY <3>1 DEF GapInv, vars, workerVars, watcherVars
      <4>2. Coming(t)' = Coming(t) /\ Taken(t)' = Taken(t)
        BY <4>1 DEF Coming, All, InAll, Taken, Waiting, Delivering, Elements
      <4> QED
        BY <4>1, <4>2, GaplessKept
    <3>2. CASE Next
      BY <1>1, <1>3, <3>2, GaplessByWatcher, GaplessByWorker DEF Next, WorkerStep
    <3> QED
      BY <3>1, <3>2
  <2> QED
    BY <1>1, <2>2, <2>3 DEF GapInv
<1> QED
  BY <1>2, <1>3

\* A watcher misses a line between two others only if its queue overflowed: not
\* between the backlog it is served and its channel, which the broker sets up in
\* one locked section, nor while events are put into the channels one by one.
THEOREM GapsExplained == ASSUME Incarnations = 1 PROVE Spec => []GapsOnlyFromOverflow
<1>1. GapInv => GapsOnlyFromOverflow
  <2> SUFFICES ASSUME GapInv, NEW s \in Subscribers \ lost,
                      NEW i \in 1..Len(got[s]), NEW j \in 1..Len(got[s]),
                      i < j, got[s][i][1] = "log", got[s][j][1] = "log",
                      \A m \in (i + 1)..(j - 1) : got[s][m][1] # "log"
               PROVE  got[s][j][2] = got[s][i][2] + 1
    BY DEF GapsOnlyFromOverflow
  <2>1. Watched(s) /\ Gapless(s) /\ got[s] \in Seq(Outputs) /\ sent[1]["log"] \in Nat
    BY DEF GapInv, OrderInv, Typed, WorkerTyped, WatcherTyped, Runs, Kinds
  <2>2. Convex(Taken(s))
    BY <2>1, ReadersHaveNoGap DEF Gapless
  <2> DEFINE a == got[s][i][2]
             b == got[s][j][2]
  <2>3. Len(got[s]) \in Nat /\ got[s][i] \in Outputs /\ got[s][j] \in Outputs
    BY <2>1, ElementOfSeq, LenProperties
  <2>4. a \in Nat /\ b \in Nat /\ got[s][i] = Line(a) /\ got[s][j] = Line(b)
    BY <2>3 DEF Outputs, Line
  <2> HIDE DEF a, b
  <2>5. Line(a) \in Elements(got[s]) /\ Line(b) \in Elements(got[s])
    BY <2>4 DEF Elements
  <2>6. Ordered(got[s]) /\ Earlier(got[s], replay[s])
    BY <2>1 DEF Watched, Stream
  <2>7. a < b
    <3>1. Before(Line(a), Line(b))
      BY <2>4, <2>6 DEF Ordered
    <3> QED
      BY <2>4, <3>1, LineParts DEF Before, Kinds
  <2>8. ASSUME b # a + 1 PROVE FALSE
    <3>1. a + 1 \in Nat /\ a < a + 1 /\ a + 1 < b
      BY <2>4, <2>7, <2>8
    <3>2. Line(a + 1) \in Taken(s)
      BY <2>2, <2>4, <2>5, <3>1 DEF Convex, Taken
    <3>3. Line(a + 1) \notin Elements(replay[s])
      <4>1. SUFFICES ASSUME Line(a + 1) \in Elements(replay[s]) PROVE FALSE
        OBVIOUS
      <4>2. Before(Line(b), Line(a + 1))
        BY <2>5, <2>6, <4>1 DEF Earlier
      <4> QED
        BY <2>4, <3>1, <4>2, LineParts DEF Before, Kinds
    <3>4. PICK m \in 1..Len(got[s]) : got[s][m] = Line(a + 1)
      BY <3>2, <3>3 DEF Taken, Elements
    <3>5. ~(m <= i)
      <4>1. m # i
        BY <2>4, <3>1, <3>4, LineParts
      <4>2. ~(m < i)
        <5>1. SUFFICES ASSUME m < i PROVE FALSE
          OBVIOUS
        <5>2. Before(Line(a + 1), Line(a))
          BY <2>4, <2>6, <3>4, <5>1 DEF Ordered
        <5> QED
          BY <2>4, <3>1, <5>2, LineParts DEF Before, Kinds
      <4> QED
        BY <2>3, <4>1, <4>2
    <3>6. ~(m >= j)
      <4>1. m # j
        BY <2>4, <3>1, <3>4, LineParts
      <4>2. ~(j < m)
        <5>1. SUFFICES ASSUME j < m PROVE FALSE
          OBVIOUS
        <5>2. Before(Line(b), Line(a + 1))
          BY <2>4, <2>6, <3>4, <5>1 DEF Ordered
        <5> QED
          BY <2>4, <3>1, <5>2, LineParts DEF Before, Kinds
      <4> QED
        BY <2>3, <4>1, <4>2
    <3>7. m \in (i + 1)..(j - 1)
      BY <2>3, <3>5, <3>6
    <3> QED
      BY <3>1, <3>4, <3>7, LineParts
  <2> QED
    BY <2>4, <2>8 DEF a, b
<1> QED
  BY <1>1, GapInit, GapStep, PTL DEF Spec
=============================================================================
