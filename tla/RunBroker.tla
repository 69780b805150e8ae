----------------------------- MODULE RunBroker -----------------------------
(***************************************************************************)
(* RunBroker: how the output of one run id reaches the browsers that watch *)
(* it.  The worker publishes and finishes, each watcher replays the        *)
(* backlog and then reads a bounded queue of its own.  The lock covers the *)
(* dictionaries only; the queues are filled outside it, one by one.        *)
(*                                                                         *)
(* SQLite gives the id of a deleted newest row out again, so there may be  *)
(* several incarnations of the run id, each with its own worker, all on    *)
(* the one broker.                                                         *)
(***************************************************************************)
EXTENDS Naturals, Sequences

CONSTANTS
    Subscribers,   \* requests to GET /api/runs/{id}/stream
    QueueSize,     \* _QUEUE_SIZE
    BacklogLimit,  \* _backlog_limit
    Incarnations,  \* bound: how many runs get the id, one after the other
    MaxLines,      \* bound: how many lines a run publishes before its outcome
    MaxStats,      \* bound: and how many progress figures
    Outcomes       \* how runs end: "success", "failed", "fault" (an unexpected exception)

ASSUME BrokerAssumption ==
    /\ QueueSize \in Nat \ {0}
    /\ BacklogLimit \in Nat \ {0}
    /\ Incarnations \in Nat \ {0}
    /\ MaxLines \in Nat
    /\ MaxStats \in Nat
    /\ Outcomes \subseteq {"success", "failed", "fault"}

Runs == 1..Incarnations

\* An event is <<kind, number>>; the log carries the lines, the statuses and
\* the "done" a successful run ends with.  None is the end of the stream.
Kinds    == {"log", "stats"}
Sentinel == <<"end", 0>>

VARIABLES
    row,         \* per incarnation: "none", "active", "over" (outcome committed) or "deleted"
    outcome,     \* how an incarnation ends, "none" until it does
    at,          \* where its worker is
    sent,        \* how many events of each kind it has published
    event,       \* what its worker is handing out
    targets,     \* the watchers whose channel has yet to get it, in order
    finishes,    \* how often its worker has called finish
    subscribers, \* _subscribers[run_id], a list
    backlog,     \* _backlog[run_id]
    latest,      \* _latest_stats[run_id], a sequence of at most one
    finished,    \* run_id in _finished
    state,       \* where a watcher is
    of,          \* the incarnation a watcher asked for
    replay,      \* what a watcher yields before it reads its channel
    chan,        \* the queue of a watcher
    got,         \* what a watcher has received
    lost         \* the watchers whose queue overflowed

workerVars  == <<row, outcome, at, sent, event, targets, finishes>>
brokerVars  == <<subscribers, backlog, latest, finished>>
watcherVars == <<state, of, replay, got>>
vars == <<workerVars, brokerVars, watcherVars, chan, lost>>

Ats    == {"unborn", "busy", "putting", "full", "evicted", "committed",
           "leaving", "ending", "gone"}
States == {"away", "asked", "reading", "parting", "ended", "left"}

Init ==
    /\ row = [g \in Runs |-> "none"]
    /\ outcome = [g \in Runs |-> "none"]
    /\ at = [g \in Runs |-> "unborn"]
    /\ sent = [g \in Runs |-> [k \in Kinds |-> 0]]
    /\ event = [g \in Runs |-> Sentinel]
    /\ targets = [g \in Runs |-> <<>>]
    /\ finishes = [g \in Runs |-> 0]
    /\ subscribers = <<>>
    /\ backlog = <<>>
    /\ latest = <<>>
    /\ finished = FALSE
    /\ state = [s \in Subscribers |-> "away"]
    /\ of = [s \in Subscribers |-> 0]
    /\ replay = [s \in Subscribers |-> <<>>]
    /\ chan = [s \in Subscribers |-> <<>>]
    /\ got = [s \in Subscribers |-> <<>>]
    /\ lost = {}

-----------------------------------------------------------------------------
(* The worker of an incarnation. *)

Goto(g, l) == at' = [at EXCEPT ![g] = l]

\* The run is created, and gets the id if the row that had it is deleted.
Start(g) ==
    /\ at[g] = "unborn"
    /\ \A h \in 1..(g - 1) : row[h] = "deleted"
    /\ row' = [row EXCEPT ![g] = "active"]
    /\ Goto(g, "busy")
    /\ UNCHANGED <<outcome, sent, event, targets, finishes, brokerVars, watcherVars, chan, lost>>

\* The last n elements of a sequence.
Newest(q, n) == IF Len(q) <= n THEN q ELSE SubSeq(q, Len(q) - n + 1, Len(q))

Hand(g, e, ss) ==
    /\ event' = [event EXCEPT ![g] = e]
    /\ targets' = [targets EXCEPT ![g] = ss]

\* Mutant: no backlog for a run somebody watches.
PublishUnrecorded(g, k) ==
    /\ LET e == <<k, sent[g][k] + 1>>
       IN  /\ sent' = [sent EXCEPT ![g][k] = @ + 1]
           /\ Hand(g, e, subscribers)
           /\ latest' = IF k = "stats" THEN <<e>> ELSE latest
           /\ backlog' = IF k = "log" /\ subscribers = <<>>
                         THEN Newest(Append(backlog, e), BacklogLimit) ELSE backlog
    /\ Goto(g, "putting")
    /\ UNCHANGED <<finishes, subscribers, finished, watcherVars, chan, lost>>

\* publish's locked section: remember the event, copy who is to get it.
Publish(g, k) ==
    /\ LET e == <<k, sent[g][k] + 1>>
       IN  /\ sent' = [sent EXCEPT ![g][k] = @ + 1]
           /\ Hand(g, e, subscribers)
           /\ latest' = IF k = "stats" THEN <<e>> ELSE latest
           /\ backlog' = IF k = "log" THEN Newest(Append(backlog, e), BacklogLimit) ELSE backlog
    /\ Goto(g, "putting")
    /\ UNCHANGED <<finishes, subscribers, finished, watcherVars, chan, lost>>

\* While it works a run publishes lines and progress.
PublishOutput(g, k) ==
    /\ at[g] = "busy"
    /\ sent[g][k] < IF k = "log" THEN MaxLines ELSE MaxStats
    /\ Publish(g, k)
    /\ UNCHANGED <<row, outcome>>

CommitOutcome(g) ==
    /\ at[g] = "busy"
    /\ \E o \in Outcomes \ {"fault"} : outcome' = [outcome EXCEPT ![g] = o]
    /\ row' = [row EXCEPT ![g] = "over"]
    /\ Goto(g, "committed")
    /\ UNCHANGED <<sent, event, targets, finishes, brokerVars, watcherVars, chan, lost>>

\* Then it says so: "done", or the status that tells why not.
PublishOutcome(g) ==
    /\ at[g] = "committed"
    /\ Publish(g, "log")
    /\ UNCHANGED <<row, outcome>>

\* An exception nobody expected: run_now's finally calls finish, and so does
\* _guarded.  The row still says running.
Fault(g) ==
    /\ "fault" \in Outcomes
    /\ at[g] = "busy"
    /\ outcome' = [outcome EXCEPT ![g] = "fault"]
    /\ Goto(g, "leaving")
    /\ UNCHANGED <<row, sent, event, targets, finishes, brokerVars, watcherVars, chan, lost>>

Deliver(s, e) == chan' = [chan EXCEPT ![s] = Append(@, e)]
HasRoom(s) == Len(chan[s]) < QueueSize
NextTarget(g) == targets' = [targets EXCEPT ![g] = Tail(@)]

\* put_nowait into the next channel.
Put(g) ==
    /\ at[g] = "putting" /\ targets[g] # <<>>
    /\ LET s == Head(targets[g])
       IN  \/ /\ HasRoom(s)
              /\ Deliver(s, event[g])
              /\ NextTarget(g)
              /\ UNCHANGED at
           \/ /\ ~HasRoom(s)
              /\ Goto(g, "full")
              /\ UNCHANGED <<chan, targets>>
    /\ UNCHANGED <<row, outcome, sent, event, finishes, brokerVars, watcherVars, lost>>

\* The queue was full: drop the oldest.  If the watcher has emptied it in the
\* meantime the event itself is dropped.
Evict(g) ==
    /\ at[g] = "full"
    /\ LET s == Head(targets[g])
       IN  /\ \/ /\ chan[s] # <<>>
                 /\ chan' = [chan EXCEPT ![s] = Tail(@)]
                 /\ Goto(g, "evicted")
                 /\ UNCHANGED targets
              \/ /\ chan[s] = <<>>
                 /\ Goto(g, "putting")
                 /\ NextTarget(g)
                 /\ UNCHANGED chan
           /\ lost' = lost \cup {s}
    /\ UNCHANGED <<row, outcome, sent, event, finishes, brokerVars, watcherVars>>

\* Mutant: the loop does not advance after a retry.
RetryStays(g) ==
    /\ at[g] = "evicted"
    /\ LET s == Head(targets[g])
       IN  IF HasRoom(s) THEN Deliver(s, event[g]) ELSE UNCHANGED chan
    /\ Goto(g, "putting")
    /\ UNCHANGED <<row, outcome, sent, event, targets, finishes, brokerVars, watcherVars, lost>>

\* And retry once.
Retry(g) ==
    /\ at[g] = "evicted"
    /\ LET s == Head(targets[g])
       IN  IF HasRoom(s) THEN Deliver(s, event[g]) ELSE UNCHANGED chan
    /\ NextTarget(g)
    /\ Goto(g, "putting")
    /\ UNCHANGED <<row, outcome, sent, event, finishes, brokerVars, watcherVars, lost>>

Published(g) ==
    /\ at[g] = "putting" /\ targets[g] = <<>>
    /\ Goto(g, IF outcome[g] = "none" THEN "busy" ELSE "leaving")
    /\ UNCHANGED <<row, outcome, sent, event, targets, finishes, brokerVars, watcherVars, chan, lost>>

\* A quiet continuous cycle deletes its row before finally runs.
DropRow(g) ==
    /\ at[g] = "leaving" /\ outcome[g] = "success" /\ row[g] = "over"
    /\ row' = [row EXCEPT ![g] = "deleted"]
    /\ UNCHANGED <<outcome, at, sent, event, targets, finishes, brokerVars, watcherVars, chan, lost>>

\* finish's first locked section.
FinishBegins(g) ==
    /\ at[g] = "leaving"
    /\ finishes' = [finishes EXCEPT ![g] = @ + 1]
    /\ Hand(g, Sentinel, subscribers)
    /\ Goto(g, "ending")
    /\ UNCHANGED <<row, outcome, sent, brokerVars, watcherVars, chan, lost>>

\* Mutant: the loop returns after the first channel.
PutSentinelOnce(g) ==
    /\ at[g] = "ending" /\ targets[g] # <<>>
    /\ LET s == Head(targets[g])
       IN  IF HasRoom(s) THEN Deliver(s, Sentinel) ELSE UNCHANGED chan
    /\ targets' = [targets EXCEPT ![g] = <<>>]
    /\ UNCHANGED <<row, outcome, at, sent, event, finishes, brokerVars, watcherVars, lost>>

\* The sentinel is put without a retry.
PutSentinel(g) ==
    /\ at[g] = "ending" /\ targets[g] # <<>>
    /\ LET s == Head(targets[g])
       IN  IF HasRoom(s) THEN Deliver(s, Sentinel) ELSE UNCHANGED chan
    /\ NextTarget(g)
    /\ UNCHANGED <<row, outcome, at, sent, event, finishes, brokerVars, watcherVars, lost>>

\* finish's second locked section.
FinishEnds(g) ==
    /\ at[g] = "ending" /\ targets[g] = <<>>
    /\ backlog' = <<>>
    /\ latest' = <<>>
    /\ finished' = TRUE
    /\ Goto(g, IF outcome[g] = "fault" /\ finishes[g] = 1 THEN "leaving" ELSE "gone")
    /\ UNCHANGED <<row, outcome, sent, event, targets, finishes, subscribers, watcherVars, chan, lost>>

-----------------------------------------------------------------------------
(* A watcher: the request, then subscribe(), a generator. *)

\* stream_run reads the status of the row.  For a run that is not active it
\* serves the backlog, without subscribing.
Ask(s, g) ==
    /\ state[s] = "away"
    /\ row[g] \in {"active", "over"}
    /\ of' = [of EXCEPT ![s] = g]
    /\ \/ /\ row[g] = "active"
          /\ state' = [state EXCEPT ![s] = "asked"]
          /\ UNCHANGED replay
       \/ /\ row[g] = "over"
          /\ state' = [state EXCEPT ![s] = "parting"]
          /\ replay' = [replay EXCEPT ![s] = backlog]
    /\ UNCHANGED <<workerVars, brokerVars, got, chan, lost>>

\* subscribe's locked section: either the backlog holds an event already or the
\* channel will get it.
Subscribe(s) ==
    /\ state[s] = "asked"
    /\ \/ /\ finished
          /\ state' = [state EXCEPT ![s] = "parting"]
          /\ replay' = [replay EXCEPT ![s] = backlog]
          /\ UNCHANGED subscribers
       \/ /\ ~finished
          /\ state' = [state EXCEPT ![s] = "reading"]
          /\ replay' = [replay EXCEPT ![s] = backlog \o latest]
          /\ subscribers' = Append(subscribers, s)
    /\ UNCHANGED <<workerVars, of, backlog, latest, finished, got, chan, lost>>

Yield(s, e) == got' = [got EXCEPT ![s] = Append(@, e)]

Elements(q) == {q[i] : i \in 1..Len(q)}

\* The finally of subscribe: the channel is taken out of the list, if it is there.
Unsubscribe(s) ==
    \/ /\ s \notin Elements(subscribers)
       /\ UNCHANGED subscribers
    \/ \E i \in 1..Len(subscribers) :
          /\ subscribers[i] = s
          /\ subscribers' = SubSeq(subscribers, 1, i - 1)
                            \o SubSeq(subscribers, i + 1, Len(subscribers))

Replay(s) ==
    /\ state[s] \in {"reading", "parting"} /\ replay[s] # <<>>
    /\ Yield(s, Head(replay[s]))
    /\ replay' = [replay EXCEPT ![s] = Tail(@)]
    /\ UNCHANGED <<workerVars, brokerVars, state, of, chan, lost>>

PartingEnds(s) ==
    /\ state[s] = "parting" /\ replay[s] = <<>>
    /\ state' = [state EXCEPT ![s] = "ended"]
    /\ UNCHANGED <<workerVars, brokerVars, of, replay, got, chan, lost>>

\* Mutant: no finally, so the channel stays in the list.
GetKeepsChannel(s) ==
    /\ state[s] = "reading" /\ replay[s] = <<>>
    /\ chan[s] # <<>>
    /\ chan' = [chan EXCEPT ![s] = Tail(@)]
    /\ \/ /\ Head(chan[s]) # Sentinel
          /\ Yield(s, Head(chan[s]))
          /\ UNCHANGED state
       \/ /\ Head(chan[s]) = Sentinel
          /\ state' = [state EXCEPT ![s] = "ended"]
          /\ UNCHANGED got
    /\ UNCHANGED <<workerVars, brokerVars, of, replay, lost>>

\* channel.get: an event, or the end.
Get(s) ==
    /\ state[s] = "reading" /\ replay[s] = <<>>
    /\ chan[s] # <<>>
    /\ chan' = [chan EXCEPT ![s] = Tail(@)]
    /\ \/ /\ Head(chan[s]) # Sentinel
          /\ Yield(s, Head(chan[s]))
          /\ UNCHANGED <<state, subscribers>>
       \/ /\ Head(chan[s]) = Sentinel
          /\ state' = [state EXCEPT ![s] = "ended"]
          /\ Unsubscribe(s)
          /\ UNCHANGED got
    /\ UNCHANGED <<workerVars, backlog, latest, finished, of, replay, lost>>

\* The browser goes away; the next line or ping finds out.
Leave(s) ==
    /\ state[s] \in {"asked", "reading", "parting"}
    /\ state' = [state EXCEPT ![s] = "left"]
    /\ Unsubscribe(s)
    /\ UNCHANGED <<workerVars, backlog, latest, finished, of, replay, got, chan, lost>>

-----------------------------------------------------------------------------
WorkerStep(g) ==
    \/ PublishOutcome(g)
    \/ Put(g)
    \/ Evict(g)
    \/ Retry(g)
    \/ Published(g)
    \/ FinishBegins(g)
    \/ PutSentinel(g)
    \/ FinishEnds(g)

WatcherStep(s) == Subscribe(s) \/ Replay(s) \/ PartingEnds(s) \/ Get(s)

Next ==
    \/ \E g \in Runs : \/ Start(g)
                       \/ \E k \in Kinds : PublishOutput(g, k)
                       \/ CommitOutcome(g)
                       \/ Fault(g)
                       \/ DropRow(g)
                       \/ WorkerStep(g)
    \/ \E s \in Subscribers : \/ \E g \in Runs : Ask(s, g)
                              \/ WatcherStep(s)
                              \/ Leave(s)

Spec == Init /\ [][Next]_vars

\* The worker's thread and the watchers' requests go on; whether a run comes to
\* an end is not the broker's business.
FairSpec ==
    /\ Spec
    /\ \A g \in Runs : WF_vars(WorkerStep(g))
    /\ \A s \in Subscribers : WF_vars(WatcherStep(s))

-----------------------------------------------------------------------------
\* The types of the variables; a queue never exceeds its size, and a watcher is
\* in the broker's list exactly while it reads.
TypeOK ==
    /\ row \in [Runs -> {"none", "active", "over", "deleted"}]
    /\ outcome \in [Runs -> {"none", "success", "failed", "fault"}]
    /\ at \in [Runs -> Ats]
    /\ sent \in [Runs -> [Kinds -> Nat]]
    /\ finishes \in [Runs -> 0..2]
    /\ \A g \in Runs : Elements(targets[g]) \subseteq Subscribers
    /\ \A s \in Subscribers : s \in Elements(subscribers) <=> state[s] = "reading"
    /\ Len(backlog) <= BacklogLimit /\ Len(latest) <= 1
    /\ finished \in BOOLEAN
    /\ state \in [Subscribers -> States]
    /\ of \in [Subscribers -> Runs \cup {0}]
    /\ \A s \in Subscribers : Len(chan[s]) <= QueueSize
    /\ lost \subseteq Subscribers

\* What a watcher of the first incarnation gets is what RunStream promises.
Promised == INSTANCE RunStream WITH
    sent <- sent[1],
    over <- outcome[1] # "none",
    ended <- {s \in Subscribers : state[s] = "ended"}
StreamAsPromised == Promised!Spec

\* A watcher misses a line between two others only if its queue overflowed.
GapsOnlyFromOverflow ==
    \A s \in Subscribers \ lost :
        \A i, j \in 1..Len(got[s]) :
            /\ i < j /\ got[s][i][1] = "log" /\ got[s][j][1] = "log"
            /\ \A m \in (i + 1)..(j - 1) : got[s][m][1] # "log"
            => got[s][j][2] = got[s][i][2] + 1

\* Who is listening, with room in the queue, when finish looks for listeners
\* comes to the end of the stream.
ListenersEnd ==
    \A s \in Subscribers : \A g \in Runs :
        at[g] = "ending" /\ s \in Elements(targets[g]) /\ HasRoom(s)
            ~> state[s] \in {"ended", "left"}
=============================================================================
