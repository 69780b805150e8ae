----------------------------- MODULE RunStream -----------------------------
(***************************************************************************)
(* What a watcher of a run is promised: each kind of output in the order   *)
(* it was produced and never twice, perhaps with some left out, and no end *)
(* before the run has ended.                                               *)
(***************************************************************************)
EXTENDS Naturals, Sequences

CONSTANTS
    Subscribers, \* the watchers
    Kinds        \* the kinds of output: log lines and progress figures

VARIABLES
    sent,  \* how many events of each kind the run has produced
    over,  \* the run has ended
    got,   \* what each watcher received, <<kind, number>> by <<kind, number>>
    ended  \* the watchers whose stream has ended

vars == <<sent, over, got, ended>>

Init ==
    /\ sent = [k \in Kinds |-> 0]
    /\ over = FALSE
    /\ got = [s \in Subscribers |-> <<>>]
    /\ ended = {}

\* The run may still say how it ended once it has.
Produce(k) ==
    /\ sent' = [sent EXCEPT ![k] = @ + 1]
    /\ UNCHANGED <<over, got, ended>>

End ==
    /\ ~over
    /\ over' = TRUE
    /\ UNCHANGED <<sent, got, ended>>

\* A watcher receives something newer than all it has of that kind.
Receive(s, k, n) ==
    /\ s \notin ended
    /\ n <= sent[k]
    /\ \A i \in 1..Len(got[s]) : got[s][i][1] = k => got[s][i][2] < n
    /\ got' = [got EXCEPT ![s] = Append(@, <<k, n>>)]
    /\ UNCHANGED <<sent, over, ended>>

Finish(s) ==
    /\ over
    /\ ended' = ended \cup {s}
    /\ UNCHANGED <<sent, over, got>>

Next ==
    \/ \E k \in Kinds : Produce(k)
    \/ End
    \/ \E s \in Subscribers : \/ \E k \in Kinds : \E n \in 1..sent[k] : Receive(s, k, n)
                              \/ Finish(s)

Spec == Init /\ [][Next]_vars
=============================================================================
