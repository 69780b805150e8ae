------------------------------- MODULE MCUpkeep -------------------------------
(* The jobs of the upkeep run and the settings they are saved with. *)
EXTENDS Upkeep

Setting(root, peer, both, base, slug, flat, days) ==
    [root |-> root, peer |-> peer, both |-> both, base |-> base,
     slug |-> slug, flat |-> flat, days |-> days]

\* A job whose name, retention, direction, base and layout change (it may have been
\* imported bidirectional, with the second of its settings), and one whose name
\* comes to the same slug under the common base.
MCConfigs ==
    [j1 |-> {Setting("r1", "r2", FALSE, "beside", "a", FALSE, 1),
             Setting("r2", "r3", TRUE, "shared", "a", FALSE, 2),
             Setting("r1", "r2", FALSE, "beside", "b", TRUE, 1)},
     j2 |-> {Setting("r2", "r1", FALSE, "shared", "a", FALSE, 1)}]

\* The first runs twice, the other perhaps in the same second as one of these.
MCShifts == [j1 |-> {1, 2}, j2 |-> {1}]
=============================================================================
