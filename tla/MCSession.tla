---- MODULE MCSession ----
(* Instance of Session for TLC: a window of three bits, counters that go   *)
(* round it twice and reach the limit, two interleaved readers.            *)
EXTENDS Session

CONSTANTS l1, l2

Lecteurs_MC == {l1, l2}
====
