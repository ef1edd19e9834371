-------------------------- MODULE MCPollingWorker --------------------------
(* Bounds for TLC.  Bodies differ in nothing, so they are sent in order.    *)
EXTENDS PollingWorker

SentInOrder == \A b \in sent : \A a \in Body : a < b => a \in sent
=============================================================================
