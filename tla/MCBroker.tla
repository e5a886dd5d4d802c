------------------------------ MODULE MCBroker ------------------------------
(* Small instances of Broker for TLC. *)
EXTENDS Broker

CONSTANTS n1, n2, r1, h1, b1, MaxQueue

OneHost == [r \in Request |-> h1]

\* Bound: entries a queue may hold; repeated KeyRejected reports of an unleased
\* job would lengthen it for ever.
QueueBound == \A h \in Host : Len(queues[h]) <= MaxQueue
=============================================================================
