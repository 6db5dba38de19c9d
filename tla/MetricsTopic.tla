----------------------------- MODULE MetricsTopic -----------------------------
(***************************************************************************)
(* The topic on which a measured task tells how far it is. What is         *)
(* published reaches those who are subscribed at that time, in order.      *)
(***************************************************************************)
EXTENDS Sequences

VARIABLE log   \* history: the events published, in order

Event(e, p, ok) == [ev |-> e, phase |-> p, ok |-> ok]
Publish(e) == log' = Append(log, e)
=============================================================================
