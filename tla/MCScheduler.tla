---------------------------- MODULE MCScheduler ----------------------------
EXTENDS Scheduler

MCOrder == <<"annotate", "synaptic-decay">>
MCNeeds == [k \in Kinds |-> {"annotate"}]
=============================================================================
