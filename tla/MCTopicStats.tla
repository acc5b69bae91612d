---------------------------- MODULE MCTopicStats ----------------------------
(* Instances of TopicStats for TLC: topic 1 is a partition of the           *)
(* partitioned topic 2.                                                     *)
EXTENDS TopicStats

MCMasterOf == [p \in Partitions |-> 2]

\* No list, or a topic by its name, which is stored under a third key.
MCMandatory == { {}, {<<0, 1>>} }
==============================================================================
