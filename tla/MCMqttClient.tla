---------------------------- MODULE MCMqttClient ----------------------------
(* Small instances of MqttClient for TLC. *)
EXTENDS MqttClient, TLC

CONSTANTS thread1, thread2, announcement, data

Both == {thread1, thread2}
BothTopics == {announcement, data}

(* Every thread uses every topic. *)
SharedUses == [th \in Threads |-> Topics]

(* Each thread has topics of its own. *)
OwnUses == (thread1 :> {announcement}) @@ (thread2 :> {data})

Symmetry == Permutations(Both)
=============================================================================
