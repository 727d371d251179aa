---------------------------- MODULE MCKafkaWorker ----------------------------
(* Instances of KafkaWorker for TLC. *)
EXTENDS KafkaWorker
=============================================================================
