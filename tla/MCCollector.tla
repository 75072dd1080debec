---------------------------- MODULE MCCollector ----------------------------
(* Small instances of Collector.tla for TLC.                                *)
EXTENDS CollectorInv, TLC

CONSTANT Inst     \* the object that owns every embedded one

MCOwner == [d \in Embedded |-> Inst]

\* Objects that own nothing are interchangeable, and so are the workers.
Interchangeable ==
  Permutations(Obj \ (Embedded \cup {Inst})) \cup Permutations(Worker)
=============================================================================
