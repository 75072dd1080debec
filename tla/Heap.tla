-------------------------------- MODULE Heap --------------------------------
(***************************************************************************)
(* What gc::Collector promises its user, without saying how: a heap of      *)
(* objects that refer to one another, of which the program holds some as    *)
(* roots.  A collection is one atomic step that removes exactly the objects *)
(* the roots no longer reach.  Collector.tla is the detailed specification  *)
(* (mark bits, worker threads, detached deletion) that implements this one. *)
(***************************************************************************)
EXTENDS FiniteSets

CONSTANT Obj            \* identities of heap objects (addresses)

VARIABLES
  heap,                 \* the objects that are allocated
  refs,                 \* refs[o]: what o's Trace() reports
  roots                 \* what temp_roots_ and the trace_roots callback report

vars == <<heap, refs, roots>>

\* S contains everything a member of S refers to.
ClosedUnder(S, r) == \A o \in S : r[o] \subseteq S

\* The least set that contains R and is closed under references.
ReachFrom(R, r) ==
  {o \in Obj : \A S \in SUBSET Obj :
                  (R \subseteq S /\ ClosedUnder(S, r)) => o \in S}

Reachable == ReachFrom(roots, refs)

TypeOK ==
  /\ heap \subseteq Obj
  /\ refs \in [Obj -> SUBSET Obj]
  /\ roots \subseteq Obj

Init ==
  /\ heap = {}
  /\ refs = [o \in Obj |-> {}]
  /\ roots = {}

\* The program gains one object, which it holds.
Allocate ==
  \E o \in Obj \ heap :
    /\ heap' = heap \cup {o}
    /\ refs' = [refs EXCEPT ![o] = {}]
    /\ roots' = roots \cup {o}

\* The program rearranges references among the objects it can reach.
Mutate ==
  /\ refs' \in [Obj -> SUBSET Obj]
  /\ \A o \in heap : refs'[o] # refs[o] =>
       o \in Reachable /\ refs'[o] \subseteq refs[o] \cup Reachable
  /\ UNCHANGED <<heap, roots>>

\* The program holds other objects, all of which it could already reach.
Hold ==
  /\ roots' \in SUBSET Reachable
  /\ UNCHANGED <<heap, refs>>

\* Garbage collection.
Collect ==
  /\ heap' = heap \cap Reachable
  /\ UNCHANGED <<refs, roots>>

\* Collector::FreeAll: the program has ended and everything goes.
FreeAll ==
  /\ roots = {}
  /\ heap' = {}
  /\ refs' \in [Obj -> SUBSET Obj]
  /\ UNCHANGED roots

Next == Allocate \/ Mutate \/ Hold \/ Collect \/ FreeAll

Spec == Init /\ [][Next]_vars

\* The promise: whatever the program can still reach is allocated.
ReachableAllocated == Reachable \subseteq heap
=============================================================================
