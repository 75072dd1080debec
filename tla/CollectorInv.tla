---------------------------- MODULE CollectorInv ----------------------------
(***************************************************************************)
(* The inductive invariant of Collector.tla.  The safety properties of that *)
(* module are not inductive: that nothing reachable is swept rests on the   *)
(* tri-colour argument (Scanned), on who may be where (Control), on the     *)
(* task count, and on what an unscanned object may refer to.                *)
(***************************************************************************)
EXTENDS Collector

\* Objects that some thread still has to trace.
Queued == Elements(workStack) \cup {claimed[t] : t \in Thread}

\* Which control points go together.
Control ==
  /\ pc[Main] # "idle"
  /\ \A w \in Worker : pc[w] \in {"idle", "work", "trace", "done"}
  /\ ~parallelMode => \A w \in Worker : pc[w] = "idle"
  /\ ~parallelMode => pc[Main] # "spawn"
  /\ pc[Main] = "seed" => \A w \in Worker : pc[w] = "idle"
  /\ Mutating => ~parallelMode /\ workStack = <<>>
  /\ \A t \in Thread :
       /\ claimed[t] # NoObj => pc[t] \in {"seed", "trace"} /\ parallelMode
       /\ todo[t] # {} => pc[t] \in {"seed", "trace"}
       /\ (obj[t] # NoObj) <=> (pc[t] = "trace")

\* Once a thread has left, no task is queued, claimed or being traced.
NothingLeft ==
  (\E t \in Thread : pc[t] = "done") =>
     /\ pc[Main] # "seed"
     /\ workStack = <<>> /\ Tracing = {}
     /\ \A t \in Thread : claimed[t] = NoObj

\* A fields dictionary is referred to by its instance only, and is not a root.
EmbeddedPrivate ==
  /\ Roots \cap Embedded = {}
  /\ \A o \in Obj : \A d \in refs[o] \cap Embedded : Owner[d] = o
  /\ \A d \in Embedded : Owner[d] \in heap => d \in refs[Owner[d]]

\* Allocated objects refer to allocated objects, unless they are embedded and
\* carry a stale mark; so does everything that will be traced.
RefsAllocated ==
  /\ Roots \subseteq Allocated
  /\ \A o \in Allocated : (o \in Embedded /\ o \in marked) \/ refs[o] \subseteq Allocated
  /\ \A o \in Queued \ {NoObj} : o \in Allocated /\ refs[o] \subseteq Allocated
  /\ \A t \in Thread : obj[t] # NoObj => obj[t] \in Allocated
  /\ \A t \in Thread : todo[t] \subseteq Allocated

\* During a collection a root is marked or waits to be seeded.
RootsSeen ==
  ~Mutating => \A r \in Roots :
                  r \in marked \/ (pc[Main] = "seed" /\ r \in todo[Main])

\* A marked object is queued, or each reference of it is marked or waits in
\* the hands of the thread that traces the object.
Scanned ==
  ~Mutating => \A o \in heap \cap marked :
                  \/ o \in Queued
                  \/ \A c \in refs[o] :
                       \/ c \in marked
                       \/ \E t \in Thread : obj[t] = o /\ c \in todo[t]

HeapFinite == IsFiniteSet(heap)

\* A detached deleter shares no object with all_objects_.
GarbageApart == garbage \cap heap = {}

\* The inductive invariant.
IInv ==
  /\ TypeOK
  /\ Control
  /\ NothingLeft
  /\ EmbeddedPrivate
  /\ RefsAllocated
  /\ RootsSeen
  /\ Scanned
  /\ NoStaleMarks
  /\ TasksCounted
  /\ HeapFinite
  /\ GarbageApart
  /\ CountAgrees
=============================================================================
