----------------------------- MODULE Collector -----------------------------
(***************************************************************************)
(* gc::Collector (gc/gc.h, gc/gc.cc) at the granularity of its threads.     *)
(*                                                                          *)
(* The thread Main runs the program ("mutate") and, when it collects, seeds *)
(* the mark phase with the roots, starts the Worker threads, traces along   *)
(* with them, joins them and sweeps.  A critical section of work_mutex_ is  *)
(* one step; TryMark's compare-and-swap and the fetch_sub that ends a task  *)
(* are steps of their own, outside the lock, as in the code.  Garbage is    *)
(* deleted by detached threads that run beside everything else.             *)
(*                                                                          *)
(* Embedded objects are those that exist without Collector::New: the fields *)
(* dictionary that ObjInstance's one-argument constructor makes (object.h)  *)
(* is traced like any object but is not linked in all_objects_.             *)
(***************************************************************************)
EXTENDS Integers, Sequences, FiniteSets

CONSTANTS
  Obj,            \* identities of objects (addresses; reused after a delete)
  Embedded,       \* the objects that live inside another one
  Owner,          \* Owner[d]: the object whose constructor makes d
  Main, Worker,   \* the program's thread, and one per hardware_concurrency()
  NoObj,          \* no object
  MaxAllocs,      \* bound: objects ever allocated since the counters' reset
  MaxTempRoots    \* bound: depth of temp_roots_

ASSUME EmbeddedAssumption ==
  /\ Embedded \subseteq Obj
  /\ Owner \in [Embedded -> Obj \ Embedded]
  /\ NoObj \notin Obj

ASSUME ThreadAssumption == Main \notin Worker /\ IsFiniteSet(Worker)

ASSUME BoundAssumption == MaxAllocs \in Nat /\ MaxTempRoots \in Nat

Thread == {Main} \cup Worker

VARIABLES
  heap,           \* the objects linked in all_objects_
  refs,           \* refs[o]: the objects o's Trace() passes to Mark()
  vmRoots,        \* what the trace_roots callback passes to Mark()
  tempRoots,      \* temp_roots_
  marked,         \* the objects whose marked_ bit is set
  parallelMode,   \* parallel_mode_
  workStack,      \* global_work_stack_, or gray_stack_ when not parallelMode
  activeTasks,    \* active_tasks_
  pc,             \* where each thread is
  obj,            \* the object each thread is tracing
  todo,           \* the references each thread has still to pass to Mark()
  claimed,        \* won by TryMark(), not pushed yet
  garbage,        \* unlinked by Sweep, not yet deleted by its detached thread
  objectCount, lastSwept, lastMarked, totalSwept    \* the statistics

program == <<heap, refs, vmRoots, tempRoots>>
marking == <<marked, parallelMode, workStack, activeTasks, pc, obj, todo, claimed>>
stats   == <<objectCount, lastSwept, lastMarked, totalSwept>>
vars    == <<program, marking, garbage, stats>>

-----------------------------------------------------------------------------
(* The object graph                                                         *)

Elements(s) == {s[i] : i \in DOMAIN s}

Roots == vmRoots \cup Elements(tempRoots)

EmbeddedIn(o) == {d \in Embedded : Owner[d] = o}

H == INSTANCE Heap WITH roots <- Roots

\* The objects the roots lead to.
Reachable == H!Reachable

\* The objects whose memory is valid.
Allocated == heap \cup {d \in Embedded : Owner[d] \in heap}

\* Those the program can get hold of without following a dangling reference,
\* after which nothing is defined.
Usable == H!ReachFrom(Roots, [o \in Obj |-> refs[o] \cap Allocated])

Mutating == pc[Main] = "mutate"

-----------------------------------------------------------------------------
TypeOK ==
  /\ heap \subseteq Obj \ Embedded
  /\ refs \in [Obj -> SUBSET Obj]
  /\ vmRoots \subseteq Obj
  /\ tempRoots \in Seq(Obj)
  /\ marked \subseteq Obj
  /\ parallelMode \in BOOLEAN
  /\ workStack \in Seq(Obj)
  /\ activeTasks \in Nat
  /\ pc \in [Thread -> {"mutate", "idle", "seed", "spawn", "work", "trace", "done"}]
  /\ obj \in [Thread -> Obj \cup {NoObj}]
  /\ todo \in [Thread -> SUBSET Obj]
  /\ claimed \in [Thread -> Obj \cup {NoObj}]
  /\ garbage \subseteq Obj \ Embedded
  /\ objectCount \in Nat
  /\ lastSwept \in Nat
  /\ lastMarked \in Nat
  /\ totalSwept \in Nat

Init ==
  /\ heap = {}
  /\ refs = [o \in Obj |-> {}]
  /\ vmRoots = {}
  /\ tempRoots = <<>>
  /\ marked = {}
  /\ parallelMode = FALSE
  /\ workStack = <<>>
  /\ activeTasks = 0
  /\ pc = [t \in Thread |-> IF t = Main THEN "mutate" ELSE "idle"]
  /\ obj = [t \in Thread |-> NoObj]
  /\ todo = [t \in Thread |-> {}]
  /\ claimed = [t \in Thread |-> NoObj]
  /\ garbage = {}
  /\ objectCount = 0 /\ lastSwept = 0 /\ lastMarked = 0 /\ totalSwept = 0

-----------------------------------------------------------------------------
(* The program, between collections                                         *)

\* Collector::New: a fresh object with a clear mark bit, linked in
\* all_objects_; the caller holds it as a root (a VM stack slot).
New(o) ==
  /\ Mutating
  /\ o \notin Embedded \cup heap \cup garbage
  /\ totalSwept + Cardinality(heap) < MaxAllocs
  /\ lastSwept + Cardinality(heap) < MaxAllocs
  /\ heap' = heap \cup {o}
  /\ refs' = [p \in Obj |-> IF p = o THEN EmbeddedIn(o)
                            ELSE IF p \in EmbeddedIn(o) THEN {}
                            ELSE refs[p]]
  /\ marked' = marked \ ({o} \cup EmbeddedIn(o))
  /\ vmRoots' = vmRoots \cup {o}
  /\ objectCount' = objectCount + 1
  /\ UNCHANGED <<tempRoots, parallelMode, workStack, activeTasks, pc, obj,
                 todo, claimed, garbage, lastSwept, lastMarked, totalSwept>>

\* A list element, dict entry, superclass, field or receiver is stored.
\* A fields dictionary is never itself a value of the language.
Link(o, p) ==
  /\ Mutating
  /\ o \in Usable /\ p \in Usable \ Embedded
  /\ refs' = [refs EXCEPT ![o] = @ \cup {p}]
  /\ UNCHANGED <<heap, vmRoots, tempRoots, marking, garbage, stats>>

\* ... and overwritten or erased.
Unlink(o, p) ==
  /\ Mutating
  /\ o \in Usable /\ p \in refs[o] \ Embedded
  /\ refs' = [refs EXCEPT ![o] = @ \ {p}]
  /\ UNCHANGED <<heap, vmRoots, tempRoots, marking, garbage, stats>>

\* A value the program can reach is loaded in a slot the VM reports as a root.
Load(o) ==
  /\ Mutating
  /\ o \in Usable \ (Embedded \cup vmRoots)
  /\ vmRoots' = vmRoots \cup {o}
  /\ UNCHANGED <<heap, refs, tempRoots, marking, garbage, stats>>

Drop(o) ==
  /\ Mutating
  /\ o \in vmRoots
  /\ vmRoots' = vmRoots \ {o}
  /\ UNCHANGED <<heap, refs, tempRoots, marking, garbage, stats>>

PushRoot(o) ==
  /\ Mutating
  /\ o \in Usable \ Embedded
  /\ Len(tempRoots) < MaxTempRoots
  /\ tempRoots' = Append(tempRoots, o)
  /\ UNCHANGED <<heap, refs, vmRoots, marking, garbage, stats>>

\* RootGuard's destructors run in the reverse order of the constructors.
PopRoot ==
  /\ Mutating
  /\ tempRoots # <<>>
  /\ tempRoots' = SubSeq(tempRoots, 1, Len(tempRoots) - 1)
  /\ UNCHANGED <<heap, refs, vmRoots, marking, garbage, stats>>

\* Collector::FreeAll, run when nothing uses the heap any more (~Collector).
FreeAll ==
  /\ Mutating
  /\ vmRoots = {} /\ tempRoots = <<>>
  /\ heap' = {}
  /\ refs' = [o \in Obj |-> IF o \in Allocated THEN {} ELSE refs[o]]
  /\ marked' = marked \ Allocated
  /\ objectCount' = 0
  /\ totalSwept' = 0
  /\ UNCHANGED <<vmRoots, tempRoots, parallelMode, workStack, activeTasks, pc,
                 obj, todo, claimed, garbage, lastSwept, lastMarked>>

-----------------------------------------------------------------------------
(* Marking                                                                  *)

\* Variant: the roots of RootGuard are left to the callback.
RootsToSeedBug == vmRoots

\* What both entry points pass to Mark() first.
RootsToSeed == Roots

\* CollectParallel, up to the first root.
BeginParallel ==
  /\ Mutating
  /\ parallelMode' = TRUE
  /\ activeTasks' = 0
  /\ workStack' = <<>>
  /\ pc' = [pc EXCEPT ![Main] = "seed"]
  /\ todo' = [todo EXCEPT ![Main] = RootsToSeed]
  /\ UNCHANGED <<program, marked, obj, claimed, garbage, stats>>

\* CollectWithRoots, up to the first root.
BeginSequential ==
  /\ Mutating
  /\ lastSwept' = 0
  /\ lastMarked' = 0
  /\ workStack' = <<>>
  /\ pc' = [pc EXCEPT ![Main] = "seed"]
  /\ todo' = [todo EXCEPT ![Main] = RootsToSeed]
  /\ UNCHANGED <<program, marked, parallelMode, activeTasks, obj, claimed,
                 garbage, objectCount, totalSwept>>

\* Thread t is between two calls of Mark(): seeding, or inside a Trace().
CallsMark(t) == pc[t] \in {"seed", "trace"} /\ claimed[t] = NoObj

\* Variant: the bit is tested and set in two steps, so a second thread wins too.
WinsTryMarkBug(c) == TRUE

\* TryMark's compare-and-swap succeeds.
WinsTryMark(c) == c \notin marked

\* MarkParallel, first half: the compare-and-swap, outside the lock.
TryMark(t, c) ==
  /\ parallelMode
  /\ CallsMark(t)
  /\ c \in todo[t]
  /\ todo' = [todo EXCEPT ![t] = @ \ {c}]
  /\ marked' = marked \cup {c}
  /\ claimed' = [claimed EXCEPT ![t] = IF WinsTryMark(c) THEN c ELSE NoObj]
  /\ UNCHANGED <<program, parallelMode, workStack, activeTasks, pc, obj,
                 garbage, stats>>

\* Variant: the task is pushed and not counted.
TasksAfterPushBug == activeTasks

TasksAfterPush == activeTasks + 1

\* MarkParallel, second half: push and fetch_add under work_mutex_.
PushTask(t) ==
  /\ claimed[t] # NoObj
  /\ workStack' = Append(workStack, claimed[t])
  /\ activeTasks' = TasksAfterPush
  /\ claimed' = [claimed EXCEPT ![t] = NoObj]
  /\ UNCHANGED <<program, marked, parallelMode, pc, obj, todo, garbage, stats>>

\* Variant: an object is marked and never scanned.
GrayAfterMarkBug(c) == workStack

GrayAfterMark(c) == Append(workStack, c)

\* Mark() when not in parallel mode.
MarkGray(c) ==
  /\ ~parallelMode
  /\ CallsMark(Main)
  /\ c \in todo[Main]
  /\ todo' = [todo EXCEPT ![Main] = @ \ {c}]
  /\ IF c \in marked
       THEN UNCHANGED <<marked, workStack, lastMarked>>
       ELSE /\ marked' = marked \cup {c}
            /\ workStack' = GrayAfterMark(c)
            /\ lastMarked' = lastMarked + 1
  /\ UNCHANGED <<program, parallelMode, activeTasks, pc, obj, claimed,
                 garbage, objectCount, lastSwept, totalSwept>>

\* All roots are marked: start the threads, or drain the gray stack alone.
EndSeed ==
  /\ pc[Main] = "seed"
  /\ CallsMark(Main) /\ todo[Main] = {}
  /\ pc' = [pc EXCEPT ![Main] = IF parallelMode THEN "spawn" ELSE "work"]
  /\ UNCHANGED <<program, marked, parallelMode, workStack, activeTasks, obj,
                 todo, claimed, garbage, stats>>

\* workers.emplace_back: w runs at once, beside the threads started before it.
Spawn(w) ==
  /\ pc[Main] = "spawn" /\ pc[w] = "idle"
  /\ pc' = [pc EXCEPT ![w] = "work"]
  /\ UNCHANGED <<program, marked, parallelMode, workStack, activeTasks, obj,
                 todo, claimed, garbage, stats>>

EndSpawn ==
  /\ pc[Main] = "spawn"
  /\ \A w \in Worker : pc[w] # "idle"
  /\ pc' = [pc EXCEPT ![Main] = "work"]
  /\ UNCHANGED <<program, marked, parallelMode, workStack, activeTasks, obj,
                 todo, claimed, garbage, stats>>

\* Variant: Trace() reports one reference too few.
ReportedByTraceBug(o) == {p \in refs[o] : \E q \in refs[o] : q # p}

\* What o's Trace() passes to Mark() (object.cc).
ReportedByTrace(o) == refs[o]

\* ProcessWorkStack and DrainGrayStack: pop a task and enter its Trace().
PopTask(t) ==
  /\ pc[t] = "work"
  /\ workStack # <<>>
  /\ LET o == workStack[Len(workStack)] IN
       /\ obj' = [obj EXCEPT ![t] = o]
       /\ todo' = [todo EXCEPT ![t] = ReportedByTrace(o)]
  /\ workStack' = SubSeq(workStack, 1, Len(workStack) - 1)
  /\ pc' = [pc EXCEPT ![t] = "trace"]
  /\ UNCHANGED <<program, marked, parallelMode, activeTasks, claimed, garbage,
                 stats>>

\* The stack is empty but other threads hold tasks: yield and look again.
Yield(t) ==
  /\ parallelMode
  /\ pc[t] = "work"
  /\ workStack = <<>> /\ activeTasks # 0
  /\ UNCHANGED vars

\* Variant: the task is not taken off the count.
TasksAfterTraceBug == activeTasks

\* The fetch_sub of ProcessWorkStack; DrainGrayStack does not count.
TasksAfterTrace == IF parallelMode THEN activeTasks - 1 ELSE activeTasks

\* Trace() has returned: fetch_sub (CollectParallel only), then loop.
FinishTask(t) ==
  /\ pc[t] = "trace"
  /\ CallsMark(t) /\ todo[t] = {}
  /\ activeTasks' = TasksAfterTrace
  /\ obj' = [obj EXCEPT ![t] = NoObj]
  /\ pc' = [pc EXCEPT ![t] = "work"]
  /\ UNCHANGED <<program, marked, parallelMode, workStack, todo, claimed,
                 garbage, stats>>

\* Variant: an empty stack alone is taken for the end.
NoTaskLeftBug == workStack = <<>>

NoTaskLeft == workStack = <<>> /\ (parallelMode => activeTasks = 0)

\* The stack is empty and no task is active: leave the loop.
Exit(t) ==
  /\ pc[t] = "work"
  /\ NoTaskLeft
  /\ pc' = [pc EXCEPT ![t] = "done"]
  /\ UNCHANGED <<program, marked, parallelMode, workStack, activeTasks, obj,
                 todo, claimed, garbage, stats>>

-----------------------------------------------------------------------------
(* Sweeping                                                                 *)

\* Variant: object_count_ is left alone.
CountSweptBug(n) ==
  /\ lastSwept' = lastSwept + n
  /\ totalSwept' = totalSwept + n
  /\ UNCHANGED objectCount

CountSwept(n) ==
  /\ objectCount' = objectCount - n
  /\ lastSwept' = lastSwept + n
  /\ totalSwept' = totalSwept + n

\* Variant: live objects stay marked.
MarksAfterSweepBug == marked

\* The sweep visits linked objects only and clears their mark bits.
MarksAfterSweep == marked \ heap

\* Main has joined the workers; the sweep walks all_objects_, clears the mark
\* bits it finds set and unlinks the other objects.
Sweep ==
  /\ pc[Main] = "done"
  /\ parallelMode => \A w \in Worker : pc[w] = "done"
  /\ LET dead == heap \ marked IN
       /\ heap' = heap \ dead
       /\ garbage' = garbage \cup dead
       /\ CountSwept(Cardinality(dead))
  /\ marked' = MarksAfterSweep
  /\ parallelMode' = FALSE
  /\ pc' = [t \in Thread |-> IF t = Main THEN "mutate" ELSE "idle"]
  /\ UNCHANGED <<refs, vmRoots, tempRoots, workStack, activeTasks, obj, todo,
                 claimed, lastMarked>>

\* A detached thread deletes one of the objects handed to it; what is embedded
\* in the object goes with it.
Delete(o) ==
  /\ o \in garbage
  /\ garbage' = garbage \ {o}
  /\ refs' = [p \in Obj |-> IF p \in {o} \cup EmbeddedIn(o) THEN {} ELSE refs[p]]
  /\ marked' = marked \ ({o} \cup EmbeddedIn(o))
  /\ UNCHANGED <<heap, vmRoots, tempRoots, parallelMode, workStack,
                 activeTasks, pc, obj, todo, claimed, stats>>

-----------------------------------------------------------------------------
Program ==
  \/ \E o \in Obj : New(o) \/ Load(o) \/ Drop(o) \/ PushRoot(o)
  \/ \E o, p \in Obj : Link(o, p) \/ Unlink(o, p)
  \/ PopRoot
  \/ FreeAll
  \/ BeginParallel \/ BeginSequential

ThreadStep(t) ==
  \/ \E c \in Obj : TryMark(t, c)
  \/ PushTask(t)
  \/ PopTask(t)
  \/ Yield(t)
  \/ FinishTask(t)
  \/ Exit(t)

MainStep ==
  \/ \E c \in Obj : MarkGray(c)
  \/ EndSeed
  \/ \E w \in Worker : Spawn(w)
  \/ EndSpawn
  \/ Sweep

Deleter == \E o \in Obj : Delete(o)

Next == Program \/ MainStep \/ (\E t \in Thread : ThreadStep(t)) \/ Deleter

Spec == Init /\ [][Next]_vars

\* Each thread runs when it can, and the detached threads get to run; nothing
\* obliges the program to do anything.
Fairness ==
  /\ WF_vars(MainStep)
  /\ \A t \in Thread : WF_vars(ThreadStep(t))
  /\ \A o \in Obj : WF_vars(Delete(o))

FairSpec == Spec /\ Fairness

-----------------------------------------------------------------------------
(* What must hold                                                           *)

\* Nothing the program can still get hold of has been handed to a detached
\* deleter or freed (gc.cc, Sweep: only unmarked objects are unlinked).
ReachableAllocated == Reachable \subseteq Allocated

\* No linked object, and no root, refers to an object that has been swept,
\* whatever happens to the marks of embedded objects (gc.cc, Mark and Sweep).
LinkedRefsAllocated ==
  /\ Roots \subseteq Allocated
  /\ \A o \in heap : refs[o] \subseteq Allocated

\* No marking thread touches an object whose memory has been given back, while
\* the deleters of earlier collections are still at work.
NoTracingOfGarbage ==
  /\ Elements(workStack) \subseteq Allocated
  /\ \A t \in Thread : {obj[t], claimed[t]} \subseteq Allocated \cup {NoObj}
  /\ \A t \in Thread : todo[t] \subseteq Allocated

Tracing == {t \in Thread : pc[t] = "trace"}

\* active_tasks_ is the number of objects found and not yet traced: the ones
\* on the stack and the one each tracing thread holds (gc.h, active_tasks_).
TasksCounted ==
  parallelMode => activeTasks = Len(workStack) + Cardinality(Tracing)

\* A thread leaves ProcessWorkStack only when all roots are marked and every
\* marked object has been traced; a worker that left too early would not come back.
ExitOnlyWhenDone ==
  (\E t \in Thread : pc[t] = "done") =>
     /\ workStack = <<>> /\ Tracing = {}
     /\ \A t \in Thread : claimed[t] = NoObj
     /\ Roots \subseteq marked
     /\ \A o \in heap \cap marked : refs[o] \subseteq marked

\* An object is claimed, queued or traced at one place at a time: two threads
\* never trace the same object (gc_object.h, TryMark).
OneTracerPerObject ==
  /\ \A i, j \in DOMAIN workStack : workStack[i] = workStack[j] => i = j
  /\ \A t, u \in Thread : t # u =>
       /\ obj[t] = obj[u] => obj[t] = NoObj
       /\ claimed[t] = claimed[u] => claimed[t] = NoObj
  /\ \A t \in Thread : \A x \in {obj[t], claimed[t]} : x \notin Elements(workStack)

\* Between collections no collected object has its mark bit set: a stale mark
\* would hide the object's references from the next collection.
NoStaleMarks == Mutating => marked \cap heap = {}

\* object_count_ agrees with the length of all_objects_.
CountAgrees == objectCount = Cardinality(heap)

\* Collections implement the abstract heap.
AbstractHeap == H!Spec

\* A collection that has begun ends: every thread leaves ProcessWorkStack, is
\* joined, and the program runs again.
CollectionEnds == ~Mutating ~> Mutating

\* A collection reclaims whatever is unreachable when it runs: marking reaches
\* nothing but through the roots, no mark of an earlier collection is left to
\* spare it, the sweep comes, unlinks it, and a detached thread deletes it, even
\* if later collections begin meanwhile (gc.cc, Sweep; gc.h, CollectParallel).
UnreachableReclaimed ==
  \A o \in Obj :
    (~Mutating /\ o \in heap \ Reachable) ~> o \notin heap \cup garbage
=============================================================================
