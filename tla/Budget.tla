------------------------------- MODULE Budget -------------------------------
(***************************************************************************)
(* When a collection starts.  The collector counts its objects and the       *)
(* bytes that they occupy (heap_bytes_); the VM compares both counts with     *)
(* thresholds at its safepoints (vm.cc, MaybeCollectGarbage_).               *)
(*                                                                          *)
(* An object is what its size depends on.  References are left out: held is   *)
(* what the program can reach, and a collection keeps just that (Collector    *)
(* shows it).  Bytes are counted in words.  The sweep goes object by object,  *)
(* since it corrects heap_bytes_ at each of them.                            *)
(***************************************************************************)
EXTENDS Integers, FiniteSets, FiniteSetsExt

CONSTANTS
  Obj,            \* addresses
  Kind,           \* what the program makes: list, dict, instance or plain
  MaxContents,    \* bound: how many elements, entries or fields an object gets
  MaxHeld,        \* bound: how many objects the program holds between instructions
  ObjectFloor,    \* the least threshold of objects (256), ...
  ObjectSlack,    \* ... what is added to twice the survivors (64), ...
  BytesFloor,     \* ... and the least threshold of bytes (16 * 1024)
  Memory,         \* how many bytes a size_t can tell apart (2^64)
  Hosts,          \* whether C++ code outside the VM, such as a test, takes part: ...
  TestObjects, TestBytes    \* ... the thresholds that it may set

ASSUME BudgetAssumption ==
  /\ MaxContents \in Nat \ {0} /\ MaxHeld \in Nat
  /\ ObjectFloor \in Nat /\ ObjectSlack \in 1 .. ObjectFloor /\ BytesFloor \in Nat \ {0}
  /\ TestObjects \subseteq Nat /\ IsFiniteSet(TestObjects)
  /\ TestBytes \subseteq Nat /\ IsFiniteSet(TestBytes)
  /\ Hosts \subseteq BOOLEAN

\* The largest size of an object.
MaxSize == 1 + 2 * MaxContents + MaxContents

\* All of memory has fewer bytes than a size_t can count.
ASSUME MemoryAssumption ==
  IsFiniteSet(Obj) /\ Memory \in Nat /\ Cardinality(Obj) * MaxSize < Memory

VARIABLES
  linked,         \* all_objects_
  obj,            \* kind, contents (n) and capacity or buckets (cap) of each object
  held,           \* what the program can reach
  heapBytes,      \* heap_bytes_
  objectCount,    \* object_count_
  nextObjects,    \* next_gc_threshold_
  nextBytes,      \* next_gc_bytes_threshold_
  sweep,          \* the collection in progress: why, and what is still to visit
  hosted,         \* whether this run has such code beside it (not in the program)
  survived        \* counts after the last automatic collection (not in the program)

counts == <<heapBytes, objectCount>>
thresholds == <<nextObjects, nextBytes>>
vars == <<linked, obj, held, heapBytes, objectCount, nextObjects, nextBytes, sweep, survived,
          hosted>>

\* heap_bytes_ is unsigned.
SizeT(n) == n % Memory

-----------------------------------------------------------------------------
(* Sizes                                                                    *)

New(kind, cap) == [kind |-> kind, n |-> 0, cap |-> cap]

\* What an object of some kind is when it is made: a dictionary has a bucket.
NewOf(kind) == New(kind, IF kind = "dict" THEN 1 ELSE 0)

\* SizeBytes: the object itself and the capacity of its container; the fields
\* dictionary of an instance is another object, which nobody counts.
SizeBytes(ob) ==
  1 + ob.cap + (IF ob.kind = "dict" THEN ob.n ELSE 0)

\* What the objects of S, whose contents ob gives, occupy between them.
Bytes(S, ob) == Cardinality(UNION {{o} \X (1 .. SizeBytes(ob[o])) : o \in S})

Total(S) == Bytes(S, obj)

\* A vector that is full, and a table with a bucket per entry, double.
Grown(ob) ==
  [kind |-> ob.kind, n |-> ob.n + 1,
   cap |-> IF ob.kind = "instance" \/ ob.n < ob.cap THEN ob.cap
           ELSE IF ob.cap = 0 THEN 1 ELSE 2 * ob.cap]

\* Variant: no recomputation, the counter wraps.
AddHeapBytesDeltaBug(bytes, delta, recomputed) == SizeT(bytes + delta)

\* AddHeapBytesDelta, which counts anew when it is to take off more than there is.
AddHeapBytesDelta(bytes, delta, recomputed) ==
  IF delta >= 0 \/ bytes >= -delta THEN SizeT(bytes + delta)
  ELSE IF recomputed >= -delta THEN SizeT(recomputed + delta)
  ELSE 0

-----------------------------------------------------------------------------
(* Safepoints                                                               *)

Idle == [phase |-> "idle", todo |-> {}]
Running == sweep.phase = "idle"

\* Variant: a safepoint looks at the bytes only.
HitBudgetBug(objects, bytes) == bytes >= nextBytes

HitBudget(objects, bytes) == objects >= nextObjects \/ bytes >= nextBytes

\* What GcSafePoint_ makes of the counts that an instruction leaves.
SafePoint(S, objects, bytes) ==
  IF HitBudget(objects, bytes) THEN [phase |-> "automatic", todo |-> S] ELSE Idle

\* The program gains objects, makes obs of them, and comes to a safepoint.
Allocates(obs, kept) ==
  /\ linked' = linked \cup DOMAIN obs
  /\ obj' = [o \in Obj |-> IF o \in DOMAIN obs THEN obs[o] ELSE obj[o]]
  /\ held' = held \cup kept
  /\ heapBytes' = SizeT(heapBytes + Bytes(DOMAIN obs, obs))
  /\ objectCount' = objectCount + Cardinality(DOMAIN obs)
  /\ sweep' = SafePoint(linked', objectCount', heapBytes')
  /\ UNCHANGED <<nextObjects, nextBytes, survived>>

\* Nothing is held beyond the bound.
MayHold == Running /\ Cardinality(held) < MaxHeld

\* OP_LIST_NEW, OP_DICT_NEW, and a bound method made by OP_GET_PROP or OP_GET_SUPER.
Allocate ==
  \E o \in Obj \ linked, k \in Kind \ {"instance"} :
    MayHold /\ Allocates([x \in {o} |-> NewOf(k)], {o})

\* __make_big_dict: a dictionary with reserved buckets.
MakeBigDict ==
  \E o \in Obj \ linked :
    /\ MayHold /\ "dict" \in Kind
    /\ Allocates([x \in {o} |-> New("dict", 2 * MaxContents)], {o})

\* OP_CALLV on a class: a dictionary that nobody keeps, and an instance, which
\* makes a dictionary of its own.
Construct ==
  \E i \in Obj \ linked : \E f \in Obj \ (linked \cup {i}) :
    /\ MayHold /\ "instance" \in Kind
    /\ Allocates([x \in {f, i} |-> NewOf(IF x = i THEN "instance" ELSE "dict")], {i})

MayGrow(o) == Running /\ obj[o].n < MaxContents

\* Variant: the growth is not reported.
ReportedBug(o) == heapBytes

\* heap_bytes_ once the VM has reported how o's size has changed.
Reported(o) ==
  AddHeapBytesDelta(heapBytes, SizeBytes(Grown(obj[o])) - SizeBytes(obj[o]), Total(linked))

\* OP_LIST_PUSH, OP_INDEX_SET and OP_SET_PROP on a dictionary, with a new key.
Grow ==
  \E o \in held :
    /\ MayGrow(o) /\ obj[o].kind \in {"list", "dict"}
    /\ obj' = [obj EXCEPT ![o] = Grown(@)]
    /\ heapBytes' = Reported(o)
    /\ sweep' = SafePoint(linked, objectCount, heapBytes')
    /\ UNCHANGED <<linked, held, objectCount, nextObjects, nextBytes, survived>>

\* OP_SET_PROP on an instance: neither a report nor a safepoint.
SetField ==
  \E o \in held :
    /\ MayGrow(o) /\ obj[o].kind = "instance"
    /\ obj' = [obj EXCEPT ![o] = Grown(@)]
    /\ UNCHANGED <<linked, held, counts, thresholds, sweep, survived>>

\* The host uses the objects itself: ObjList::Push or ObjDict::Set on a collected
\* object, as tests do.
HostGrow ==
  \E o \in held :
    /\ hosted /\ MayGrow(o) /\ obj[o].kind \in {"list", "dict"}
    /\ obj' = [obj EXCEPT ![o] = Grown(@)]
    /\ UNCHANGED <<linked, held, counts, thresholds, sweep, survived>>

\* The program loses sight of some object.
Drop ==
  \E o \in held :
    /\ Running
    /\ held' = held \ {o}
    /\ UNCHANGED <<linked, obj, counts, thresholds, sweep, survived>>

\* Any other call: a safepoint and nothing else.
Call ==
  /\ Running
  /\ sweep' = SafePoint(linked, objectCount, heapBytes)
  /\ UNCHANGED <<linked, obj, held, counts, thresholds, survived>>

\* __gc_collect and __gc_touch: a collection within a native.
GcCollect ==
  /\ Running
  /\ sweep' = [phase |-> "asked", todo |-> linked]
  /\ UNCHANGED <<linked, obj, held, counts, thresholds, survived>>

\* SetNextGcObjectThresholdForTest, SetNextGcBytesThresholdForTest.
SetThreshold ==
  /\ Running /\ hosted
  /\ \/ nextObjects' \in TestObjects /\ UNCHANGED nextBytes
     \/ nextBytes' \in TestBytes /\ UNCHANGED nextObjects
  /\ UNCHANGED <<linked, obj, held, counts, sweep, survived>>

FreeAll ==
  /\ Running /\ held = {}
  /\ linked' = {}
  /\ obj' = [o \in Obj |-> NewOf("plain")]
  /\ heapBytes' = 0
  /\ objectCount' = 0
  /\ UNCHANGED <<held, thresholds, sweep, survived>>

-----------------------------------------------------------------------------
(* The sweep                                                                *)

\* A survivor stays as it is.
SweepKeep ==
  \E o \in sweep.todo \cap held :
    /\ sweep' = [sweep EXCEPT !.todo = @ \ {o}]
    /\ UNCHANGED <<linked, obj, held, counts, thresholds, survived>>

\* Variant: the sweep frees whatever it visits.
SweepFreeBug(o) ==
  /\ o \in sweep.todo
  /\ linked' = linked \ {o}
  /\ heapBytes' = AddHeapBytesDelta(heapBytes, -SizeBytes(obj[o]), Total(linked \ {o}))
  /\ objectCount' = objectCount - 1
  /\ sweep' = [sweep EXCEPT !.todo = @ \ {o}]
  /\ UNCHANGED <<obj, held, thresholds, survived>>

\* Garbage is unlinked first, then taken off the counts.
SweepFree(o) ==
  /\ o \in sweep.todo \ held
  /\ linked' = linked \ {o}
  /\ obj' = [obj EXCEPT ![o] = NewOf("plain")]
  /\ heapBytes' = AddHeapBytesDelta(heapBytes, -SizeBytes(obj[o]), Total(linked \ {o}))
  /\ objectCount' = objectCount - 1
  /\ sweep' = [sweep EXCEPT !.todo = @ \ {o}]
  /\ UNCHANGED <<held, thresholds, survived>>

Larger(a, b) == IF a < b THEN b ELSE a

\* Variant: the next threshold is above the last.
NextObjectsBug(survivors) == Larger(2 * survivors + ObjectSlack, nextObjects + 1)

\* The thresholds after a collection.
NextObjects(survivors) == Larger(2 * survivors + ObjectSlack, ObjectFloor)

\* Variant: the threshold of bytes stays where it was.
NextBytesBug(bytes) == nextBytes

NextBytes(bytes) == Larger(2 * bytes, BytesFloor)

\* An automatic collection sets the thresholds; the native returns to a safepoint.
EndSweep ==
  /\ ~Running /\ sweep.todo = {}
  /\ IF sweep.phase = "automatic"
       THEN /\ nextObjects' = NextObjects(objectCount)
            /\ nextBytes' = NextBytes(heapBytes)
            /\ survived' = [objects |-> objectCount, bytes |-> heapBytes]
            /\ sweep' = Idle
       ELSE /\ sweep' = SafePoint(linked, objectCount, heapBytes)
            /\ UNCHANGED <<thresholds, survived>>
  /\ UNCHANGED <<linked, obj, held, counts>>

-----------------------------------------------------------------------------
(* The generator's class objects are there before the VM runs.               *)

Init ==
  /\ hosted \in Hosts
  /\ linked \in {S \in SUBSET Obj : Cardinality(S) <= MaxHeld}
  /\ held = linked
  /\ obj = [o \in Obj |-> NewOf("plain")]
  /\ heapBytes = Total(linked)
  /\ objectCount = Cardinality(linked)
  /\ nextObjects = ObjectFloor
  /\ nextBytes = BytesFloor
  /\ sweep = Idle
  /\ survived = [objects |-> 0, bytes |-> 0]

Program ==
  \/ Allocate \/ MakeBigDict \/ Construct \/ Grow \/ SetField \/ HostGrow
  \/ Drop \/ Call \/ GcCollect \/ SetThreshold \/ FreeAll

Sweep == SweepKeep \/ (\E o \in Obj : SweepFree(o)) \/ EndSweep

Next == (Program \/ Sweep) /\ UNCHANGED hosted

Spec == Init /\ [][Next]_vars

-----------------------------------------------------------------------------
(* Properties                                                               *)

TypeOK ==
  /\ linked \subseteq Obj /\ held \subseteq linked
  /\ \A o \in Obj : obj[o].kind \in Kind \cup {"plain", "dict"} /\ obj[o].n \in 0..MaxContents
  /\ heapBytes \in Nat /\ objectCount \in Nat
  /\ nextObjects \in Nat /\ nextBytes \in Nat
  /\ sweep.phase \in {"idle", "automatic", "asked"} /\ sweep.todo \subseteq linked

\* heap_bytes_ is the sum of the sizes of the linked objects, after every
\* instruction and at every object of a sweep, if whoever makes an object grow
\* reports it: what OP_LIST_PUSH, OP_INDEX_SET and OP_SET_PROP report between
\* them is what Sweep takes off (gc.h New, gc.cc AddHeapBytesDelta, Sweep).
BytesExact == ~hosted => heapBytes = Total(linked)

\* Unreported growth makes heap_bytes_ too small and never too large: however much
\* Sweep takes off, the unsigned counter does not wrap.
BytesNeverWrap == heapBytes <= Total(linked)

\* The largest thresholds that a program that holds MaxHeld objects meets.
ObjectLimit == Max(TestObjects \cup {ObjectFloor, 2 * MaxHeld + ObjectSlack})
BytesLimit == Max(TestBytes \cup {BytesFloor, 2 * MaxHeld * MaxSize})

\* What one instruction makes: a constructor call makes two objects.
Burst == IF "instance" \in Kind THEN 2 ELSE 1

\* The heap is bounded by what the program holds: about twice as many objects, and
\* bytes, as survive a collection, and what one instruction makes (vm.cc
\* MaybeCollectGarbage_, and every place that calls it or does not).  Growth that was
\* never reported comes back with a recount in mid-sweep, until the sweep is over.
HeapBounded ==
  /\ objectCount < ObjectLimit + Burst
  /\ ~hosted \/ Running => heapBytes < BytesLimit + MaxSize

\* Automatic collections do not follow one another closely ("avoid thrashing",
\* vm.cc MaybeCollectGarbage_): when one starts, as many objects or bytes have come
\* since the last one as survived it, or else the heap is at its least threshold.
Amortised ==
  [][~hosted /\ sweep'.phase = "automatic" /\ Running =>
       \/ objectCount' >= 2 * survived.objects + ObjectSlack /\ objectCount' >= ObjectFloor
       \/ heapBytes' >= 2 * survived.bytes /\ heapBytes' >= BytesFloor]_vars
=============================================================================
