--------------------------- MODULE CollectorProofs ---------------------------
(***************************************************************************)
(* Machine-checked proofs about Collector.tla, for every set of objects, of *)
(* embedded objects and of threads, and for every bound.                    *)
(***************************************************************************)
EXTENDS CollectorInv, FiniteSetTheorems, TLAPS

-----------------------------------------------------------------------------
(* Sequences as the mark phase uses them                                    *)

LEMMA EmptyElements == Elements(<<>>) = {}
  BY DEF Elements

LEMMA AppendElements ==
  ASSUME NEW S, NEW s \in Seq(S), NEW x \in S
  PROVE  /\ Append(s, x) \in Seq(S)
         /\ Len(Append(s, x)) = Len(s) + 1
         /\ Elements(Append(s, x)) = Elements(s) \cup {x}
<1> DEFINE r == Append(s, x)
<1>1. r \in Seq(S) /\ Len(r) = Len(s) + 1
  OBVIOUS
<1>2. r[Len(s) + 1] = x /\ \A i \in 1 .. Len(s) : r[i] = s[i]
  OBVIOUS
<1>3. DOMAIN r = 1 .. Len(s) + 1 /\ DOMAIN s = 1 .. Len(s)
  OBVIOUS
<1>4. Elements(r) \subseteq Elements(s) \cup {x}
  BY <1>2, <1>3 DEF Elements
<1>5. Elements(s) \cup {x} \subseteq Elements(r)
  BY <1>2, <1>3 DEF Elements
<1> QED
  BY <1>1, <1>4, <1>5

LEMMA PopElements ==
  ASSUME NEW S, NEW s \in Seq(S), s # <<>>
  PROVE  LET p == SubSeq(s, 1, Len(s) - 1)
         IN  /\ p \in Seq(S)
             /\ Len(p) = Len(s) - 1
             /\ s[Len(s)] \in S
             /\ Elements(s) = Elements(p) \cup {s[Len(s)]}
<1> DEFINE p == SubSeq(s, 1, Len(s) - 1)
<1>1. Len(s) \in Nat /\ Len(s) > 0 /\ DOMAIN s = 1 .. Len(s)
  OBVIOUS
<1>2. /\ p \in Seq(S) /\ Len(p) = Len(s) - 1
      /\ \A i \in 1 .. Len(s) - 1 : p[i] = s[i]
  BY <1>1
<1>3. DOMAIN p = 1 .. Len(s) - 1
  BY <1>2
<1>4. s[Len(s)] \in S
  BY <1>1
<1>5. Elements(s) \subseteq Elements(p) \cup {s[Len(s)]}
  <2>1. \A n \in Nat : 1 .. n \subseteq (1 .. n - 1) \cup {n}
    OBVIOUS
  <2>2. DOMAIN s \subseteq DOMAIN p \cup {Len(s)}
    BY <1>1, <1>3, <2>1
  <2> QED
    BY <1>2, <1>3, <2>2 DEF Elements
<1>6. Elements(p) \cup {s[Len(s)]} \subseteq Elements(s)
  BY <1>1, <1>2, <1>3 DEF Elements
<1> QED
  BY <1>2, <1>4, <1>5, <1>6

\* A function on threads after one entry was changed.
LEMMA Updated ==
  ASSUME NEW S, NEW f \in [Thread -> S], NEW t \in Thread, NEW v,
         NEW g, g = [f EXCEPT ![t] = v]
  PROVE  g[t] = v /\ \A u \in Thread : u # t => g[u] = f[u]
  OBVIOUS
-----------------------------------------------------------------------------
USE EmbeddedAssumption, ThreadAssumption

LEMMA InitInv == Init => IInv
<1> SUFFICES ASSUME Init PROVE IInv
  OBVIOUS
<1> USE DEF Init, Thread
<1>1. TypeOK
  <2>1. tempRoots \in Seq(Obj) /\ workStack \in Seq(Obj)
    OBVIOUS
  <2>2. pc \in [Thread -> {"mutate", "idle", "seed", "spawn", "work", "trace", "done"}]
    OBVIOUS
  <2>3. refs \in [Obj -> SUBSET Obj] /\ todo \in [Thread -> SUBSET Obj]
    OBVIOUS
  <2>4. obj \in [Thread -> Obj \cup {NoObj}] /\ claimed \in [Thread -> Obj \cup {NoObj}]
    OBVIOUS
  <2> QED
    BY <2>1, <2>2, <2>3, <2>4 DEF TypeOK
<1>2. Control
  BY DEF Control, Mutating
<1>3. NothingLeft
  BY DEF NothingLeft
<1>4. EmbeddedPrivate
  BY DEF EmbeddedPrivate, Roots, Elements
<1>5. RefsAllocated
  BY DEF RefsAllocated, Roots, Elements, Queued, Allocated
<1>6. RootsSeen /\ Scanned /\ NoStaleMarks /\ TasksCounted /\ GarbageApart
  BY DEF RootsSeen, Scanned, NoStaleMarks, TasksCounted, GarbageApart, Mutating
<1>7. HeapFinite /\ CountAgrees
  BY FS_EmptySet DEF HeapFinite, CountAgrees
<1> QED
  BY <1>1, <1>2, <1>3, <1>4, <1>5, <1>6, <1>7 DEF IInv

LEMMA UsableAllocated == RefsAllocated /\ TypeOK => Usable \subseteq Allocated
<1> SUFFICES ASSUME RefsAllocated, TypeOK PROVE Usable \subseteq Allocated
  OBVIOUS
<1>1. Allocated \in SUBSET Obj /\ Roots \subseteq Allocated
  BY DEF RefsAllocated, Allocated, TypeOK
<1>2. H!ClosedUnder(Allocated, [o \in Obj |-> refs[o] \cap Allocated])
  BY <1>1 DEF H!ClosedUnder
<1> QED
  BY <1>1, <1>2 DEF Usable, H!ReachFrom

-----------------------------------------------------------------------------
(* The program's steps                                                      *)

LEMMA NewInv ==
  ASSUME IInv, NEW o \in Obj, New(o)
  PROVE  IInv'
<1> USE DEF IInv, New
<1>1. TypeOK'
  BY DEF TypeOK, EmbeddedIn
<1>2. Control'
  BY DEF Control, Mutating
<1>3. NothingLeft'
  BY DEF NothingLeft, Tracing
<1>4. /\ o \in Obj \ Embedded /\ o \notin heap
      /\ Allocated' = Allocated \cup {o} \cup EmbeddedIn(o)
  BY DEF Allocated, EmbeddedIn
<1>5. Roots' = Roots \cup {o}
  BY DEF Roots
<1>6. \A x \in Allocated : x # o /\ x \notin EmbeddedIn(o) /\ refs'[x] = refs[x]
  BY <1>4 DEF Allocated, EmbeddedIn, TypeOK
<1>7. EmbeddedPrivate'
  BY <1>4, <1>5 DEF EmbeddedPrivate, EmbeddedIn, TypeOK
<1>8. /\ Queued' = Queued
      /\ \A x \in Queued \ {NoObj} : x \in Allocated
      /\ refs'[o] = EmbeddedIn(o)
      /\ \A d \in EmbeddedIn(o) : d \in Obj /\ refs'[d] = {}
  BY DEF Queued, RefsAllocated, EmbeddedIn
<1>9. RefsAllocated'
  <2>1. Roots' \subseteq Allocated'
    BY <1>4, <1>5 DEF RefsAllocated
  <2>2. ASSUME NEW x \in Allocated'
        PROVE  (x \in Embedded /\ x \in marked') \/ refs'[x] \subseteq Allocated'
    <3>1. CASE x \in Allocated
      BY <1>4, <1>6, <3>1 DEF RefsAllocated
    <3>2. CASE x \in {o} \cup EmbeddedIn(o)
      BY <1>4, <1>8, <3>2
    <3> QED
      BY <1>4, <3>1, <3>2
  <2>3. ASSUME NEW x \in Queued' \ {NoObj}
        PROVE  x \in Allocated' /\ refs'[x] \subseteq Allocated'
    BY <1>4, <1>6, <1>8 DEF RefsAllocated
  <2> QED
    BY <1>4, <2>1, <2>2, <2>3 DEF RefsAllocated
<1>10. RootsSeen' /\ Scanned'
  BY DEF RootsSeen, Scanned, Mutating
<1>11. NoStaleMarks'
  BY <1>4 DEF NoStaleMarks, Mutating
<1>12. TasksCounted' /\ GarbageApart'
  BY DEF TasksCounted, Tracing, GarbageApart
<1>13. HeapFinite' /\ CountAgrees'
  BY FS_AddElement, <1>4 DEF HeapFinite, CountAgrees
<1> QED
  BY <1>1, <1>2, <1>3, <1>7, <1>9, <1>10, <1>11, <1>12, <1>13

\* What a step of the program that neither allocates nor collects leaves alone.
LEMMA ProgramFrame ==
  ASSUME IInv, Mutating, UNCHANGED <<heap, marking, garbage, stats>>
  PROVE  /\ Control' /\ NothingLeft' /\ RootsSeen' /\ Scanned' /\ NoStaleMarks'
         /\ TasksCounted' /\ HeapFinite' /\ GarbageApart' /\ CountAgrees'
         /\ Allocated' = Allocated /\ Queued' = Queued
<1> USE DEF IInv, marking, stats
<1>1. Control' /\ NothingLeft'
  BY DEF Control, NothingLeft, Mutating, Tracing
<1>2. RootsSeen' /\ Scanned' /\ NoStaleMarks'
  BY DEF RootsSeen, Scanned, NoStaleMarks, Mutating
<1>3. TasksCounted' /\ HeapFinite' /\ GarbageApart' /\ CountAgrees'
  BY DEF TasksCounted, HeapFinite, GarbageApart, CountAgrees, Tracing
<1>4. Allocated' = Allocated /\ Queued' = Queued
  BY DEF Allocated, Queued
<1> QED
  BY <1>1, <1>2, <1>3, <1>4

LEMMA LinkInv ==
  ASSUME IInv, NEW o \in Obj, NEW p \in Obj, Link(o, p)
  PROVE  IInv'
<1>1. /\ UNCHANGED <<heap, vmRoots, tempRoots, marking, garbage, stats>>
      /\ Mutating
  BY DEF Link
<1>2. p \in Allocated \ Embedded
  BY UsableAllocated DEF Link, IInv
<1>3. TypeOK'
  BY <1>1 DEF Link, IInv, TypeOK, marking, stats
<1>4. refs' = [refs EXCEPT ![o] = refs[o] \cup {p}] /\ refs \in [Obj -> SUBSET Obj]
  BY DEF Link, IInv, TypeOK
<1>5. Roots' = Roots
  BY <1>1 DEF Roots
<1>6. EmbeddedPrivate'
  BY <1>1, <1>2, <1>4, <1>5 DEF EmbeddedPrivate, IInv
<1>7. RefsAllocated'
  BY <1>1, <1>2, <1>4, <1>5, ProgramFrame DEF RefsAllocated, IInv, marking
<1> QED
  BY <1>1, <1>3, <1>6, <1>7, ProgramFrame DEF IInv

LEMMA UnlinkInv ==
  ASSUME IInv, NEW o \in Obj, NEW p \in Obj, Unlink(o, p)
  PROVE  IInv'
<1>1. /\ UNCHANGED <<heap, vmRoots, tempRoots, marking, garbage, stats>>
      /\ Mutating /\ p \notin Embedded
  BY DEF Unlink
<1>2. TypeOK'
  BY <1>1 DEF Unlink, IInv, TypeOK, marking, stats
<1>3. refs' = [refs EXCEPT ![o] = refs[o] \ {p}] /\ refs \in [Obj -> SUBSET Obj]
  BY DEF Unlink, IInv, TypeOK
<1>4. Roots' = Roots
  BY <1>1 DEF Roots
<1>5. EmbeddedPrivate'
  BY <1>1, <1>3, <1>4 DEF EmbeddedPrivate, IInv
<1>6. RefsAllocated'
  BY <1>1, <1>3, <1>4, ProgramFrame DEF RefsAllocated, IInv, marking
<1> QED
  BY <1>1, <1>2, <1>5, <1>6, ProgramFrame DEF IInv

\* A step that only changes the roots, to objects that are allocated.
LEMMA RootsInv ==
  ASSUME IInv, Mutating, UNCHANGED <<heap, refs, marking, garbage, stats>>,
         Roots' \subseteq Allocated \ Embedded, TypeOK'
  PROVE  IInv'
<1>1. EmbeddedPrivate'
  BY DEF EmbeddedPrivate, IInv
<1>2. RefsAllocated'
  BY ProgramFrame DEF RefsAllocated, IInv, marking
<1> QED
  BY <1>1, <1>2, ProgramFrame DEF IInv

LEMMA RootActionsInv ==
  ASSUME IInv, NEW o \in Obj, Load(o) \/ Drop(o) \/ PushRoot(o)
  PROVE  IInv'
<1>1. Mutating /\ UNCHANGED <<heap, refs, marking, garbage, stats>>
  BY DEF Load, Drop, PushRoot
<1>2. /\ Usable \subseteq Allocated /\ Roots \subseteq Allocated \ Embedded
      /\ TypeOK
  BY UsableAllocated DEF IInv, RefsAllocated, EmbeddedPrivate
<1>3. TypeOK' /\ Roots' \subseteq Allocated \ Embedded
  <2>1. CASE Load(o)
    BY <1>1, <1>2, <2>1 DEF Load, Roots, TypeOK, marking, stats
  <2>2. CASE Drop(o)
    BY <1>1, <1>2, <2>2 DEF Drop, Roots, TypeOK, marking, stats
  <2>3. CASE PushRoot(o)
    <3>1. tempRoots' \in Seq(Obj) /\ Elements(tempRoots') = Elements(tempRoots) \cup {o}
      BY <1>2, <2>3, AppendElements DEF PushRoot, TypeOK
    <3> QED
      BY <1>1, <1>2, <2>3, <3>1 DEF PushRoot, Roots, TypeOK, marking, stats
  <2> QED
    BY <2>1, <2>2, <2>3
<1> QED
  BY <1>1, <1>3, RootsInv

LEMMA PopRootInv ==
  ASSUME IInv, PopRoot
  PROVE  IInv'
<1>1. Mutating /\ UNCHANGED <<heap, refs, vmRoots, marking, garbage, stats>>
  BY DEF PopRoot
<1>2. Roots \subseteq Allocated \ Embedded /\ TypeOK
  BY DEF IInv, RefsAllocated, EmbeddedPrivate
<1>3. tempRoots' \in Seq(Obj) /\ Elements(tempRoots') \subseteq Elements(tempRoots)
  BY <1>2, PopElements DEF PopRoot, TypeOK
<1>4. TypeOK' /\ Roots' \subseteq Allocated \ Embedded
  BY <1>1, <1>2, <1>3 DEF Roots, TypeOK, marking, stats
<1> QED
  BY <1>1, <1>4, RootsInv

LEMMA FreeAllInv ==
  ASSUME IInv, FreeAll
  PROVE  IInv'
<1> USE DEF IInv, FreeAll
<1>1. TypeOK'
  BY DEF TypeOK
<1>2. Control' /\ NothingLeft'
  BY DEF Control, NothingLeft, Mutating, Tracing
<1>3. Roots' = {} /\ Allocated' = {} /\ Roots = {}
  BY EmptyElements DEF Roots, Allocated
<1>4. EmbeddedPrivate'
  BY <1>3 DEF EmbeddedPrivate, TypeOK
<1>5. Queued \subseteq {NoObj} /\ \A t \in Thread : todo[t] = {} /\ obj[t] = NoObj
  BY EmptyElements DEF Queued, Control, Mutating, Thread
<1>6. RefsAllocated'
  BY <1>3, <1>5 DEF RefsAllocated, Queued
<1>7. RootsSeen' /\ Scanned' /\ NoStaleMarks'
  BY DEF RootsSeen, Scanned, NoStaleMarks, Mutating
<1>8. TasksCounted' /\ GarbageApart'
  BY DEF TasksCounted, Tracing, GarbageApart
<1>9. HeapFinite' /\ CountAgrees'
  BY FS_EmptySet DEF HeapFinite, CountAgrees
<1> QED
  BY <1>1, <1>2, <1>4, <1>6, <1>7, <1>8, <1>9

-----------------------------------------------------------------------------
(* The collection's steps                                                   *)

LEMMA BeginInv ==
  ASSUME IInv, BeginParallel \/ BeginSequential
  PROVE  IInv'
<1> USE DEF IInv
<1>1. /\ Mutating /\ todo' = [todo EXCEPT ![Main] = Roots]
      /\ pc' = [pc EXCEPT ![Main] = "seed"] /\ workStack' = <<>>
      /\ UNCHANGED <<program, marked, obj, claimed, garbage, objectCount, totalSwept>>
  BY DEF BeginParallel, BeginSequential, RootsToSeed, stats
<1>2. Roots \subseteq Obj
  BY DEF TypeOK, Roots, Elements
<1>3. TypeOK'
  <2>1. todo' \in [Thread -> SUBSET Obj]
    BY <1>1, <1>2 DEF TypeOK
  <2>2. pc' \in [Thread -> {"mutate", "idle", "seed", "spawn", "work", "trace", "done"}]
    BY <1>1 DEF TypeOK
  <2>3. workStack' \in Seq(Obj)
    BY <1>1
  <2>4. /\ parallelMode' \in BOOLEAN /\ activeTasks' \in Nat
        /\ lastSwept' \in Nat /\ lastMarked' \in Nat
    <3>1. CASE BeginParallel
      BY <3>1 DEF TypeOK, BeginParallel, stats
    <3>2. CASE BeginSequential
      BY <3>2 DEF TypeOK, BeginSequential
    <3> QED
      BY <3>1, <3>2
  <2> QED
    BY <1>1, <2>1, <2>2, <2>3, <2>4 DEF TypeOK, program
<1>4. /\ pc[Main] = "mutate" /\ pc'[Main] = "seed"
      /\ \A w \in Worker : pc[w] = "idle" /\ pc'[w] = "idle"
  BY <1>1 DEF Control, Mutating, TypeOK, Thread
<1>5. /\ todo'[Main] = Roots
      /\ \A t \in Thread : claimed[t] = NoObj /\ obj[t] = NoObj
      /\ \A w \in Worker : todo'[w] = {}
  BY <1>1, <1>4 DEF Control, TypeOK, Thread
<1>6. Control'
  BY <1>1, <1>4, <1>5 DEF Control, Mutating, Thread
<1>7. NothingLeft'
  BY <1>1, <1>4 DEF NothingLeft, Thread
<1>8. /\ Roots' = Roots /\ Allocated' = Allocated /\ Queued' \subseteq {NoObj}
      /\ UNCHANGED <<heap, refs, marked>>
  BY <1>1, <1>5, EmptyElements DEF Roots, Allocated, Queued, program
<1>9. EmbeddedPrivate'
  BY <1>8 DEF EmbeddedPrivate
<1>10. RefsAllocated'
  BY <1>1, <1>5, <1>8 DEF RefsAllocated, Thread
<1>11. RootsSeen'
  BY <1>4, <1>5, <1>8 DEF RootsSeen
<1>12. Scanned'
  BY <1>1, <1>8 DEF Scanned, NoStaleMarks
<1>13. NoStaleMarks'
  BY <1>4 DEF NoStaleMarks, Mutating
<1>14. TasksCounted'
  <2>1. Tracing' = {}
    BY <1>4 DEF Tracing, Thread
  <2>2. parallelMode' => activeTasks' = 0
    BY <1>1 DEF BeginParallel, BeginSequential, Control
  <2>3. Len(workStack') = 0 /\ Cardinality(Tracing') = 0
    BY <1>1, <2>1, FS_EmptySet
  <2> QED
    BY <2>2, <2>3 DEF TasksCounted
<1>15. HeapFinite' /\ CountAgrees' /\ GarbageApart'
  BY <1>1 DEF HeapFinite, CountAgrees, GarbageApart, program
<1> QED
  BY <1>3, <1>6, <1>7, <1>9, <1>10, <1>11, <1>12, <1>13, <1>14, <1>15

\* What every step of the mark phase leaves alone.
LEMMA MarkingFrame ==
  ASSUME IInv, UNCHANGED <<program, garbage, objectCount>>
  PROVE  /\ EmbeddedPrivate' /\ HeapFinite' /\ GarbageApart' /\ CountAgrees'
         /\ Allocated' = Allocated /\ Roots' = Roots
         /\ UNCHANGED <<heap, refs>>
<1> USE DEF IInv, program
<1>1. Allocated' = Allocated /\ Roots' = Roots
  BY DEF Allocated, Roots
<1> QED
  BY <1>1 DEF EmbeddedPrivate, HeapFinite, GarbageApart, CountAgrees

LEMMA MarkableRefs ==
  ASSUME IInv, NEW t \in Thread, NEW c \in todo[t]
  PROVE  /\ c \in Obj /\ c \in Allocated
         /\ c \notin marked => refs[c] \subseteq Allocated
  BY DEF IInv, RefsAllocated, TypeOK

LEMMA TryMarkInv ==
  ASSUME IInv, NEW t \in Thread, NEW c \in Obj, TryMark(t, c)
  PROVE  IInv'
<1> USE DEF IInv
<1>1. /\ UNCHANGED <<program, parallelMode, workStack, activeTasks, pc, obj, garbage, stats>>
      /\ parallelMode /\ pc[t] \in {"seed", "trace"} /\ claimed[t] = NoObj
      /\ c \in todo[t] /\ c # NoObj
      /\ todo' = [todo EXCEPT ![t] = todo[t] \ {c}]
      /\ marked' = marked \cup {c}
      /\ claimed' = [claimed EXCEPT ![t] = IF c \notin marked THEN c ELSE NoObj]
  BY DEF TryMark, CallsMark, WinsTryMark
<1>2. TypeOK'
  <2>1. todo' \in [Thread -> SUBSET Obj]
    BY <1>1 DEF TypeOK
  <2>2. claimed' \in [Thread -> Obj \cup {NoObj}]
    BY <1>1 DEF TypeOK
  <2> QED
    BY <1>1, <2>1, <2>2 DEF TypeOK, program, stats
<1>3. /\ todo'[t] = todo[t] \ {c}
      /\ claimed'[t] = IF c \notin marked THEN c ELSE NoObj
      /\ \A u \in Thread : u # t => todo'[u] = todo[u] /\ claimed'[u] = claimed[u]
  BY <1>1 DEF TypeOK
<1>4. Control'
  BY <1>1, <1>3 DEF Control, Mutating, Thread
<1>5. \A u \in Thread : pc[u] # "done"
  BY <1>1 DEF NothingLeft, Tracing, Control, Thread
<1>6. NothingLeft'
  BY <1>1, <1>5 DEF NothingLeft
<1>7. Queued \subseteq Queued' \cup {NoObj} /\ Queued' \subseteq Queued \cup {NoObj} \cup (IF c \in marked THEN {} ELSE {c})
  BY <1>1, <1>3 DEF Queued
<1>8. c \notin marked => c \in Queued'
  BY <1>3 DEF Queued
<1>9. /\ Allocated' = Allocated /\ Roots' = Roots /\ UNCHANGED <<heap, refs>>
      /\ EmbeddedPrivate' /\ HeapFinite' /\ GarbageApart' /\ CountAgrees'
  BY <1>1, MarkingFrame DEF stats
<1>10. RefsAllocated'
  BY <1>1, <1>3, <1>7, <1>9, MarkableRefs DEF RefsAllocated
<1>11. RootsSeen'
  BY <1>1, <1>3, <1>9 DEF RootsSeen, Mutating, Control, Thread
<1>12. Scanned'
  <2> SUFFICES ASSUME NEW o \in heap, o \in marked', o \notin Queued',
                      NEW x \in refs[o], x \notin marked'
               PROVE  \E u \in Thread : obj[u] = o /\ x \in todo'[u]
    BY <1>1, <1>9 DEF Scanned
  <2>1. o \in marked /\ o # NoObj
    BY <1>1, <1>8 DEF TypeOK
  <2>2. o \notin Queued
    BY <1>7, <2>1
  <2>3. ~Mutating
    BY <1>1 DEF Control
  <2>4. PICK u \in Thread : obj[u] = o /\ x \in todo[u]
    BY <1>1, <2>1, <2>2, <2>3 DEF Scanned
  <2> QED
    BY <1>1, <1>3, <2>4
<1>13. NoStaleMarks'
  BY <1>1 DEF NoStaleMarks, Mutating, Control
<1>14. TasksCounted'
  BY <1>1 DEF TasksCounted, Tracing
<1> QED
  BY <1>2, <1>4, <1>6, <1>9, <1>10, <1>11, <1>12, <1>13, <1>14

LEMMA MarkGrayInv ==
  ASSUME IInv, NEW c \in Obj, MarkGray(c)
  PROVE  IInv'
<1> USE DEF IInv
<1>1. /\ UNCHANGED <<program, parallelMode, activeTasks, pc, obj, claimed, garbage, objectCount, lastSwept, totalSwept>>
      /\ ~parallelMode /\ pc[Main] \in {"seed", "trace"}
      /\ c \in todo[Main] /\ c # NoObj
      /\ todo' = [todo EXCEPT ![Main] = todo[Main] \ {c}]
      /\ marked' = marked \cup {c}
  BY DEF MarkGray, CallsMark
<1>2. /\ workStack' \in Seq(Obj)
      /\ lastMarked' \in Nat
      /\ c \in marked => Elements(workStack') = Elements(workStack)
      /\ c \notin marked => Elements(workStack') = Elements(workStack) \cup {c}
  <2>1. CASE c \in marked
    BY <2>1 DEF MarkGray, TypeOK
  <2>2. CASE c \notin marked
    <3>1. workStack' = Append(workStack, c) /\ lastMarked' = lastMarked + 1
      BY <2>2 DEF MarkGray, GrayAfterMark
    <3>2. workStack \in Seq(Obj) /\ lastMarked \in Nat
      BY DEF TypeOK
    <3> QED
      BY <2>2, <3>1, <3>2, AppendElements
  <2> QED
    BY <2>1, <2>2
<1>3. TypeOK'
  <2>1. todo' \in [Thread -> SUBSET Obj]
    BY <1>1 DEF TypeOK
  <2> QED
    BY <1>1, <1>2, <2>1 DEF TypeOK, program
<1>4. /\ todo'[Main] = todo[Main] \ {c}
      /\ \A u \in Thread : u # Main => todo'[u] = todo[u]
  BY <1>1 DEF TypeOK, Thread
<1>5. Control'
  BY <1>1, <1>4 DEF Control, Mutating, Thread
<1>6. \A u \in Thread : pc[u] # "done"
  BY <1>1 DEF Control, Thread
<1>7. NothingLeft'
  BY <1>1, <1>6 DEF NothingLeft
<1>8. /\ c \in marked => Queued' = Queued
      /\ c \notin marked => Queued' = Queued \cup {c}
  BY <1>1, <1>2 DEF Queued
<1>9. /\ Allocated' = Allocated /\ Roots' = Roots /\ UNCHANGED <<heap, refs>>
      /\ EmbeddedPrivate' /\ HeapFinite' /\ GarbageApart' /\ CountAgrees'
  BY <1>1, MarkingFrame
<1>10. RefsAllocated'
  BY <1>1, <1>4, <1>8, <1>9, MarkableRefs DEF RefsAllocated, Thread
<1>11. RootsSeen'
  BY <1>1, <1>4, <1>9 DEF RootsSeen, Mutating
<1>12. Scanned'
  <2> SUFFICES ASSUME NEW o \in heap, o \in marked', o \notin Queued',
                      NEW x \in refs[o], x \notin marked'
               PROVE  \E u \in Thread : obj[u] = o /\ x \in todo'[u]
    BY <1>1, <1>9 DEF Scanned
  <2>1. o \in marked /\ o \notin Queued /\ ~Mutating
    BY <1>1, <1>8 DEF Mutating
  <2>2. PICK u \in Thread : obj[u] = o /\ x \in todo[u]
    BY <1>1, <2>1 DEF Scanned
  <2> QED
    BY <1>1, <1>4, <2>2
<1>13. NoStaleMarks' /\ TasksCounted'
  BY <1>1 DEF NoStaleMarks, TasksCounted, Mutating
<1> QED
  BY <1>3, <1>5, <1>7, <1>9, <1>10, <1>11, <1>12, <1>13

LEMMA TracingFinite == Tracing \subseteq Thread /\ IsFiniteSet(Tracing) /\ Cardinality(Tracing) \in Nat
<1>1. IsFiniteSet(Thread)
  BY FS_AddElement DEF Thread
<1> QED
  BY <1>1, FS_Subset, FS_CardinalityType DEF Tracing

LEMMA PushTaskInv ==
  ASSUME IInv, NEW t \in Thread, PushTask(t)
  PROVE  IInv'
<1> USE DEF IInv
<1>1. /\ UNCHANGED <<program, marked, parallelMode, pc, obj, todo, garbage, stats>>
      /\ claimed[t] # NoObj /\ claimed[t] \in Obj
      /\ workStack' = Append(workStack, claimed[t])
      /\ claimed' = [claimed EXCEPT ![t] = NoObj]
      /\ activeTasks' = activeTasks + 1
      /\ pc[t] \in {"seed", "trace"} /\ parallelMode
  BY DEF PushTask, TasksAfterPush, TypeOK, Control
<1>2. /\ workStack' \in Seq(Obj) /\ Len(workStack') = Len(workStack) + 1
      /\ Elements(workStack') = Elements(workStack) \cup {claimed[t]}
      /\ Len(workStack) \in Nat
  BY <1>1, AppendElements DEF TypeOK
<1>3. TypeOK'
  BY <1>1, <1>2 DEF TypeOK, program, stats
<1>4. /\ claimed'[t] = NoObj
      /\ \A u \in Thread : u # t => claimed'[u] = claimed[u]
  BY <1>1 DEF TypeOK
<1>5. Control'
  BY <1>1, <1>4 DEF Control, Mutating
<1>6. NothingLeft'
  BY <1>1 DEF NothingLeft
<1>7. Queued' \subseteq Queued \cup {NoObj} /\ Queued \subseteq Queued'
  BY <1>2, <1>4 DEF Queued
<1>8. /\ Allocated' = Allocated /\ Roots' = Roots /\ UNCHANGED <<heap, refs>>
      /\ EmbeddedPrivate' /\ HeapFinite' /\ GarbageApart' /\ CountAgrees'
  BY <1>1, MarkingFrame DEF stats
<1>9. RefsAllocated'
  BY <1>1, <1>7, <1>8 DEF RefsAllocated
<1>10. RootsSeen' /\ NoStaleMarks'
  BY <1>1, <1>8 DEF RootsSeen, NoStaleMarks, Mutating
<1>11. Scanned'
  BY <1>1, <1>7, <1>8 DEF Scanned, Mutating
<1>12. TasksCounted'
  BY <1>1, <1>2, TracingFinite DEF TasksCounted, Tracing, TypeOK
<1> QED
  BY <1>3, <1>5, <1>6, <1>8, <1>9, <1>10, <1>11, <1>12

\* The steps of the main thread between the roots and the work loop, and a
\* thread's exit from it, only move control.
LEMMA ControlStepInv ==
  ASSUME IInv, ~Mutating, ~Mutating',
         UNCHANGED <<program, marked, parallelMode, workStack, activeTasks, obj,
                     todo, claimed, garbage, stats>>,
         TypeOK', Control', NothingLeft', Tracing' = Tracing,
         pc[Main] = "seed" => (pc'[Main] = "seed" \/ todo[Main] = {})
  PROVE  IInv'
<1> USE DEF IInv
<1>1. /\ Allocated' = Allocated /\ Roots' = Roots /\ UNCHANGED <<heap, refs>>
      /\ EmbeddedPrivate' /\ HeapFinite' /\ GarbageApart' /\ CountAgrees'
  BY MarkingFrame DEF stats
<1>2. Queued' = Queued
  BY DEF Queued
<1>3. RefsAllocated' /\ RootsSeen' /\ Scanned' /\ NoStaleMarks'
  BY <1>1, <1>2 DEF RefsAllocated, RootsSeen, Scanned, NoStaleMarks
<1>4. TasksCounted'
  BY DEF TasksCounted
<1> QED
  BY <1>1, <1>3, <1>4

LEMMA EndSeedInv ==
  ASSUME IInv, EndSeed
  PROVE  IInv'
<1> USE DEF IInv
<1>1. /\ UNCHANGED <<program, marked, parallelMode, workStack, activeTasks, obj, todo, claimed, garbage, stats>>
      /\ pc[Main] = "seed" /\ todo[Main] = {} /\ claimed[Main] = NoObj
      /\ pc' = [pc EXCEPT ![Main] = IF parallelMode THEN "spawn" ELSE "work"]
  BY DEF EndSeed, CallsMark
<1>2. /\ pc'[Main] = IF parallelMode THEN "spawn" ELSE "work"
      /\ \A w \in Worker : pc'[w] = pc[w] /\ pc[w] = "idle"
  BY <1>1 DEF TypeOK, Thread, Control
<1>3. TypeOK'
  <2>1. pc' \in [Thread -> {"mutate", "idle", "seed", "spawn", "work", "trace", "done"}]
    BY <1>1 DEF TypeOK
  <2> QED
    BY <1>1, <2>1 DEF TypeOK, program, stats
<1>4. Control'
  BY <1>1, <1>2 DEF Control, Mutating, Thread
<1>5. NothingLeft'
  BY <1>2 DEF NothingLeft, Thread
<1>6. Tracing' = Tracing
  BY <1>1, <1>2 DEF Tracing, Thread
<1>7. ~Mutating /\ ~Mutating'
  BY <1>1, <1>2 DEF Mutating
<1> QED
  BY <1>1, <1>3, <1>4, <1>5, <1>6, <1>7, ControlStepInv

LEMMA SpawnInv ==
  ASSUME IInv, NEW w \in Worker, Spawn(w)
  PROVE  IInv'
<1> USE DEF IInv
<1>1. /\ UNCHANGED <<program, marked, parallelMode, workStack, activeTasks, obj, todo, claimed, garbage, stats>>
      /\ pc[Main] = "spawn" /\ pc[w] = "idle" /\ parallelMode
      /\ pc' = [pc EXCEPT ![w] = "work"]
  BY DEF Spawn, Control
<1>2. /\ pc'[w] = "work" /\ pc'[Main] = "spawn"
      /\ \A u \in Thread : u # w => pc'[u] = pc[u]
  BY <1>1 DEF TypeOK, Thread
<1>3. TypeOK'
  <2>1. pc' \in [Thread -> {"mutate", "idle", "seed", "spawn", "work", "trace", "done"}]
    BY <1>1 DEF TypeOK
  <2> QED
    BY <1>1, <2>1 DEF TypeOK, program, stats
<1>4. Control'
  BY <1>1, <1>2 DEF Control, Mutating, Thread
<1>5. Tracing' = Tracing
  BY <1>1, <1>2 DEF Tracing, Thread
<1>6. NothingLeft'
  BY <1>1, <1>2, <1>5 DEF NothingLeft, Thread
<1>7. ~Mutating /\ ~Mutating'
  BY <1>1, <1>2 DEF Mutating
<1> QED
  BY <1>1, <1>3, <1>4, <1>5, <1>6, <1>7, ControlStepInv

LEMMA EndSpawnInv ==
  ASSUME IInv, EndSpawn
  PROVE  IInv'
<1> USE DEF IInv
<1>1. /\ UNCHANGED <<program, marked, parallelMode, workStack, activeTasks, obj, todo, claimed, garbage, stats>>
      /\ pc[Main] = "spawn"
      /\ pc' = [pc EXCEPT ![Main] = "work"]
  BY DEF EndSpawn
<1>2. /\ pc'[Main] = "work"
      /\ \A w \in Worker : pc'[w] = pc[w]
  BY <1>1 DEF TypeOK, Thread
<1>3. TypeOK'
  <2>1. pc' \in [Thread -> {"mutate", "idle", "seed", "spawn", "work", "trace", "done"}]
    BY <1>1 DEF TypeOK
  <2> QED
    BY <1>1, <2>1 DEF TypeOK, program, stats
<1>4. Control'
  BY <1>1, <1>2 DEF Control, Mutating, Thread
<1>5. Tracing' = Tracing
  BY <1>1, <1>2 DEF Tracing, Thread
<1>6. NothingLeft'
  BY <1>1, <1>2, <1>5 DEF NothingLeft, Thread
<1>7. ~Mutating /\ ~Mutating'
  BY <1>1, <1>2 DEF Mutating
<1> QED
  BY <1>1, <1>3, <1>4, <1>5, <1>6, <1>7, ControlStepInv

\* A thread leaves when nothing is queued, claimed or being traced: in parallel
\* mode because the task count is zero, otherwise because it is alone.
LEMMA ExitInv ==
  ASSUME IInv, NEW t \in Thread, Exit(t)
  PROVE  IInv'
<1> USE DEF IInv
<1>1. /\ UNCHANGED <<program, marked, parallelMode, workStack, activeTasks, obj, todo, claimed, garbage, stats>>
      /\ pc[t] = "work" /\ workStack = <<>>
      /\ parallelMode => activeTasks = 0
      /\ pc' = [pc EXCEPT ![t] = "done"]
  BY DEF Exit, NoTaskLeft
<1>2. /\ pc'[t] = "done"
      /\ \A u \in Thread : u # t => pc'[u] = pc[u]
  BY <1>1 DEF TypeOK
<1>3. TypeOK'
  <2>1. pc' \in [Thread -> {"mutate", "idle", "seed", "spawn", "work", "trace", "done"}]
    BY <1>1 DEF TypeOK
  <2> QED
    BY <1>1, <2>1 DEF TypeOK, program, stats
<1>4. ~Mutating /\ ~Mutating' /\ pc[Main] # "seed" /\ pc'[Main] # "seed"
  BY <1>1, <1>2 DEF Mutating, Control, Thread
<1>5. Tracing = {}
  <2>1. CASE parallelMode
    <3>1. Len(workStack) = 0 /\ Cardinality(Tracing) = 0
      BY <1>1, <2>1, TracingFinite DEF TasksCounted
    <3> QED
      BY <3>1, TracingFinite, FS_EmptySet
  <2>2. CASE ~parallelMode
    BY <1>1, <2>2 DEF Tracing, Control, Thread
  <2> QED
    BY <2>1, <2>2
<1>6. \A u \in Thread : claimed[u] = NoObj
  BY <1>4, <1>5 DEF Control, Tracing, Thread
<1>7. Tracing' = Tracing
  BY <1>1, <1>2 DEF Tracing
<1>8. Control'
  BY <1>1, <1>2, <1>4 DEF Control, Mutating, Thread
<1>9. NothingLeft'
  BY <1>1, <1>4, <1>5, <1>6, <1>7 DEF NothingLeft
<1> QED
  BY <1>1, <1>3, <1>4, <1>7, <1>8, <1>9, ControlStepInv

LEMMA PopTaskInv ==
  ASSUME IInv, NEW t \in Thread, PopTask(t)
  PROVE  IInv'
<1> USE DEF IInv
<1> DEFINE o == workStack[Len(workStack)]
<1>1. /\ UNCHANGED <<program, marked, parallelMode, activeTasks, claimed, garbage, stats>>
      /\ pc[t] = "work" /\ workStack # <<>> /\ workStack \in Seq(Obj)
      /\ obj' = [obj EXCEPT ![t] = o]
      /\ todo' = [todo EXCEPT ![t] = refs[o]]
      /\ workStack' = SubSeq(workStack, 1, Len(workStack) - 1)
      /\ pc' = [pc EXCEPT ![t] = "trace"]
  BY DEF PopTask, ReportedByTrace, TypeOK
<1>2. /\ workStack' \in Seq(Obj) /\ Len(workStack') = Len(workStack) - 1
      /\ o \in Obj /\ o # NoObj
      /\ Elements(workStack) = Elements(workStack') \cup {o}
      /\ Len(workStack) \in Nat
  BY <1>1, PopElements
<1> HIDE DEF o
<1>3. TypeOK'
  <2>1. pc' \in [Thread -> {"mutate", "idle", "seed", "spawn", "work", "trace", "done"}]
    BY <1>1 DEF TypeOK
  <2>2. obj' \in [Thread -> Obj \cup {NoObj}] /\ todo' \in [Thread -> SUBSET Obj]
    BY <1>1, <1>2 DEF TypeOK
  <2> QED
    BY <1>1, <1>2, <2>1, <2>2 DEF TypeOK, program, stats
<1>4. /\ pc'[t] = "trace" /\ obj'[t] = o /\ todo'[t] = refs[o]
      /\ \A u \in Thread : u # t => pc'[u] = pc[u] /\ obj'[u] = obj[u] /\ todo'[u] = todo[u]
      /\ obj[t] = NoObj
  BY <1>1 DEF TypeOK, Control
<1>5. ~Mutating /\ ~Mutating' /\ (pc[Main] = "seed" <=> pc'[Main] = "seed")
  BY <1>1, <1>4 DEF Mutating, Control, Thread
<1>6. Control'
  BY <1>1, <1>2, <1>4, <1>5 DEF Control, Mutating, Thread
<1>7. NothingLeft'
  BY <1>1, <1>4 DEF NothingLeft
<1>8. Queued \subseteq Queued' \cup {o} /\ Queued' \subseteq Queued /\ o \in Queued
  BY <1>1, <1>2 DEF Queued
<1>9. /\ Allocated' = Allocated /\ Roots' = Roots /\ UNCHANGED <<heap, refs>>
      /\ EmbeddedPrivate' /\ HeapFinite' /\ GarbageApart' /\ CountAgrees'
  BY <1>1, MarkingFrame DEF stats
<1>10. RefsAllocated'
  BY <1>1, <1>2, <1>4, <1>8, <1>9 DEF RefsAllocated
<1>11. RootsSeen' /\ NoStaleMarks'
  BY <1>1, <1>4, <1>5, <1>9 DEF RootsSeen, NoStaleMarks, Control, Thread
<1>12. Scanned'
  <2> SUFFICES ASSUME NEW x \in heap, x \in marked, x \notin Queued',
                      NEW c \in refs[x], c \notin marked
               PROVE  \E u \in Thread : obj'[u] = x /\ c \in todo'[u]
    BY <1>1, <1>9 DEF Scanned
  <2>1. CASE x = o
    BY <1>4, <2>1
  <2>2. CASE x # o
    <3>1. PICK u \in Thread : obj[u] = x /\ c \in todo[u]
      BY <1>5, <1>8, <2>2 DEF Scanned
    <3>2. x # NoObj
      BY DEF TypeOK
    <3> QED
      BY <1>4, <3>1, <3>2
  <2> QED
    BY <2>1, <2>2
<1>13. TasksCounted'
  <2>1. Tracing' = Tracing \cup {t} /\ t \notin Tracing
    BY <1>1, <1>4 DEF Tracing
  <2>2. Cardinality(Tracing') = Cardinality(Tracing) + 1
    BY <2>1, TracingFinite, FS_AddElement
  <2> QED
    BY <1>1, <1>2, <2>2, TracingFinite DEF TasksCounted
<1> QED
  BY <1>3, <1>6, <1>7, <1>9, <1>10, <1>11, <1>12, <1>13

LEMMA FinishTaskInv ==
  ASSUME IInv, NEW t \in Thread, FinishTask(t)
  PROVE  IInv'
<1> USE DEF IInv
<1>1. /\ UNCHANGED <<program, marked, parallelMode, workStack, todo, claimed, garbage, stats>>
      /\ pc[t] = "trace" /\ todo[t] = {} /\ claimed[t] = NoObj
      /\ activeTasks' = IF parallelMode THEN activeTasks - 1 ELSE activeTasks
      /\ obj' = [obj EXCEPT ![t] = NoObj]
      /\ pc' = [pc EXCEPT ![t] = "work"]
      /\ Len(workStack) \in Nat
  BY DEF FinishTask, CallsMark, TasksAfterTrace, TypeOK
<1>2. /\ pc'[t] = "work" /\ obj'[t] = NoObj
      /\ \A u \in Thread : u # t => pc'[u] = pc[u] /\ obj'[u] = obj[u]
  BY <1>1 DEF TypeOK
<1>3. /\ Tracing = Tracing' \cup {t} /\ t \notin Tracing'
      /\ IsFiniteSet(Tracing') /\ Cardinality(Tracing') \in Nat
      /\ Cardinality(Tracing) = Cardinality(Tracing') + 1
  <2>1. Tracing = Tracing' \cup {t} /\ t \notin Tracing'
    BY <1>1, <1>2 DEF Tracing
  <2>2. IsFiniteSet(Tracing')
    BY <2>1, TracingFinite, FS_Subset
  <2> QED
    BY <2>1, <2>2, FS_AddElement, FS_CardinalityType
<1>4. TypeOK' /\ TasksCounted'
  <2>1. pc' \in [Thread -> {"mutate", "idle", "seed", "spawn", "work", "trace", "done"}]
    BY <1>1 DEF TypeOK
  <2>2. obj' \in [Thread -> Obj \cup {NoObj}]
    BY <1>1 DEF TypeOK
  <2>3. parallelMode => activeTasks' = Len(workStack') + Cardinality(Tracing')
    BY <1>1, <1>3 DEF TasksCounted
  <2>4. activeTasks' \in Nat
    BY <1>1, <1>3, <2>3 DEF TypeOK
  <2> QED
    BY <1>1, <2>1, <2>2, <2>3, <2>4 DEF TypeOK, TasksCounted, program, stats
<1>5. ~Mutating /\ ~Mutating' /\ (pc[Main] = "seed" <=> pc'[Main] = "seed")
  BY <1>1, <1>2 DEF Mutating, Control, Thread
<1>6. Control'
  BY <1>1, <1>2, <1>5 DEF Control, Mutating, Thread
<1>7. NothingLeft'
  BY <1>1, <1>2, <1>3, <1>5 DEF NothingLeft
<1>8. /\ Allocated' = Allocated /\ Roots' = Roots /\ UNCHANGED <<heap, refs>>
      /\ EmbeddedPrivate' /\ HeapFinite' /\ GarbageApart' /\ CountAgrees'
  BY <1>1, MarkingFrame DEF stats
<1>9. Queued' = Queued
  BY <1>1 DEF Queued
<1>10. RefsAllocated'
  BY <1>1, <1>2, <1>8, <1>9 DEF RefsAllocated
<1>11. RootsSeen' /\ NoStaleMarks'
  BY <1>1, <1>5, <1>8 DEF RootsSeen, NoStaleMarks
<1>12. Scanned'
  BY <1>1, <1>2, <1>5, <1>8, <1>9 DEF Scanned
<1> QED
  BY <1>4, <1>6, <1>7, <1>8, <1>10, <1>11, <1>12

\* When the sweep starts, marking is complete: the roots are marked, and so is
\* all that a marked linked object refers to.
LEMMA MarkingComplete ==
  ASSUME IInv, NEW t \in Thread, pc[t] = "done"
  PROVE  /\ Roots \subseteq marked
         /\ \A o \in heap \cap marked : refs[o] \subseteq marked
         /\ Queued \subseteq {NoObj}
         /\ \A u \in Thread : todo[u] = {} /\ obj[u] = NoObj
<1> USE DEF IInv
<1>1. /\ pc[Main] # "seed" /\ workStack = <<>> /\ Tracing = {}
      /\ \A u \in Thread : claimed[u] = NoObj
  BY DEF NothingLeft
<1>2. ~Mutating
  BY DEF Control, Mutating, Thread
<1>3. \A u \in Thread : todo[u] = {} /\ obj[u] = NoObj
  BY <1>1 DEF Control, Tracing, Thread
<1>4. Queued \subseteq {NoObj}
  BY <1>1, EmptyElements DEF Queued
<1>5. Roots \subseteq marked
  BY <1>1, <1>2 DEF RootsSeen
<1>6. \A o \in heap \cap marked : refs[o] \subseteq marked
  BY <1>2, <1>3, <1>4 DEF Scanned, TypeOK
<1> QED
  BY <1>3, <1>4, <1>5, <1>6

LEMMA SweepInv ==
  ASSUME IInv, Sweep
  PROVE  IInv'
<1> USE DEF IInv
<1> DEFINE dead == heap \ marked
<1>1. /\ heap' = heap \cap marked
      /\ garbage' = garbage \cup dead
      /\ objectCount' = objectCount - Cardinality(dead)
      /\ lastSwept' = lastSwept + Cardinality(dead)
      /\ totalSwept' = totalSwept + Cardinality(dead)
      /\ marked' = marked \ heap
      /\ parallelMode' = FALSE
      /\ pc' = [t \in Thread |-> IF t = Main THEN "mutate" ELSE "idle"]
      /\ UNCHANGED <<refs, vmRoots, tempRoots, workStack, activeTasks, obj, todo, claimed, lastMarked>>
      /\ pc[Main] = "done"
  BY DEF Sweep, CountSwept, MarksAfterSweep
<1>2. /\ Main \in Thread
      /\ Roots \subseteq marked
      /\ \A o \in heap \cap marked : refs[o] \subseteq marked
      /\ Queued \subseteq {NoObj} /\ workStack = <<>>
      /\ \A u \in Thread : todo[u] = {} /\ obj[u] = NoObj /\ claimed[u] = NoObj
  BY <1>1, MarkingComplete DEF Thread, NothingLeft
<1>3. /\ IsFiniteSet(dead) /\ Cardinality(dead) \in Nat
      /\ IsFiniteSet(heap')
      /\ Cardinality(heap') = Cardinality(heap) - Cardinality(dead)
      /\ Cardinality(heap') \in Nat
  <2>1. IsFiniteSet(heap)
    BY DEF HeapFinite
  <2>2. IsFiniteSet(dead) /\ Cardinality(dead) \in Nat
    BY <2>1, FS_Subset, FS_CardinalityType
  <2>3. IsFiniteSet(heap \cap marked) /\ Cardinality(heap \cap marked) \in Nat
    BY <2>1, FS_Subset, FS_CardinalityType
  <2>4. Cardinality(heap) \in Nat /\ heap \cap dead = dead /\ heap \ dead = heap \cap marked
    BY <2>1, FS_CardinalityType
  <2>5. Cardinality(heap \ dead) = Cardinality(heap) - Cardinality(heap \cap dead)
    BY <2>1, <2>2, FS_Difference
  <2> QED
    BY <1>1, <2>2, <2>3, <2>4, <2>5
<1>4. HeapFinite' /\ CountAgrees'
  BY <1>1, <1>3 DEF HeapFinite, CountAgrees
<1> HIDE DEF dead
<1>5. TypeOK'
  <2>1. pc' \in [Thread -> {"mutate", "idle", "seed", "spawn", "work", "trace", "done"}]
    BY <1>1
  <2>2. heap' \subseteq Obj \ Embedded /\ garbage' \subseteq Obj \ Embedded /\ marked' \subseteq Obj
    BY <1>1 DEF TypeOK, dead
  <2>3. objectCount' \in Nat /\ lastSwept' \in Nat /\ totalSwept' \in Nat
    BY <1>1, <1>3, <1>4 DEF TypeOK, CountAgrees
  <2> QED
    BY <1>1, <2>1, <2>2, <2>3 DEF TypeOK
<1>6. /\ pc'[Main] = "mutate"
      /\ \A w \in Worker : pc'[w] = "idle"
  BY <1>1 DEF Thread
<1>7. Control'
  BY <1>1, <1>2, <1>6 DEF Control, Mutating, Thread
<1>8. NothingLeft'
  BY <1>6 DEF NothingLeft, Thread
<1>9. Roots' = Roots
  BY <1>1 DEF Roots
<1>10. EmbeddedPrivate'
  BY <1>1, <1>9 DEF EmbeddedPrivate
<1>11. \A x \in marked : x \in Allocated /\ (x \in Embedded => Owner[x] \in marked)
                         => x \in Allocated'
  BY <1>1 DEF Allocated, TypeOK
<1>12. \A o \in heap' : refs[o] \subseteq Allocated'
  <2> SUFFICES ASSUME NEW o \in heap \cap marked, NEW c \in refs[o]
               PROVE  c \in Allocated'
    BY <1>1
  <2>1. c \in marked /\ o \in Allocated /\ o \notin Embedded /\ o \in Obj
    BY <1>2 DEF Allocated, TypeOK
  <2>2. c \in Allocated
    BY <2>1 DEF RefsAllocated
  <2>3. c \in Embedded => Owner[c] = o
    BY <2>1 DEF EmbeddedPrivate
  <2> QED
    BY <1>11, <2>1, <2>2, <2>3
<1>13. \A d \in Embedded : d \in Allocated' => d \in marked'
  <2> SUFFICES ASSUME NEW d \in Embedded, d \in Allocated'
               PROVE  d \in marked'
    OBVIOUS
  <2>1. d \notin heap /\ Owner[d] \in heap \cap marked
    BY <1>1 DEF Allocated, TypeOK
  <2>2. d \in refs[Owner[d]]
    BY <2>1 DEF EmbeddedPrivate
  <2> QED
    BY <1>1, <1>2, <2>1, <2>2
<1>14. RefsAllocated'
  <2>1. Roots' \subseteq Allocated'
    BY <1>2, <1>9, <1>11 DEF RefsAllocated, EmbeddedPrivate
  <2>2. \A x \in Allocated' : (x \in Embedded /\ x \in marked') \/ refs'[x] \subseteq Allocated'
    BY <1>1, <1>12, <1>13 DEF Allocated
  <2>3. Queued' \subseteq {NoObj}
    BY <1>1, <1>2 DEF Queued
  <2> QED
    BY <1>1, <1>2, <2>1, <2>2, <2>3 DEF RefsAllocated
<1>15. Mutating'
  BY <1>6 DEF Mutating
<1>16. RootsSeen' /\ Scanned' /\ NoStaleMarks' /\ TasksCounted'
  BY <1>1, <1>15 DEF RootsSeen, Scanned, NoStaleMarks, TasksCounted
<1>17. GarbageApart'
  BY <1>1 DEF GarbageApart, dead
<1> QED
  BY <1>4, <1>5, <1>7, <1>8, <1>10, <1>14, <1>16, <1>17

\* A detached deleter touches nothing that is linked, queued or being traced.
LEMMA DeleteInv ==
  ASSUME IInv, NEW o \in Obj, Delete(o)
  PROVE  IInv'
<1> USE DEF IInv
<1> DEFINE gone == {o} \cup EmbeddedIn(o)
<1>1. /\ o \in garbage /\ garbage' = garbage \ {o}
      /\ refs' = [p \in Obj |-> IF p \in gone THEN {} ELSE refs[p]]
      /\ marked' = marked \ gone
      /\ UNCHANGED <<heap, vmRoots, tempRoots, parallelMode, workStack, activeTasks, pc, obj, todo, claimed, stats>>
  BY DEF Delete
<1>2. /\ o \notin heap /\ o \notin Embedded
      /\ gone \subseteq Obj /\ gone \cap Allocated = {}
  BY <1>1 DEF GarbageApart, Allocated, EmbeddedIn, TypeOK
<1> HIDE DEF gone
<1>3. TypeOK'
  BY <1>1 DEF TypeOK, stats
<1>4. Control' /\ NothingLeft' /\ TasksCounted' /\ HeapFinite' /\ CountAgrees'
  BY <1>1 DEF Control, NothingLeft, TasksCounted, HeapFinite, CountAgrees, Mutating, Tracing, stats
<1>5. Roots' = Roots /\ Allocated' = Allocated /\ Queued' = Queued
  BY <1>1 DEF Roots, Allocated, Queued
<1>6. \A x \in Allocated : /\ x \in Obj /\ refs'[x] = refs[x]
                           /\ x \in marked' <=> x \in marked
  BY <1>1, <1>2 DEF Allocated, TypeOK
<1>7. EmbeddedPrivate'
  <2>1. \A d \in Embedded : Owner[d] \in heap => Owner[d] \in Allocated
    BY DEF Allocated
  <2>2. \A x \in Obj : refs'[x] \subseteq refs[x]
    BY <1>1
  <2> QED
    BY <1>1, <1>5, <1>6, <2>1, <2>2 DEF EmbeddedPrivate
<1>8. RefsAllocated'
  BY <1>1, <1>5, <1>6 DEF RefsAllocated
<1>9. RootsSeen'
  BY <1>1, <1>5, <1>6 DEF RootsSeen, RefsAllocated, Mutating
<1>10. heap \subseteq Allocated /\ \A x \in heap : x \notin Embedded
  BY DEF Allocated, TypeOK
<1>11. Scanned'
  <2> SUFFICES ASSUME ~Mutating, NEW x \in heap, x \in marked, x \notin Queued,
                      NEW c \in refs[x], c \notin marked'
               PROVE  \E t \in Thread : obj[t] = x /\ c \in todo[t]
    BY <1>1, <1>5, <1>6, <1>10 DEF Scanned, Mutating
  <2>1. c \in Allocated
    BY <1>10 DEF RefsAllocated
  <2> QED
    BY <1>6, <2>1 DEF Scanned
<1>12. NoStaleMarks' /\ GarbageApart'
  BY <1>1 DEF NoStaleMarks, GarbageApart, Mutating
<1> QED
  BY <1>3, <1>4, <1>7, <1>8, <1>9, <1>11, <1>12

LEMMA StutterInv ==
  ASSUME IInv, UNCHANGED vars
  PROVE  IInv'
<1> USE DEF IInv, vars, program, marking, stats
<1>1. TypeOK'
  BY DEF TypeOK
<1>2. /\ Roots' = Roots /\ Allocated' = Allocated /\ Queued' = Queued
      /\ Mutating' = Mutating /\ Tracing' = Tracing
  BY DEF Roots, Allocated, Queued, Mutating, Tracing
<1>3. Control' /\ NothingLeft' /\ TasksCounted' /\ HeapFinite' /\ CountAgrees'
  BY <1>2 DEF Control, NothingLeft, TasksCounted, HeapFinite, CountAgrees
<1>4. EmbeddedPrivate' /\ RefsAllocated' /\ RootsSeen' /\ Scanned'
  BY <1>2 DEF EmbeddedPrivate, RefsAllocated, RootsSeen, Scanned
<1>5. NoStaleMarks' /\ GarbageApart'
  BY <1>2 DEF NoStaleMarks, GarbageApart
<1> QED
  BY <1>1, <1>3, <1>4, <1>5

-----------------------------------------------------------------------------
LEMMA NextInv == IInv /\ [Next]_vars => IInv'
<1> SUFFICES ASSUME IInv, [Next]_vars PROVE IInv'
  OBVIOUS
<1>1. ASSUME Program PROVE IInv'
  <2>1. ASSUME NEW o \in Obj, New(o) \/ Load(o) \/ Drop(o) \/ PushRoot(o)
        PROVE  IInv'
    BY <2>1, NewInv, RootActionsInv
  <2>2. ASSUME NEW o \in Obj, NEW p \in Obj, Link(o, p) \/ Unlink(o, p)
        PROVE  IInv'
    BY <2>2, LinkInv, UnlinkInv
  <2>3. ASSUME PopRoot PROVE IInv'
    BY <2>3, PopRootInv
  <2>4. ASSUME FreeAll \/ BeginParallel \/ BeginSequential PROVE IInv'
    BY <2>4, FreeAllInv, BeginInv
  <2> QED
    BY <1>1, <2>1, <2>2, <2>3, <2>4 DEF Program
<1>2. ASSUME MainStep PROVE IInv'
  BY <1>2, MarkGrayInv, EndSeedInv, SpawnInv, EndSpawnInv, SweepInv DEF MainStep
<1>3. ASSUME NEW t \in Thread, ThreadStep(t) PROVE IInv'
  BY <1>3, TryMarkInv, PushTaskInv, PopTaskInv, FinishTaskInv, ExitInv, StutterInv
  DEF ThreadStep, Yield
<1>4. ASSUME Deleter PROVE IInv'
  BY <1>4, DeleteInv DEF Deleter
<1> QED
  BY <1>1, <1>2, <1>3, <1>4, StutterInv DEF Next

\* The invariant holds in every state of every execution.
THEOREM Invariance == Spec => []IInv
  BY InitInv, NextInv, PTL DEF Spec

\* Every variable keeps its type; in particular active_tasks_ and
\* object_count_ never go below zero (gc.cc, ProcessWorkStack and Sweep).
THEOREM TypeCorrect == Spec => []TypeOK
<1>1. IInv => TypeOK
  BY DEF IInv
<1> QED
  BY <1>1, Invariance, PTL

\* active_tasks_ is the number of queued objects plus the number of threads
\* inside a Trace() (gc.cc, MarkParallel and ProcessWorkStack).
THEOREM TaskCount == Spec => []TasksCounted
<1>1. IInv => TasksCounted
  BY DEF IInv
<1> QED
  BY <1>1, Invariance, PTL

\* Between collections every linked object's mark bit is clear, so that the next
\* collection traces it (gc.cc, Sweep).
THEOREM MarkBits == Spec => []NoStaleMarks
<1>1. IInv => NoStaleMarks
  BY DEF IInv
<1> QED
  BY <1>1, Invariance, PTL

\* object_count_ is the length of all_objects_ (gc.cc, Sweep; gc.h, New).
THEOREM ObjectCount == Spec => []CountAgrees
<1>1. IInv => CountAgrees
  BY DEF IInv
<1> QED
  BY <1>1, Invariance, PTL

\* Termination detection is sound: once any thread has left ProcessWorkStack,
\* all the roots are marked and every marked object has been scanned.
THEOREM Termination == Spec => []ExitOnlyWhenDone
<1>1. IInv => ExitOnlyWhenDone
  BY MarkingComplete DEF IInv, ExitOnlyWhenDone, NothingLeft
<1> QED
  BY <1>1, Invariance, PTL

\* No linked object and no root refers to a swept object.
THEOREM Safety == Spec => []LinkedRefsAllocated
<1>1. IInv => LinkedRefsAllocated
  BY DEF IInv, LinkedRefsAllocated, RefsAllocated, Allocated, TypeOK
<1> QED
  BY <1>1, Invariance, PTL

\* The mark phase never touches memory that a detached deleter may free.
THEOREM TracingSafety == Spec => []NoTracingOfGarbage
<1>1. IInv => NoTracingOfGarbage
  <2> SUFFICES ASSUME IInv PROVE NoTracingOfGarbage
    OBVIOUS
  <2>1. Elements(workStack) \subseteq Obj
    BY DEF IInv, TypeOK, Elements
  <2>2. Elements(workStack) \subseteq Allocated
    BY <2>1 DEF IInv, RefsAllocated, Queued
  <2>3. \A t \in Thread : claimed[t] \in Allocated \cup {NoObj}
    BY DEF IInv, RefsAllocated, Queued
  <2>4. \A t \in Thread : obj[t] \in Allocated \cup {NoObj} /\ todo[t] \subseteq Allocated
    BY DEF IInv, RefsAllocated
  <2> QED
    BY <2>2, <2>3, <2>4 DEF NoTracingOfGarbage
<1> QED
  BY <1>1, Invariance, PTL

\* If nothing is embedded in anything else, no reachable object is ever swept.
THEOREM ReachableSafety ==
  ASSUME Embedded = {}
  PROVE  Spec => []ReachableAllocated
<1>1. IInv => ReachableAllocated
  <2> SUFFICES ASSUME IInv PROVE Reachable \subseteq Allocated
    BY DEF ReachableAllocated
  <2>1. Allocated \in SUBSET Obj /\ Roots \subseteq Allocated
    BY DEF IInv, RefsAllocated, Allocated, TypeOK
  <2>2. H!ClosedUnder(Allocated, refs)
    BY DEF H!ClosedUnder, IInv, RefsAllocated
  <2> QED
    BY <2>1, <2>2 DEF Reachable, H!Reachable, H!ReachFrom
<1> QED
  BY <1>1, Invariance, PTL

-----------------------------------------------------------------------------
(* No object is traced twice.  Whoever holds an object, the stack or a      *)
(* thread, has won its mark bit; the bit stays set while anybody holds it,   *)
(* so that nobody wins it again.                                            *)

\* Every object in hand is marked, and is in one hand only.
Claims ==
  /\ Elements(workStack) \subseteq marked
  /\ \A t \in Thread : obj[t] \in marked \cup {NoObj} /\ claimed[t] \in marked \cup {NoObj}
  /\ \A t, u \in Thread : obj[t] = claimed[u] => obj[t] = NoObj
  /\ OneTracerPerObject

Distinct(s) == \A i, j \in DOMAIN s : s[i] = s[j] => i = j

LEMMA AppendDistinct ==
  ASSUME NEW S, NEW s \in Seq(S), NEW x \in S, Distinct(s), x \notin Elements(s)
  PROVE  Distinct(Append(s, x))
<1> DEFINE r == Append(s, x)
<1>1. /\ DOMAIN r = 1 .. Len(s) + 1 /\ DOMAIN s = 1 .. Len(s) /\ Len(s) \in Nat
      /\ r[Len(s) + 1] = x /\ \A i \in 1 .. Len(s) : r[i] = s[i]
  OBVIOUS
<1>2. \A i \in 1 .. Len(s) : r[i] # x
  BY <1>1 DEF Elements
<1>3. \A i \in DOMAIN r : i \in 1 .. Len(s) \/ i = Len(s) + 1
  BY <1>1
<1> HIDE DEF r
<1>4. Distinct(r)
  BY <1>1, <1>2, <1>3 DEF Distinct
<1> QED
  BY <1>4 DEF r

LEMMA PopDistinct ==
  ASSUME NEW S, NEW s \in Seq(S), s # <<>>, Distinct(s)
  PROVE  LET p == SubSeq(s, 1, Len(s) - 1)
         IN  Distinct(p) /\ s[Len(s)] \notin Elements(p)
<1> DEFINE p == SubSeq(s, 1, Len(s) - 1)
<1>1. Len(s) \in Nat /\ Len(s) > 0 /\ DOMAIN s = 1 .. Len(s)
  OBVIOUS
<1>2. DOMAIN p = 1 .. Len(s) - 1 /\ \A i \in 1 .. Len(s) - 1 : p[i] = s[i]
  BY <1>1
<1> HIDE DEF p
<1>3. \A i \in DOMAIN p : i \in DOMAIN s /\ i # Len(s)
  BY <1>1, <1>2
<1>4. Distinct(p)
  BY <1>2, <1>3 DEF Distinct
<1>5. s[Len(s)] \notin Elements(p)
  BY <1>1, <1>2, <1>3 DEF Distinct, Elements
<1> QED
  BY <1>4, <1>5 DEF p

-----------------------------------------------------------------------------
LEMMA NothingInHand ==
  ASSUME workStack' = <<>>, \A t \in Thread : obj'[t] = NoObj /\ claimed'[t] = NoObj
  PROVE  Claims'
<1>1. DOMAIN workStack' = {} /\ Elements(workStack)' = {}
  BY DEF Elements
<1> QED
  BY <1>1 DEF Claims, OneTracerPerObject

LEMMA ProgramClaims ==
  ASSUME IInv, Program
  PROVE  Claims'
<1>1. Mutating /\ workStack' \in {workStack, <<>>} /\ UNCHANGED <<obj, claimed>>
  BY DEF Program, New, Load, Drop, PushRoot, Link, Unlink, PopRoot, FreeAll, BeginParallel,
         BeginSequential, marking
<1>2. workStack = <<>>
  BY <1>1 DEF IInv, Control
<1>3. \A t \in Thread : pc[t] \notin {"seed", "trace"}
  BY <1>1 DEF IInv, Control, Mutating, Thread
<1>4. \A t \in Thread : obj[t] = NoObj /\ claimed[t] = NoObj
  BY <1>3 DEF IInv, Control
<1> QED
  BY <1>1, <1>2, <1>4, NothingInHand

\* A step that gives nobody an object and takes no mark.
LEMMA ClaimsStay ==
  ASSUME IInv, Claims, UNCHANGED <<workStack, claimed>>, marked \subseteq marked',
         \A t \in Thread : obj'[t] \in {obj[t], NoObj}
  PROVE  Claims'
<1>1. Elements(workStack') = Elements(workStack)
  OBVIOUS
<1>2. /\ Elements(workStack') \subseteq marked'
      /\ \A t \in Thread : obj'[t] \in marked' \cup {NoObj} /\ claimed'[t] \in marked' \cup {NoObj}
  BY <1>1 DEF Claims
<1>3. \A t, u \in Thread : obj'[t] = claimed'[u] => obj'[t] = NoObj
  BY DEF Claims
<1>4. Distinct(workStack')
  BY DEF Claims, OneTracerPerObject, Distinct
<1>5. \A t, u \in Thread : t # u =>
        /\ obj'[t] = obj'[u] => obj'[t] = NoObj
        /\ claimed'[t] = claimed'[u] => claimed'[t] = NoObj
  BY DEF Claims, OneTracerPerObject
<1>6. NoObj \notin Elements(workStack)
  BY DEF IInv, TypeOK, Elements
<1>7. \A t \in Thread : \A x \in {obj'[t], claimed'[t]} : x \notin Elements(workStack')
  BY <1>1, <1>6 DEF Claims, OneTracerPerObject
<1> QED
  BY <1>2, <1>3, <1>4, <1>5, <1>7 DEF Claims, OneTracerPerObject, Distinct

LEMMA Unclaimed ==
  ASSUME Claims, NEW c \in Obj, c \notin marked
  PROVE  /\ c # NoObj /\ c \notin Elements(workStack)
         /\ \A u \in Thread : obj[u] # c /\ claimed[u] # c
<1>1. c # NoObj
  OBVIOUS
<1>2. c \notin Elements(workStack)
  BY DEF Claims
<1> QED
  BY <1>1, <1>2 DEF Claims

LEMMA TryMarkClaims ==
  ASSUME IInv, Claims, NEW t \in Thread, NEW c \in Obj, TryMark(t, c)
  PROVE  Claims'
<1>1. /\ UNCHANGED <<workStack, obj>> /\ marked' = marked \cup {c}
      /\ claimed[t] = NoObj
      /\ c \in marked => claimed'[t] = NoObj
      /\ c \notin marked => claimed'[t] = c
      /\ \A u \in Thread : u # t => claimed'[u] = claimed[u]
  BY DEF TryMark, CallsMark, WinsTryMark, IInv, TypeOK
<1>2. CASE c \in marked
  <2>1. \A u \in Thread : claimed'[u] = claimed[u]
    BY <1>1, <1>2
  <2> QED
    BY <1>1, <2>1 DEF Claims, OneTracerPerObject
<1>3. CASE c \notin marked
  <2>1. c # NoObj /\ c \notin Elements(workStack)
        /\ \A u \in Thread : obj[u] # c /\ claimed[u] # c
    BY <1>3, Unclaimed
  <2> QED
    BY <1>1, <1>3, <2>1 DEF Claims, OneTracerPerObject
<1> QED
  BY <1>2, <1>3

LEMMA MarkGrayClaims ==
  ASSUME IInv, Claims, NEW c \in Obj, MarkGray(c)
  PROVE  Claims'
<1>1. UNCHANGED <<obj, claimed>>
  BY DEF MarkGray
<1>2. CASE c \in marked
  BY <1>1, <1>2, ClaimsStay DEF MarkGray
<1>3. CASE c \notin marked
  <2>1. marked' = marked \cup {c} /\ workStack' = Append(workStack, c)
    BY <1>3 DEF MarkGray, GrayAfterMark
  <2>2. c # NoObj /\ c \notin Elements(workStack)
        /\ \A u \in Thread : obj[u] # c /\ claimed[u] # c
    BY <1>3, Unclaimed
  <2>3. workStack \in Seq(Obj) /\ Distinct(workStack)
    BY DEF IInv, TypeOK, Claims, OneTracerPerObject, Distinct
  <2>4. Elements(workStack') = Elements(workStack) \cup {c} /\ Distinct(workStack')
    BY <2>1, <2>2, <2>3, AppendElements, AppendDistinct
  <2> QED
    BY <1>1, <2>1, <2>2, <2>4 DEF Claims, OneTracerPerObject, Distinct
<1> QED
  BY <1>2, <1>3

LEMMA PushTaskClaims ==
  ASSUME IInv, Claims, NEW t \in Thread, PushTask(t)
  PROVE  Claims'
<1> DEFINE c == claimed[t]
<1>1. /\ UNCHANGED <<marked, obj>> /\ c # NoObj /\ c \in Obj
      /\ workStack' = Append(workStack, c)
      /\ claimed'[t] = NoObj
      /\ \A u \in Thread : u # t => claimed'[u] = claimed[u]
  BY DEF PushTask, IInv, TypeOK
<1>2. /\ c \in marked /\ c \notin Elements(workStack)
      /\ \A u \in Thread : obj[u] # c /\ (u # t => claimed[u] # c)
  BY <1>1 DEF Claims, OneTracerPerObject
<1>3. workStack \in Seq(Obj) /\ Distinct(workStack)
  BY DEF IInv, TypeOK, Claims, OneTracerPerObject, Distinct
<1> HIDE DEF c
<1>4. Elements(workStack') = Elements(workStack) \cup {c} /\ Distinct(workStack')
  BY <1>1, <1>2, <1>3, AppendElements, AppendDistinct
<1>5. \A u \in Thread : claimed'[u] \in {claimed[u], NoObj} /\ claimed'[u] # c
  BY <1>1, <1>2
<1>6. /\ Elements(workStack') \subseteq marked'
      /\ \A u \in Thread : obj'[u] \in marked' \cup {NoObj} /\ claimed'[u] \in marked' \cup {NoObj}
      /\ \A u, v \in Thread : obj'[u] = claimed'[v] => obj'[u] = NoObj
  BY <1>1, <1>2, <1>4, <1>5 DEF Claims
<1>7. \A u, v \in Thread : u # v =>
        /\ obj'[u] = obj'[v] => obj'[u] = NoObj
        /\ claimed'[u] = claimed'[v] => claimed'[u] = NoObj
  BY <1>1, <1>5 DEF Claims, OneTracerPerObject
<1>8. NoObj \notin Elements(workStack)
  BY <1>3 DEF Elements
<1>9. \A u \in Thread : \A x \in {obj'[u], claimed'[u]} : x \notin Elements(workStack')
  BY <1>1, <1>2, <1>4, <1>5, <1>8 DEF Claims, OneTracerPerObject
<1> QED
  BY <1>4, <1>6, <1>7, <1>9 DEF Claims, OneTracerPerObject, Distinct

LEMMA PopTaskClaims ==
  ASSUME IInv, Claims, NEW t \in Thread, PopTask(t)
  PROVE  Claims'
<1> DEFINE o == workStack[Len(workStack)]
<1>1. /\ UNCHANGED <<marked, claimed>>
      /\ workStack # <<>> /\ workStack \in Seq(Obj)
      /\ workStack' = SubSeq(workStack, 1, Len(workStack) - 1)
      /\ obj'[t] = o
      /\ \A u \in Thread : u # t => obj'[u] = obj[u]
  BY DEF PopTask, IInv, TypeOK
<1>2. Distinct(workStack)
  BY DEF Claims, OneTracerPerObject, Distinct
<1>3. Elements(workStack) = Elements(workStack') \cup {o}
  BY <1>1, PopElements
<1>4. Distinct(workStack') /\ o \notin Elements(workStack')
  BY <1>1, <1>2, PopDistinct
<1> HIDE DEF o
<1>5. \A u \in Thread : obj[u] # o /\ claimed[u] # o
  BY <1>3 DEF Claims, OneTracerPerObject
<1> QED
  BY <1>1, <1>3, <1>4, <1>5 DEF Claims, OneTracerPerObject, Distinct

LEMMA SweepClaims ==
  ASSUME IInv, Sweep
  PROVE  Claims'
<1>1. UNCHANGED <<workStack, obj, claimed>> /\ pc[Main] = "done" /\ Main \in Thread
  BY DEF Sweep, Thread
<1>2. workStack = <<>> /\ Tracing = {} /\ \A t \in Thread : claimed[t] = NoObj
  BY <1>1 DEF IInv, NothingLeft
<1>3. \A t \in Thread : obj[t] = NoObj
  BY <1>2 DEF IInv, Control, Tracing
<1> QED
  BY <1>1, <1>2, <1>3, NothingInHand

\* What is deleted is garbage, which nobody holds.
LEMMA DeleteClaims ==
  ASSUME IInv, Claims, NEW o \in Obj, Delete(o)
  PROVE  Claims'
<1>1. /\ UNCHANGED <<workStack, obj, claimed>>
      /\ marked' = marked \ ({o} \cup EmbeddedIn(o)) /\ o \in garbage
  BY DEF Delete
<1>2. o \notin Allocated /\ \A d \in EmbeddedIn(o) : d \notin Allocated
  BY <1>1 DEF IInv, GarbageApart, TypeOK, Allocated, EmbeddedIn
<1>3. Elements(workStack) \subseteq Obj
  BY DEF IInv, TypeOK, Elements
<1>4. Elements(workStack) \subseteq Allocated
  BY <1>3 DEF IInv, RefsAllocated, Queued
<1>5. \A t \in Thread : /\ claimed[t] \in Allocated \cup {NoObj}
                        /\ obj[t] \in Allocated \cup {NoObj}
  BY DEF IInv, RefsAllocated, Queued
<1> QED
  BY <1>1, <1>2, <1>4, <1>5 DEF Claims, OneTracerPerObject

-----------------------------------------------------------------------------
LEMMA InitClaims == Init => Claims
<1> SUFFICES ASSUME Init PROVE Claims
  OBVIOUS
<1>1. DOMAIN workStack = {} /\ Elements(workStack) = {}
  BY DEF Init, Elements
<1>2. \A t \in Thread : obj[t] = NoObj /\ claimed[t] = NoObj
  BY DEF Init
<1> QED
  BY <1>1, <1>2 DEF Claims, OneTracerPerObject

LEMMA NextClaims == IInv /\ Claims /\ [Next]_vars => Claims'
<1> SUFFICES ASSUME IInv, Claims, [Next]_vars PROVE Claims'
  OBVIOUS
<1>1. ASSUME MainStep PROVE Claims'
  <2>1. ASSUME NEW w \in Worker, EndSeed \/ Spawn(w) \/ EndSpawn PROVE Claims'
    BY <2>1, ClaimsStay DEF EndSeed, Spawn, EndSpawn
  <2>2. EndSeed \/ EndSpawn => Claims'
    BY ClaimsStay DEF EndSeed, EndSpawn
  <2> QED
    BY <1>1, <2>1, <2>2, MarkGrayClaims, SweepClaims DEF MainStep
<1>2. ASSUME NEW t \in Thread, ThreadStep(t) PROVE Claims'
  <2>1. ASSUME FinishTask(t) PROVE Claims'
    <3>1. \A u \in Thread : obj'[u] \in {obj[u], NoObj}
      BY <2>1 DEF FinishTask, IInv, TypeOK
    <3> QED
      BY <2>1, <3>1, ClaimsStay DEF FinishTask
  <2>2. ASSUME Exit(t) \/ Yield(t) PROVE Claims'
    BY <2>2, ClaimsStay DEF Exit, Yield, vars, marking
  <2> QED
    BY <1>2, <2>1, <2>2, TryMarkClaims, PushTaskClaims, PopTaskClaims DEF ThreadStep
<1>3. ASSUME UNCHANGED vars PROVE Claims'
  BY <1>3, ClaimsStay DEF vars, marking
<1> QED
  BY <1>1, <1>2, <1>3, ProgramClaims, DeleteClaims DEF Next, Deleter

\* No object is on the stack twice, claimed by two threads or traced by two, and
\* none that one thread holds is anywhere else (gc_object.h TryMark; gc.cc
\* MarkParallel, ProcessWorkStack).
THEOREM SingleTracer == Spec => []OneTracerPerObject
<1>1. Claims => OneTracerPerObject
  BY DEF Claims
<1> QED
  BY Invariance, InitClaims, NextClaims, <1>1, PTL DEF Spec

-----------------------------------------------------------------------------
(* The collector implements Heap.tla when every object is made by           *)
(* Collector::New: a collection by threads is one atomic step that removes   *)
(* exactly what the roots no longer reach, and no other step of a collection, *)
(* nor of a deleter, is seen by the program.                                *)

-----------------------------------------------------------------------------
(* What roots reach                                                         *)

LEMMA ReachesRoots ==
  ASSUME NEW R \in SUBSET Obj, NEW r
  PROVE  R \subseteq H!ReachFrom(R, r)
  BY DEF H!ReachFrom

LEMMA ReachesOn ==
  ASSUME NEW R \in SUBSET Obj, NEW r \in [Obj -> SUBSET Obj], NEW o \in H!ReachFrom(R, r)
  PROVE  r[o] \subseteq H!ReachFrom(R, r)
  BY DEF H!ReachFrom, H!ClosedUnder

LEMMA ReachesWithin ==
  ASSUME NEW R, NEW r, NEW S \in SUBSET Obj, R \subseteq S, H!ClosedUnder(S, r)
  PROVE  H!ReachFrom(R, r) \subseteq S
  BY DEF H!ReachFrom

\* References of what is not reached do not matter.
LEMMA ReachesSame ==
  ASSUME NEW R, NEW r, NEW q, NEW A \in SUBSET Obj, R \subseteq A, H!ClosedUnder(A, r),
         \A o \in A : q[o] = r[o]
  PROVE  H!ReachFrom(R, q) = H!ReachFrom(R, r)
<1>1. ASSUME NEW S \in SUBSET Obj
      PROVE  /\ H!ClosedUnder(S, r) => H!ClosedUnder(S \cap A, q)
             /\ H!ClosedUnder(S, q) => H!ClosedUnder(S \cap A, r)
  BY DEF H!ClosedUnder
<1>2. ASSUME NEW o \in H!ReachFrom(R, q), NEW S \in SUBSET Obj, R \subseteq S, H!ClosedUnder(S, r)
      PROVE  o \in S
  <2>1. S \cap A \in SUBSET Obj /\ R \subseteq S \cap A /\ H!ClosedUnder(S \cap A, q)
    BY <1>1, <1>2
  <2> QED
    BY <1>2, <2>1 DEF H!ReachFrom
<1>3. ASSUME NEW o \in H!ReachFrom(R, r), NEW S \in SUBSET Obj, R \subseteq S, H!ClosedUnder(S, q)
      PROVE  o \in S
  <2>1. S \cap A \in SUBSET Obj /\ R \subseteq S \cap A /\ H!ClosedUnder(S \cap A, r)
    BY <1>1, <1>3
  <2> QED
    BY <1>3, <2>1 DEF H!ReachFrom
<1> QED
  BY <1>2, <1>3 DEF H!ReachFrom

-----------------------------------------------------------------------------
(* The heap that the program sees                                           *)

\* What a collection finds, it finds through the roots.
Precise ==
  ~Mutating => /\ heap \cap marked \subseteq Reachable
               /\ Queued \ {NoObj} \subseteq Reachable
               /\ \A t \in Thread : todo[t] \subseteq Reachable

LEMMA HeapClosed ==
  ASSUME Embedded = {}, IInv
  PROVE  /\ Allocated = heap /\ heap \in SUBSET Obj /\ Roots \in SUBSET Obj
         /\ refs \in [Obj -> SUBSET Obj]
         /\ Roots \subseteq heap /\ H!ClosedUnder(heap, refs)
         /\ Reachable \subseteq heap /\ Roots \subseteq Reachable
         /\ Usable \subseteq Reachable
         /\ \A o \in Reachable : refs[o] \subseteq Reachable
<1>1. Allocated = heap
  BY DEF Allocated
<1>2. heap \in SUBSET Obj /\ refs \in [Obj -> SUBSET Obj]
  BY DEF IInv, TypeOK
<1>3. Roots \subseteq heap /\ H!ClosedUnder(heap, refs)
  BY <1>1 DEF IInv, RefsAllocated, H!ClosedUnder
<1>4. Roots \in SUBSET Obj
  BY <1>2, <1>3
<1>5. Reachable = H!ReachFrom(Roots, refs)
  BY DEF Reachable, H!Reachable
<1>6. Reachable \subseteq heap
  BY <1>2, <1>3, <1>5, ReachesWithin
<1>7. Roots \subseteq Reachable
  BY <1>4, <1>5, ReachesRoots
<1>8. \A o \in Reachable : refs[o] \subseteq Reachable
  BY <1>2, <1>4, <1>5, ReachesOn
<1>9. Usable \subseteq Reachable
  <2>1. Reachable \in SUBSET Obj
    BY <1>2, <1>6
  <2>2. H!ClosedUnder(Reachable, [o \in Obj |-> refs[o] \cap Allocated])
    BY <1>8, <2>1 DEF H!ClosedUnder
  <2> QED
    BY <1>7, <2>1, <2>2, ReachesWithin DEF Usable
<1> QED
  BY <1>1, <1>2, <1>3, <1>4, <1>6, <1>7, <1>8, <1>9

LEMMA NewAllocates ==
  ASSUME Embedded = {}, IInv, NEW o \in Obj, New(o)
  PROVE  H!Allocate
<1>1. EmbeddedIn(o) = {} /\ refs \in [Obj -> SUBSET Obj]
  BY DEF EmbeddedIn, IInv, TypeOK
<1>2. o \in Obj \ heap /\ heap' = heap \cup {o}
  BY DEF New
<1>3. refs' = [refs EXCEPT ![o] = {}]
  BY <1>1 DEF New
<1>4. Roots' = Roots \cup {o}
  BY DEF New, Roots
<1> QED
  BY <1>2, <1>3, <1>4 DEF H!Allocate

LEMMA LinkMutates ==
  ASSUME Embedded = {}, IInv, NEW o \in Obj, NEW p \in Obj, Link(o, p) \/ Unlink(o, p)
  PROVE  H!Mutate
<1>1. UNCHANGED <<heap, Roots>>
  BY DEF Link, Unlink, Roots
<1>2. /\ o \in Reachable /\ refs \in [Obj -> SUBSET Obj]
      /\ \E S \in SUBSET Obj : S \subseteq refs[o] \cup Reachable /\ refs' = [refs EXCEPT ![o] = S]
  <2>1. CASE Link(o, p)
    <3>1. o \in Reachable /\ p \in Reachable /\ refs' = [refs EXCEPT ![o] = refs[o] \cup {p}]
      BY <2>1, HeapClosed DEF Link
    <3> QED
      BY <3>1 DEF IInv, TypeOK
  <2>2. CASE Unlink(o, p)
    <3>1. o \in Reachable /\ refs' = [refs EXCEPT ![o] = refs[o] \ {p}]
      BY <2>2, HeapClosed DEF Unlink
    <3> QED
      BY <3>1 DEF IInv, TypeOK
  <2> QED
    BY <2>1, <2>2
<1>3. refs' \in [Obj -> SUBSET Obj] /\ \A q \in Obj : q # o => refs'[q] = refs[q]
  BY <1>2
<1>4. refs'[o] \subseteq refs[o] \cup Reachable
  BY <1>2
<1> QED
  BY <1>1, <1>2, <1>3, <1>4, HeapClosed DEF H!Mutate, Reachable

LEMMA RootsHeld ==
  ASSUME Embedded = {}, IInv,
         \/ PopRoot
         \/ \E o \in Obj : Load(o) \/ Drop(o) \/ PushRoot(o)
  PROVE  H!Hold
<1>1. UNCHANGED <<heap, refs>>
  BY DEF PopRoot, Load, Drop, PushRoot
<1>2. /\ tempRoots \in Seq(Obj)
      /\ vmRoots \subseteq Reachable /\ Elements(tempRoots) \subseteq Reachable
  BY HeapClosed DEF IInv, TypeOK, Roots
<1>3. Roots' = vmRoots' \cup Elements(tempRoots')
  BY DEF Roots, Elements
<1>4. ASSUME PopRoot PROVE Roots' \subseteq Reachable
  <2>1. tempRoots # <<>> /\ vmRoots' = vmRoots
        /\ tempRoots' = SubSeq(tempRoots, 1, Len(tempRoots) - 1)
    BY <1>4 DEF PopRoot
  <2>2. Elements(tempRoots) = Elements(tempRoots') \cup {tempRoots[Len(tempRoots)]}
    BY <1>2, <2>1, PopElements
  <2> QED
    BY <1>2, <1>3, <2>1, <2>2
<1>5. ASSUME NEW o \in Obj, Load(o) PROVE Roots' \subseteq Reachable
  BY <1>2, <1>3, <1>5, HeapClosed DEF Load
<1>6. ASSUME NEW o \in Obj, Drop(o) PROVE Roots' \subseteq Reachable
  BY <1>2, <1>3, <1>6 DEF Drop
<1>7. ASSUME NEW o \in Obj, PushRoot(o) PROVE Roots' \subseteq Reachable
  <2>1. o \in Reachable /\ vmRoots' = vmRoots /\ tempRoots' = Append(tempRoots, o)
    BY <1>7, HeapClosed DEF PushRoot
  <2>2. Elements(tempRoots') = Elements(tempRoots) \cup {o}
    BY <1>2, <2>1, AppendElements
  <2> QED
    BY <1>2, <1>3, <2>1, <2>2
<1>8. Roots' \subseteq Reachable
  BY <1>4, <1>5, <1>6, <1>7
<1> QED
  BY <1>1, <1>8 DEF H!Hold, Reachable

LEMMA FreeAllFrees ==
  ASSUME Embedded = {}, IInv, FreeAll
  PROVE  H!FreeAll
<1>1. Roots = {} /\ Roots' = {}
  BY EmptyElements DEF FreeAll, Roots
<1>2. heap' = {} /\ refs' \in [Obj -> SUBSET Obj]
  BY DEF FreeAll, IInv, TypeOK
<1> QED
  BY <1>1, <1>2 DEF H!FreeAll

\* Sweep removes what is not marked, which is what is not reachable.
LEMMA SweepCollects ==
  ASSUME Embedded = {}, IInv, Precise, Sweep
  PROVE  H!Collect
<1>1. pc[Main] = "done" /\ Main \in Thread
  BY DEF Sweep, Thread
<1>2. Roots \subseteq marked /\ \A o \in heap \cap marked : refs[o] \subseteq marked
  BY <1>1, MarkingComplete
<1>3. ~Mutating
  BY <1>1 DEF Mutating
<1>4. heap \cap marked \subseteq Reachable
  BY <1>3 DEF Precise
<1>5. /\ heap \cap marked \in SUBSET Obj /\ Roots \subseteq heap \cap marked
      /\ H!ClosedUnder(heap \cap marked, refs)
  BY <1>2, HeapClosed DEF H!ClosedUnder
<1>6. Reachable \subseteq heap \cap marked
  BY <1>5, ReachesWithin DEF Reachable, H!Reachable
<1>7. heap' = heap \cap Reachable
  BY <1>4, <1>6 DEF Sweep
<1> QED
  BY <1>7 DEF H!Collect, Sweep, Roots, Reachable

\* A deleter changes nothing that the program can reach.
LEMMA DeleteUnseen ==
  ASSUME Embedded = {}, IInv, NEW o \in Obj, Delete(o)
  PROVE  H!Mutate /\ Reachable' = Reachable
<1>1. UNCHANGED <<heap, vmRoots, tempRoots>> /\ Roots' = Roots
  BY DEF Delete, Roots
<1>2. o \notin heap /\ EmbeddedIn(o) = {}
  BY DEF Delete, IInv, GarbageApart, EmbeddedIn
<1>3. refs' \in [Obj -> SUBSET Obj] /\ \A p \in heap : refs'[p] = refs[p]
  BY <1>2 DEF Delete, IInv, TypeOK
<1>4. H!ReachFrom(Roots, refs') = H!ReachFrom(Roots, refs)
  BY <1>3, HeapClosed, ReachesSame
<1> QED
  BY <1>1, <1>3, <1>4 DEF H!Mutate, Reachable, H!Reachable

-----------------------------------------------------------------------------
(* Marking is precise                                                       *)

LEMMA BeginPrecise ==
  ASSUME Embedded = {}, IInv, BeginParallel \/ BeginSequential
  PROVE  Precise'
<1>1. /\ UNCHANGED <<program, marked, obj, claimed>> /\ workStack' = <<>> /\ Mutating
      /\ todo' = [todo EXCEPT ![Main] = Roots]
  BY DEF BeginParallel, BeginSequential, RootsToSeed
<1>2. Reachable' = Reachable /\ UNCHANGED <<heap, refs>>
  BY <1>1 DEF Reachable, H!Reachable, Roots, program
<1>3. heap \cap marked = {}
  BY <1>1 DEF IInv, NoStaleMarks
<1>4. \A t \in Thread : claimed[t] = NoObj /\ todo[t] = {}
  BY <1>1 DEF IInv, Control, Mutating, Thread
<1>5. Queued' \subseteq {NoObj}
  BY <1>1, <1>4, EmptyElements DEF Queued
<1>6. \A t \in Thread : todo'[t] \subseteq Reachable
  BY <1>1, <1>4, HeapClosed DEF IInv, TypeOK
<1> QED
  BY <1>1, <1>2, <1>3, <1>5, <1>6 DEF Precise

\* A step of a collection that changes no graph.
LEMMA PreciseStays ==
  ASSUME Precise, ~Mutating, Reachable' = Reachable, heap' = heap,
         heap \cap marked' \subseteq Reachable,
         Queued' \ {NoObj} \subseteq Reachable,
         \A t \in Thread : todo'[t] \subseteq Reachable
  PROVE  Precise'
  BY DEF Precise

LEMMA SameGraph == ASSUME UNCHANGED program PROVE Reachable' = Reachable /\ heap' = heap
  BY DEF program, Reachable, H!Reachable, Roots

LEMMA TryMarkPrecise ==
  ASSUME IInv, Precise, NEW t \in Thread, NEW c \in Obj, TryMark(t, c)
  PROVE  Precise'
<1>1. /\ UNCHANGED <<program, workStack>> /\ c \in todo[t] /\ pc[t] \in {"seed", "trace"}
      /\ marked' = marked \cup {c}
      /\ \A u \in Thread : todo'[u] \subseteq todo[u] /\ claimed'[u] \in {claimed[u], c, NoObj}
  BY DEF TryMark, CallsMark, WinsTryMark, IInv, TypeOK
<1>2. ~Mutating
  BY <1>1 DEF IInv, Control, Mutating, Thread
<1>3. c \in Reachable
  BY <1>1, <1>2 DEF Precise
<1>4. Queued' \subseteq Queued \cup {c, NoObj}
  BY <1>1 DEF Queued
<1> QED
  BY <1>1, <1>2, <1>3, <1>4, PreciseStays, SameGraph DEF Precise

LEMMA MarkGrayPrecise ==
  ASSUME IInv, Precise, NEW c \in Obj, MarkGray(c)
  PROVE  Precise'
<1>1. /\ UNCHANGED <<program, claimed>> /\ c \in todo[Main] /\ pc[Main] \in {"seed", "trace"}
      /\ marked' \subseteq marked \cup {c} /\ Main \in Thread
      /\ \A u \in Thread : todo'[u] \subseteq todo[u]
  BY DEF MarkGray, CallsMark, IInv, TypeOK, Thread
<1>2. ~Mutating
  BY <1>1 DEF Mutating
<1>3. c \in Reachable
  BY <1>1, <1>2 DEF Precise
<1>4. Elements(workStack') \subseteq Elements(workStack) \cup {c}
  <2>1. workStack \in Seq(Obj) /\ workStack' \in {workStack, Append(workStack, c)}
    BY DEF MarkGray, GrayAfterMark, IInv, TypeOK
  <2>2. Elements(Append(workStack, c)) = Elements(workStack) \cup {c}
    BY <2>1, AppendElements
  <2> QED
    BY <2>1, <2>2
<1>5. Queued' \subseteq Queued \cup {c}
  BY <1>1, <1>4 DEF Queued
<1> QED
  BY <1>1, <1>2, <1>3, <1>5, PreciseStays, SameGraph DEF Precise

LEMMA PushTaskPrecise ==
  ASSUME IInv, Precise, NEW t \in Thread, PushTask(t)
  PROVE  Precise'
<1>1. /\ UNCHANGED <<program, marked, todo>> /\ claimed[t] # NoObj /\ claimed[t] \in Obj
      /\ workStack' = Append(workStack, claimed[t]) /\ workStack \in Seq(Obj)
      /\ \A u \in Thread : claimed'[u] \in {claimed[u], NoObj}
  BY DEF PushTask, IInv, TypeOK
<1>2. ~Mutating
  BY <1>1 DEF IInv, Control, Mutating, Thread
<1>3. Elements(workStack') = Elements(workStack) \cup {claimed[t]}
  BY <1>1, AppendElements
<1>4. Queued' \subseteq Queued \cup {NoObj}
  BY <1>1, <1>3 DEF Queued
<1> QED
  BY <1>1, <1>2, <1>4, PreciseStays, SameGraph DEF Precise

LEMMA PopTaskPrecise ==
  ASSUME Embedded = {}, IInv, Precise, NEW t \in Thread, PopTask(t)
  PROVE  Precise'
<1> DEFINE o == workStack[Len(workStack)]
<1>1. /\ UNCHANGED <<program, marked, claimed>> /\ pc[t] = "work"
      /\ workStack # <<>> /\ workStack \in Seq(Obj)
      /\ workStack' = SubSeq(workStack, 1, Len(workStack) - 1)
      /\ todo'[t] = refs[o] /\ \A u \in Thread : u # t => todo'[u] = todo[u]
  BY DEF PopTask, ReportedByTrace, IInv, TypeOK
<1>2. ~Mutating
  BY <1>1 DEF IInv, Control, Mutating, Thread
<1>3. Elements(workStack) = Elements(workStack') \cup {o} /\ o \in Obj
  BY <1>1, PopElements
<1> HIDE DEF o
<1>4. Queued' \subseteq Queued /\ o \in Queued \ {NoObj}
  BY <1>1, <1>3 DEF Queued
<1>5. refs[o] \subseteq Reachable
  BY <1>2, <1>4, HeapClosed DEF Precise
<1> QED
  BY <1>1, <1>2, <1>4, <1>5, PreciseStays, SameGraph DEF Precise

\* The steps that only move control, and the end of a Trace().
LEMMA ControlPrecise ==
  ASSUME Precise, ~Mutating, UNCHANGED <<program, marked, workStack, todo, claimed>>
  PROVE  Precise'
<1>1. Queued' = Queued
  BY DEF Queued
<1> QED
  BY <1>1, PreciseStays, SameGraph DEF Precise

LEMMA DeletePrecise ==
  ASSUME Embedded = {}, IInv, Precise, NEW o \in Obj, Delete(o)
  PROVE  Precise'
<1>1. /\ UNCHANGED <<heap, workStack, todo, claimed, pc>> /\ marked' \subseteq marked
      /\ Reachable' = Reachable
  BY DeleteUnseen DEF Delete
<1>2. Queued' = Queued /\ Mutating' = Mutating
  BY <1>1 DEF Queued, Mutating
<1> QED
  BY <1>1, <1>2 DEF Precise

-----------------------------------------------------------------------------
LEMMA InitPrecise == Init => Precise
  BY DEF Init, Precise, Mutating, Thread

LEMMA InitAbstract == Init => H!Init
<1> SUFFICES ASSUME Init PROVE H!Init
  OBVIOUS
<1>1. Roots = {}
  BY EmptyElements DEF Init, Roots
<1> QED
  BY <1>1 DEF Init, H!Init

\* Every step is the abstract step that it is for the program, and keeps marking
\* precise.
LEMMA NextAbstract ==
  ASSUME Embedded = {}, IInv, Precise, [Next]_vars
  PROVE  Precise' /\ [H!Next]_(H!vars)
<1>1. ASSUME UNCHANGED program PROVE UNCHANGED H!vars
  BY <1>1 DEF H!vars, program, Roots
<1>2. ASSUME Mutating, Mutating' PROVE Precise'
  BY <1>2 DEF Precise
<1>3. ASSUME Program PROVE Precise' /\ [H!Next]_(H!vars)
  <2>1. ASSUME BeginParallel \/ BeginSequential PROVE Precise' /\ [H!Next]_(H!vars)
    BY <1>1, <2>1, BeginPrecise DEF BeginParallel, BeginSequential
  <2>2. ASSUME NEW o \in Obj, New(o) PROVE Precise' /\ H!Next
    BY <1>2, <2>2, NewAllocates DEF New, Mutating, H!Next
  <2>3. ASSUME NEW o \in Obj, NEW p \in Obj, Link(o, p) \/ Unlink(o, p)
        PROVE  Precise' /\ H!Next
    BY <1>2, <2>3, LinkMutates DEF Link, Unlink, Mutating, marking, H!Next
  <2>4. ASSUME PopRoot \/ \E o \in Obj : Load(o) \/ Drop(o) \/ PushRoot(o)
        PROVE  Precise' /\ H!Next
    <3>1. Mutating /\ pc' = pc
      BY <2>4 DEF PopRoot, Load, Drop, PushRoot, marking
    <3> QED
      BY <1>2, <2>4, <3>1, RootsHeld DEF Mutating, H!Next
  <2>5. ASSUME FreeAll PROVE Precise' /\ H!Next
    BY <1>2, <2>5, FreeAllFrees DEF FreeAll, Mutating, H!Next
  <2> QED
    BY <1>3, <2>1, <2>2, <2>3, <2>4, <2>5 DEF Program
<1>4. ASSUME MainStep PROVE Precise' /\ [H!Next]_(H!vars)
  <2>1. ASSUME NEW c \in Obj, MarkGray(c) PROVE Precise' /\ UNCHANGED program
    BY <2>1, MarkGrayPrecise DEF MarkGray
  <2>2. ASSUME EndSeed \/ EndSpawn \/ \E w \in Worker : Spawn(w)
        PROVE  Precise' /\ UNCHANGED program
    <3>1. ~Mutating /\ UNCHANGED <<program, marked, workStack, todo, claimed>>
      BY <2>2 DEF EndSeed, EndSpawn, Spawn, Mutating
    <3> QED
      BY <3>1, ControlPrecise
  <2>3. ASSUME Sweep PROVE Precise' /\ H!Next
    <3>1. Mutating'
      BY <2>3 DEF Sweep, Mutating, Thread
    <3> QED
      BY <2>3, <3>1, SweepCollects DEF Precise, H!Next
  <2> QED
    BY <1>1, <1>4, <2>1, <2>2, <2>3 DEF MainStep
<1>5. ASSUME NEW t \in Thread, ThreadStep(t) PROVE Precise' /\ UNCHANGED program
  <2>1. ASSUME FinishTask(t) \/ Exit(t) \/ Yield(t) PROVE Precise' /\ UNCHANGED program
    <3>1. /\ UNCHANGED <<program, marked, workStack, todo, claimed>>
          /\ pc[t] \in {"trace", "work"}
      BY <2>1 DEF FinishTask, Exit, Yield, vars, marking
    <3>2. ~Mutating
      BY <3>1 DEF IInv, Control, Mutating, Thread
    <3> QED
      BY <3>1, <3>2, ControlPrecise
  <2>2. UNCHANGED program
    BY <1>5 DEF ThreadStep, TryMark, PushTask, PopTask, Yield, FinishTask, Exit, vars
  <2> QED
    BY <1>5, <2>1, <2>2, TryMarkPrecise, PushTaskPrecise, PopTaskPrecise DEF ThreadStep
<1>6. ASSUME NEW o \in Obj, Delete(o) PROVE Precise' /\ H!Next
  BY <1>6, DeletePrecise, DeleteUnseen DEF H!Next
<1>7. ASSUME UNCHANGED vars PROVE Precise' /\ UNCHANGED program
  <2>1. Reachable' = Reachable /\ Queued' = Queued /\ Mutating' = Mutating
    BY <1>7 DEF vars, program, marking, Reachable, H!Reachable, Roots, Queued, Mutating
  <2> QED
    BY <1>7, <2>1 DEF vars, program, marking, Precise
<1> QED
  BY <1>1, <1>3, <1>4, <1>5, <1>6, <1>7 DEF Next, Deleter

\* A collector all of whose objects come from Collector::New is the atomic collector
\* of Heap.tla to its user, whatever its threads do (gc.h New, CollectWithRoots,
\* CollectParallel; gc.cc Sweep, ProcessWorkStack).
THEOREM Refinement ==
  ASSUME Embedded = {}
  PROVE  Spec => AbstractHeap
<1>1. IInv /\ Precise /\ [Next]_vars => Precise' /\ [H!Next]_(H!vars)
  BY NextAbstract
<1> QED
  BY Invariance, InitPrecise, InitAbstract, <1>1, PTL DEF Spec, AbstractHeap, H!Spec
=============================================================================
