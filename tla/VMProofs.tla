------------------------------ MODULE VMProofs ------------------------------
(***************************************************************************)
(* Proofs about VM.tla, for any programs.                                    *)
(***************************************************************************)
EXTENDS VMProperties, DataLemmas

-----------------------------------------------------------------------------
(* What is reached along edges                                              *)

\* S with what it refers to.
Further(E, S) == S \cup UNION {E[o] : o \in S \cap DOMAIN E}

\* S contains R and what its members refer to.
Rooted(E, R, S) == R \subseteq S /\ Further(E, S) \subseteq S

Rounds(N, E, R) ==
  CHOOSE f : f = [n \in 0 .. N |-> IF n = 0 THEN R
                                   ELSE LET S == f[n - 1]
                                        IN  S \cup UNION {E[o] : o \in S \cap DOMAIN E}]

LEMMA ClosureRounds ==
  ASSUME NEW E, NEW R
  PROVE  Closure(E, R) = Rounds(Cardinality(DOMAIN E), E, R)[Cardinality(DOMAIN E)]
  BY DEF Closure, Rounds

\* f has the rounds 0 to m.
HasRounds(E, R, m, f) == f = [n \in 0 .. m |-> IF n = 0 THEN R ELSE Further(E, f[n - 1])]

\* The recursion in Closure defines a function.
LEMMA RoundsExist ==
  ASSUME NEW E, NEW R, NEW N \in Nat
  PROVE  \E f : HasRounds(E, R, N, f)
  <1> DEFINE T == {m \in Nat : \E f : HasRounds(E, R, m, f)}
  <1>1. 0 \in T
    <2>1. HasRounds(E, R, 0, [n \in 0 .. 0 |-> R])
      BY DEF HasRounds
    <2>2. QED
      BY <2>1
  <1>2. ASSUME NEW m \in Nat, m \in T
        PROVE  m + 1 \in T
    <2>1. PICK f : HasRounds(E, R, m, f)
      BY <1>2
    <2> DEFINE g == [n \in 0 .. m + 1 |-> IF n <= m THEN f[n] ELSE Further(E, f[m])]
               h == [n \in 0 .. m + 1 |-> IF n = 0 THEN R ELSE Further(E, g[n - 1])]
    <2>2. ASSUME NEW n \in 0 .. m + 1
          PROVE  g[n] = h[n]
      <3>1. CASE n = 0
        BY <2>1, <3>1 DEF HasRounds
      <3>2. CASE n # 0 /\ n <= m
        <4>1. g[n - 1] = f[n - 1] /\ g[n] = f[n]
          BY <3>2
        <4>2. f[n] = Further(E, f[n - 1])
          BY <2>1, <3>2 DEF HasRounds
        <4>3. QED
          BY <3>2, <4>1, <4>2
      <3>3. CASE n = m + 1
        <4>1. g[n - 1] = f[m] /\ g[n] = Further(E, f[m]) /\ n # 0
          BY <3>3
        <4>2. QED
          BY <4>1
      <3>4. QED
        BY <3>1, <3>2, <3>3
    <2>3. g = h
      BY <2>2
    <2>4. HasRounds(E, R, m + 1, g)
      BY <2>3 DEF HasRounds
    <2>5. QED
      BY <2>4
  <1>3. N \in T
    <2> HIDE DEF T
    <2>1. QED
      BY <1>1, <1>2, Induction
  <1>4. QED
    BY <1>3

LEMMA RoundsSteps ==
  ASSUME NEW E, NEW R, NEW N \in Nat
  PROVE  /\ Rounds(N, E, R)[0] = R
         /\ \A n \in 1 .. N : Rounds(N, E, R)[n] = Further(E, Rounds(N, E, R)[n - 1])
  <1>1. HasRounds(E, R, N, Rounds(N, E, R))
    <2>1. PICK f : HasRounds(E, R, N, f)
      BY RoundsExist
    <2>2. QED
      BY <2>1 DEF HasRounds, Rounds, Further
  <1>2. QED
    BY <1>1 DEF HasRounds

\* What is reached is closed, ...
LEMMA ClosureRooted ==
  ASSUME NEW E, IsFiniteSet(DOMAIN E), NEW R
  PROVE  Rooted(E, R, Closure(E, R))
  <1> DEFINE N == Cardinality(DOMAIN E)
             f == Rounds(N, E, R)
             Closed(S) == Further(E, S) = S
             In(S) == S \cap DOMAIN E
             T == {n \in Nat : n <= N => \/ Closed(f[n])
                                         \/ Cardinality(In(f[n])) > n}
  <1>1. N \in Nat
    BY FS_CardinalityType
  <1>2. f[0] = R /\ \A n \in 1 .. N : f[n] = Further(E, f[n - 1])
    BY <1>1, RoundsSteps
  <1> HIDE DEF f
  <1>3. ASSUME NEW S
        PROVE  IsFiniteSet(In(S)) /\ Cardinality(In(S)) \in Nat /\ Cardinality(In(S)) <= N
    BY FS_Subset, FS_CardinalityType
  <1>4. 0 \in T
    <2>1. ASSUME ~Closed(f[0]) PROVE Cardinality(In(f[0])) > 0
      <3>1. In(f[0]) # {}
        BY <2>1 DEF Further
      <3>2. QED
        BY <3>1, <1>3, FS_EmptySet
    <2>2. QED
      BY <2>1
  <1>5. ASSUME NEW n \in Nat, n \in T
        PROVE  n + 1 \in T
    <2>1. SUFFICES ASSUME n + 1 <= N, ~Closed(f[n + 1])
                   PROVE  Cardinality(In(f[n + 1])) > n + 1
      OBVIOUS
    <2>2. f[n + 1] = Further(E, f[n])
      BY <1>1, <1>2, <2>1
    <2>3. Cardinality(In(f[n])) > n
      <3>1. ~Closed(f[n])
        BY <2>1, <2>2
      <3>2. n <= N
        BY <1>1, <2>1
      <3>3. QED
        BY <1>5, <3>1, <3>2
    <2>4. In(f[n]) \subseteq In(f[n + 1]) /\ In(f[n]) # In(f[n + 1])
      BY <2>1, <2>2 DEF Further
    <2>5. Cardinality(In(f[n])) < Cardinality(In(f[n + 1]))
      <3>1. /\ IsFiniteSet(In(f[n + 1]))
            /\ Cardinality(In(f[n])) \in Nat /\ Cardinality(In(f[n + 1])) \in Nat
        BY <1>3
      <3> HIDE DEF In
      <3>2. QED
        BY <2>4, <3>1, FS_Subset
    <2>6. QED
      BY <2>3, <2>5, <1>3
  <1>6. N \in T
    <2> HIDE DEF T
    <2>1. QED
      BY <1>1, <1>4, <1>5, Induction
  <1>7. Closed(f[N])
    <2>1. ~(Cardinality(In(f[N])) > N)
      BY <1>1, <1>3
    <2>2. QED
      BY <1>1, <1>6, <2>1
  <1>8. ASSUME NEW n \in Nat, n <= N
        PROVE  R \subseteq f[n]
    <2> DEFINE U == {k \in Nat : k <= N => R \subseteq f[k]}
    <2>1. 0 \in U
      BY <1>2
    <2>2. ASSUME NEW k \in Nat, k \in U
          PROVE  k + 1 \in U
      <3>1. SUFFICES ASSUME k + 1 <= N PROVE R \subseteq f[k + 1]
        OBVIOUS
      <3>2. f[k + 1] = Further(E, f[k]) /\ R \subseteq f[k]
        BY <1>1, <1>2, <2>2, <3>1
      <3>3. QED
        BY <3>2 DEF Further
    <2>3. n \in U
      <3> HIDE DEF U
      <3>1. QED
        BY <2>1, <2>2, Induction
    <2>4. QED
      BY <2>3, <1>8
  <1>9. QED
    BY <1>1, <1>7, <1>8, ClosureRounds DEF Rooted, f

\* ... and is the least set that is.
LEMMA ClosureLeast ==
  ASSUME NEW E, IsFiniteSet(DOMAIN E), NEW R, NEW S, Rooted(E, R, S)
  PROVE  Closure(E, R) \subseteq S
  <1> DEFINE N == Cardinality(DOMAIN E)
             f == Rounds(N, E, R)
             T == {n \in Nat : n <= N => f[n] \subseteq S}
  <1>1. N \in Nat
    BY FS_CardinalityType
  <1>2. f[0] = R /\ \A n \in 1 .. N : f[n] = Further(E, f[n - 1])
    BY <1>1, RoundsSteps
  <1> HIDE DEF f
  <1>3. 0 \in T
    BY <1>2 DEF Rooted
  <1>4. ASSUME NEW n \in Nat, n \in T
        PROVE  n + 1 \in T
    <2>1. SUFFICES ASSUME n + 1 <= N PROVE f[n + 1] \subseteq S
      OBVIOUS
    <2>2. f[n + 1] = Further(E, f[n]) /\ f[n] \subseteq S
      BY <1>1, <1>2, <1>4, <2>1
    <2>3. QED
      BY <2>2 DEF Rooted, Further
  <1>5. N \in T
    <2> HIDE DEF T
    <2>1. QED
      BY <1>1, <1>3, <1>4, Induction
  <1>6. QED
    BY <1>1, <1>5, ClosureRounds DEF f

-----------------------------------------------------------------------------
(* The objects that the values of a sequence refer to                         *)

LEMMA ObjsInAppend ==
  ASSUME NEW s, IsSeq(s), NEW v
  PROVE  ObjsIn(Append(s, v)) = ObjsIn(s) \cup ObjOf(v)
  <1> DEFINE t == Append(s, v)
  <1>1. /\ DOMAIN t = 1 .. Len(s) + 1 /\ DOMAIN s = 1 .. Len(s) /\ Len(s) \in Nat
        /\ (\A i \in 1 .. Len(s) : t[i] = s[i]) /\ t[Len(s) + 1] = v
    BY AppendSeq, SeqLength
  <1> HIDE DEF t
  <1>2. DOMAIN t = DOMAIN s \cup {Len(s) + 1}
    BY <1>1
  <1>3. QED
    BY <1>1, <1>2 DEF ObjsIn, t

LEMMA ObjsInFront ==
  ASSUME NEW s, IsSeq(s), NEW n \in 0 .. Len(s)
  PROVE  ObjsIn(SubSeq(s, 1, n)) \subseteq ObjsIn(s)
  <1> DEFINE t == SubSeq(s, 1, n)
  <1>1. DOMAIN t \subseteq DOMAIN s /\ \A i \in DOMAIN t : t[i] = s[i]
    BY FrontSeq, SeqLength
  <1> HIDE DEF t
  <1>2. QED
    BY <1>1 DEF ObjsIn, t

LEMMA ObjsInBack ==
  ASSUME NEW s, IsSeq(s), NEW n \in 0 .. Len(s)
  PROVE  ObjsIn(SubSeq(s, Len(s) - n + 1, Len(s))) \subseteq ObjsIn(s)
  <1> DEFINE t == SubSeq(s, Len(s) - n + 1, Len(s))
  <1>1. /\ Len(s) \in Nat /\ DOMAIN s = 1 .. Len(s) /\ DOMAIN t = 1 .. n
        /\ \A i \in 1 .. n : t[i] = s[Len(s) - n + i]
    BY BackSeq, SeqLength
  <1> HIDE DEF t
  <1>2. \A i \in DOMAIN t : Len(s) - n + i \in DOMAIN s /\ t[i] = s[Len(s) - n + i]
    BY <1>1
  <1>3. QED
    BY <1>2 DEF ObjsIn, t

LEMMA ObjsInJoin ==
  ASSUME NEW s, IsSeq(s), NEW t, IsSeq(t)
  PROVE  ObjsIn(s \o t) = ObjsIn(s) \cup ObjsIn(t)
  <1> DEFINE u == s \o t
  <1>1. /\ DOMAIN u = 1 .. Len(s) + Len(t) /\ DOMAIN s = 1 .. Len(s) /\ DOMAIN t = 1 .. Len(t)
        /\ Len(s) \in Nat /\ Len(t) \in Nat
        /\ \A i \in 1 .. Len(s) : u[i] = s[i]
        /\ \A i \in 1 .. Len(t) : u[Len(s) + i] = t[i]
    BY JoinSeq, SeqLength
  <1> HIDE DEF u
  <1>2. ASSUME NEW i \in DOMAIN u
        PROVE  (\E k \in DOMAIN s : u[i] = s[k]) \/ (\E k \in DOMAIN t : u[i] = t[k])
    <2>1. CASE i <= Len(s)
      BY <1>1, <2>1
    <2>2. CASE i > Len(s)
      <3>1. i - Len(s) \in 1 .. Len(t) /\ Len(s) + (i - Len(s)) = i
        BY <1>1, <2>2
      <3>2. QED
        BY <1>1, <3>1
    <2>3. QED
      BY <1>1, <2>1, <2>2
  <1>3. /\ \A k \in DOMAIN s : k \in DOMAIN u /\ u[k] = s[k]
        /\ \A k \in DOMAIN t : Len(s) + k \in DOMAIN u /\ u[Len(s) + k] = t[k]
    BY <1>1
  <1>4. QED
    BY <1>2, <1>3 DEF ObjsIn, u

LEMMA ObjsInUpdate ==
  ASSUME NEW s, NEW i, NEW v
  PROVE  ObjsIn([s EXCEPT ![i] = v]) \subseteq ObjsIn(s) \cup ObjOf(v)
  BY DEF ObjsIn

LEMMA ObjsInShort ==
  /\ ObjsIn(<<>>) = {}
  /\ \A v : ObjsIn(<<v>>) = ObjOf(v)
  BY ShortSeq DEF ObjsIn

LEMMA ObjsInItem ==
  ASSUME NEW s, NEW i \in DOMAIN s
  PROVE  ObjOf(s[i]) \subseteq ObjsIn(s)
  BY DEF ObjsIn

\* A table gains one entry.
LEMMA ValuesInPut ==
  ASSUME NEW f, NEW k, NEW v
  PROVE  ValuesIn(Put(f, k, v)) \subseteq ValuesIn(f) \cup ObjOf(v)
  BY DEF ValuesIn, Put

LEMMA ScalarsHoldNothing ==
  /\ ObjOf(Null) = {}
  /\ \A b : ObjOf(Bool(b)) = {}
  /\ \A n : ObjOf(Num(n)) = {}
  /\ \A s : ObjOf(Str(s)) = {}
  /\ \A o : ObjOf(Obj(o)) = {o} /\ IsObj(Obj(o)) /\ Obj(o)[2] = o
  BY DEF ObjOf, IsObj, Null, Bool, Num, Str, Obj

-----------------------------------------------------------------------------
(* The heap and its collections                                              *)

\* What an object holds on to, and what a collection would find there.
Kids(h) == [o \in DOMAIN h |-> Children(h[o])]
Marks(h) == [o \in DOMAIN h |-> Traced(h[o])]

\* Of what is reached from R nothing is missing: all of it, ...
Safe(h, R) == Closure(Kids(h), R) \subseteq DOMAIN h

\* ... or as far as a collection would look.
SafeMarks(h, R) == Closure(Marks(h), R) \subseteq DOMAIN h

\* An object has the fields of its kind.
IsList(ob) == ob \in [kind : {"list"}, items : {ob.items}] /\ IsSeq(ob.items)
IsDict(ob) == ob \in [kind : {"dict"}, entries : {ob.entries}]
IsInstance(ob) ==
  ob \in [kind : {"instance"}, class : {ob.class}, fields : {ob.fields},
          fieldsMarked : {ob.fieldsMarked}]
IsBound(ob) == ob \in [kind : {"bound"}, receiver : {ob.receiver}, method : {ob.method}]
IsObject(ob) == IsList(ob) \/ IsDict(ob) \/ IsInstance(ob) \/ IsBound(ob) \/ ob.kind = "class"

\* Objects were made, one after the other, before n, and so was what they hold.
HeapOK(h, n) ==
  /\ n \in Nat \ {0} /\ DOMAIN h \subseteq 1 .. n - 1
  /\ \A o \in DOMAIN h : IsObject(h[o]) /\ Children(h[o]) \subseteq 1 .. n - 1

LEMMA HeapFinite ==
  ASSUME NEW h, NEW n, HeapOK(h, n)
  PROVE  IsFiniteSet(DOMAIN h)
  <1>1. n - 1 \in Int /\ DOMAIN h \subseteq 1 .. n - 1
    BY DEF HeapOK
  <1>2. IsFiniteSet(1 .. n - 1)
    BY <1>1, FS_Interval
  <1>3. QED
    BY <1>1, <1>2, FS_Subset

LEMMA ChildrenOf ==
  ASSUME NEW ob
  PROVE  /\ ob.kind = "list" => Children(ob) = ValuesIn(ob.items)
         /\ ob.kind = "dict" => Children(ob) = ValuesIn(ob.entries)
         /\ ob.kind = "class" => Children(ob) = {ob.super} \ {0}
         /\ ob.kind = "instance" => Children(ob) = {ob.class} \cup ValuesIn(ob.fields)
         /\ ob.kind = "bound" => Children(ob) = ObjOf(ob.receiver)
  <1>1. ob.kind = "list" => Children(ob) = ValuesIn(ob.items)
    BY DEF Children
  <1>2. ob.kind = "dict" => Children(ob) = ValuesIn(ob.entries)
    BY DEF Children
  <1>3. ob.kind = "class" => Children(ob) = {ob.super} \ {0}
    BY DEF Children
  <1>4. ob.kind = "instance" => Children(ob) = {ob.class} \cup ValuesIn(ob.fields)
    BY DEF Children
  <1>5. ob.kind = "bound" => Children(ob) = ObjOf(ob.receiver)
    BY DEF Children
  <1>6. QED
    BY <1>1, <1>2, <1>3, <1>4, <1>5

LEMMA TracedIsHeld ==
  ASSUME NEW ob
  PROVE  Traced(ob) \subseteq Children(ob)
  BY ChildrenOf DEF Traced

LEMMA PutItems ==
  ASSUME NEW ob, IsList(ob), NEW s, IsSeq(s)
  PROVE  LET g == [ob EXCEPT !.items = s]
         IN  IsList(g) /\ Children(g) = ObjsIn(s)
  <1> DEFINE g == [ob EXCEPT !.items = s]
  <1>1. g \in [kind : {"list"}, items : {s}]
    BY DEF IsList
  <1> HIDE DEF g
  <1>2. g.kind = "list" /\ g.items = s
    BY <1>1
  <1>3. IsList(g)
    BY <1>1, <1>2 DEF IsList
  <1>4. Children(g) = ObjsIn(s)
    BY <1>2, ChildrenOf DEF ValuesIn, ObjsIn
  <1>5. QED
    BY <1>3, <1>4 DEF g

LEMMA PutEntries ==
  ASSUME NEW ob, IsDict(ob), NEW t
  PROVE  LET g == [ob EXCEPT !.entries = t]
         IN  IsDict(g) /\ Children(g) = ValuesIn(t)
  <1> DEFINE g == [ob EXCEPT !.entries = t]
  <1>1. g \in [kind : {"dict"}, entries : {t}]
    BY DEF IsDict
  <1> HIDE DEF g
  <1>2. g.kind = "dict" /\ g.entries = t
    BY <1>1
  <1>3. IsDict(g)
    BY <1>1, <1>2 DEF IsDict
  <1>4. QED
    BY <1>2, <1>3, ChildrenOf DEF g

LEMMA PutFields ==
  ASSUME NEW ob, IsInstance(ob), NEW t
  PROVE  LET g == [ob EXCEPT !.fields = t]
         IN  IsInstance(g) /\ Children(g) = {ob.class} \cup ValuesIn(t)
  <1> DEFINE g == [ob EXCEPT !.fields = t]
  <1>1. g \in [kind : {"instance"}, class : {ob.class}, fields : {t},
               fieldsMarked : {ob.fieldsMarked}]
    BY DEF IsInstance
  <1> HIDE DEF g
  <1>2. /\ g.kind = "instance" /\ g.class = ob.class /\ g.fields = t
        /\ g.fieldsMarked = ob.fieldsMarked
    BY <1>1
  <1>3. IsInstance(g)
    BY <1>1, <1>2 DEF IsInstance
  <1>4. QED
    BY <1>2, <1>3, ChildrenOf DEF g

LEMMA PutMark ==
  ASSUME NEW ob, IsInstance(ob)
  PROVE  LET g == [ob EXCEPT !.fieldsMarked = TRUE]
         IN  /\ IsInstance(g) /\ g.kind = ob.kind /\ Children(g) = Children(ob)
             /\ Traced(g) \subseteq Traced(ob)
  <1> DEFINE g == [ob EXCEPT !.fieldsMarked = TRUE]
  <1>1. g \in [kind : {"instance"}, class : {ob.class}, fields : {ob.fields},
               fieldsMarked : {TRUE}]
    BY DEF IsInstance
  <1> HIDE DEF g
  <1>2. /\ g.kind = "instance" /\ g.class = ob.class /\ g.fields = ob.fields
        /\ g.fieldsMarked = TRUE
    BY <1>1
  <1>3. IsInstance(g)
    BY <1>1, <1>2 DEF IsInstance
  <1>4. ob.kind = "instance"
    BY DEF IsInstance
  <1>5. Children(g) = Children(ob) /\ ob.class \in Children(ob)
    BY <1>2, <1>4, ChildrenOf
  <1>6. Traced(g) \subseteq Traced(ob)
    BY <1>2, <1>4, <1>5 DEF Traced
  <1>7. QED
    BY <1>2, <1>3, <1>4, <1>5, <1>6 DEF g

LEMMA SafeIsSafeMarks ==
  ASSUME NEW h, IsFiniteSet(DOMAIN h), NEW R, Safe(h, R)
  PROVE  SafeMarks(h, R)
  <1> DEFINE C == Closure(Kids(h), R)
  <1>1. Rooted(Kids(h), R, C)
    BY ClosureRooted DEF Kids
  <1>2. Rooted(Marks(h), R, C)
    BY <1>1, TracedIsHeld DEF Rooted, Further, Kids, Marks
  <1>3. Closure(Marks(h), R) \subseteq C
    BY <1>2, ClosureLeast DEF Marks
  <1>4. QED
    BY <1>3 DEF Safe, SafeMarks

\* What an instruction may do to the heap h, to make it g, and to the roots R: it
\* makes new objects, and what it stores or holds was reached before or is new.
LEMMA Mutated ==
  ASSUME NEW h, IsFiniteSet(DOMAIN h), NEW R, Safe(h, R),
         NEW g, IsFiniteSet(DOMAIN g), DOMAIN h \subseteq DOMAIN g, NEW Q,
         LET T == Closure(Kids(h), R) \cup (DOMAIN g \ DOMAIN h)
         IN  Q \subseteq T /\ \A o \in T : Children(g[o]) \subseteq T
  PROVE  Safe(g, Q)
  <1> DEFINE T == Closure(Kids(h), R) \cup (DOMAIN g \ DOMAIN h)
  <1>1. Rooted(Kids(g), Q, T)
    BY DEF Rooted, Further, Kids
  <1>2. Closure(Kids(g), Q) \subseteq T
    BY <1>1, ClosureLeast DEF Kids
  <1>3. T \subseteq DOMAIN g
    BY DEF Safe
  <1>4. QED
    BY <1>2, <1>3 DEF Safe

LEMMA ReachedFrom ==
  ASSUME NEW h, IsFiniteSet(DOMAIN h), NEW R
  PROVE  LET C == Closure(Kids(h), R)
         IN  R \subseteq C /\ \A o \in C \cap DOMAIN h : Children(h[o]) \subseteq C
  <1>1. Rooted(Kids(h), R, Closure(Kids(h), R))
    BY ClosureRooted DEF Kids
  <1>2. QED
    BY <1>1 DEF Rooted, Further, Kids

\* Fewer roots, same heap.
LEMMA FewerRoots ==
  ASSUME NEW h, IsFiniteSet(DOMAIN h), NEW R, Safe(h, R),
         NEW Q, Q \subseteq Closure(Kids(h), R)
  PROVE  Safe(h, Q)
  BY ReachedFrom, Mutated DEF Safe

LEMMA CollectedHeap ==
  ASSUME NEW h, NEW n, HeapOK(h, n), NEW R
  PROVE  LET g == Collected(h, R)
         IN  /\ HeapOK(g, n) /\ DOMAIN g = DOMAIN h \cap Closure(Marks(h), R)
             /\ \A o \in DOMAIN g : Traced(g[o]) \subseteq Traced(h[o])
             /\ \A o \in DOMAIN g : Children(g[o]) = Children(h[o]) /\ g[o].kind = h[o].kind
  <1> DEFINE g == Collected(h, R)
             L == Closure(Marks(h), R)
  <1>1. g = [o \in DOMAIN h \cap L |->
               IF h[o].kind = "instance" THEN [h[o] EXCEPT !.fieldsMarked = TRUE] ELSE h[o]]
    BY DEF Collected, Marks
  <1> HIDE DEF g, L
  <1>2. DOMAIN g = DOMAIN h \cap L
    BY <1>1
  <1>3. ASSUME NEW o \in DOMAIN g
        PROVE  /\ IsObject(g[o]) /\ Traced(g[o]) \subseteq Traced(h[o])
               /\ Children(g[o]) = Children(h[o]) /\ g[o].kind = h[o].kind
    <2>1. IsObject(h[o])
      BY <1>2 DEF HeapOK
    <2>2. CASE h[o].kind # "instance"
      <3>1. g[o] = h[o]
        BY <1>1, <1>2, <2>2
      <3>2. QED
        BY <2>1, <3>1
    <2>3. CASE h[o].kind = "instance"
      <3>1. IsInstance(h[o])
        BY <2>1, <2>3 DEF IsObject, IsList, IsDict, IsBound
      <3>2. g[o] = [h[o] EXCEPT !.fieldsMarked = TRUE]
        BY <1>1, <1>2, <2>3
      <3>3. QED
        BY <3>1, <3>2, PutMark DEF IsObject
    <2>4. QED
      BY <2>2, <2>3
  <1>4. QED
    BY <1>2, <1>3 DEF HeapOK, g, L

\* A collection keeps what it finds.
LEMMA CollectedSafe ==
  ASSUME NEW h, NEW n, HeapOK(h, n), NEW R, SafeMarks(h, R),
         NEW Q, Q \subseteq Closure(Marks(h), R)
  PROVE  SafeMarks(Collected(h, R), Q)
  <1> DEFINE g == Collected(h, R)
             L == Closure(Marks(h), R)
  <1>1. Rooted(Marks(h), R, L)
    BY HeapFinite, ClosureRooted DEF Marks
  <1>2. /\ DOMAIN g = L /\ HeapOK(g, n)
        /\ \A o \in DOMAIN g : Traced(g[o]) \subseteq Traced(h[o])
    BY CollectedHeap DEF SafeMarks
  <1> HIDE DEF g
  <1>3. Rooted(Marks(g), Q, L)
    <2>1. \A o \in L : Traced(h[o]) \subseteq L
      BY <1>1 DEF Rooted, Further, Marks, SafeMarks
    <2>2. QED
      BY <1>2, <2>1 DEF Rooted, Further, Marks
  <1>4. Closure(Marks(g), Q) \subseteq L
    <2>1. IsFiniteSet(DOMAIN Marks(g))
      BY <1>2, HeapFinite DEF Marks
    <2>2. QED
      BY <1>3, <2>1, ClosureLeast
  <1>5. QED
    BY <1>2, <1>4 DEF SafeMarks, g

-----------------------------------------------------------------------------
(* The inductive invariant                                                  *)

\* A frame that returns an instance has one.
IsFrame(f) ==
  /\ f \in [fn : {f.fn}, ip : {f.ip}, returnInstance : {f.returnInstance},
            instance : {f.instance}, locals : {f.locals}]
  /\ IsSeq(f.locals)
  /\ f.returnInstance => IsObj(f.instance)

AreFrames(frs) == IsSeq(frs) /\ \A i \in DOMAIN frs : IsFrame(frs[i])

Shape ==
  /\ FunctionsFormed(prog)
  /\ IsSeq(stack) /\ AreFrames(frames) /\ HeapOK(heap, nextObj)

Inv == Shape /\ NoDangling

\* What a step has to establish: FieldsTraced gives NoDangling from it.
Marked == Shape /\ Kept \subseteq DOMAIN heap

LEMMA HeldAndKept ==
  /\ NoDangling <=> Safe(heap, Roots)
  /\ Held = Closure(Kids(heap), Roots) /\ Kept = Closure(Marks(heap), Roots)
  BY DEF NoDangling, Held, Kept, Safe, Kids, Marks

LEMMA MarkedGivesInv ==
  ASSUME Marked, FieldsTraced
  PROVE  Inv
  BY DEF Marked, FieldsTraced, Inv, NoDangling

-----------------------------------------------------------------------------
(* Roots                                                                    *)

FramesRoots(frs) == UNION {FrameRoots(frs[i]) : i \in DOMAIN frs}

CodeRoots == UNION {ConstantsOf(prog.functions[i]) : i \in DOMAIN prog.functions}

LEMMA RootsParts ==
  ASSUME NEW st, NEW frs, NEW gl, NEW ret
  PROVE  TraceRoots(st, frs, gl, ret) =
           ObjsIn(st) \cup FramesRoots(frs) \cup ObjOf(ret) \cup CodeRoots \cup ValuesIn(gl)
  BY DEF TraceRoots, FramesRoots, CodeRoots

LEMMA RootsHeld ==
  ASSUME Inv
  PROVE  /\ Roots \subseteq Held /\ Held \subseteq DOMAIN heap
         /\ ObjsIn(stack) \subseteq Held /\ FramesRoots(frames) \subseteq Held
         /\ ObjOf(lastReturn) \subseteq Held /\ CodeRoots \subseteq Held
         /\ ValuesIn(globals) \subseteq Held
         /\ \A o \in Held : IsObject(heap[o]) /\ Children(heap[o]) \subseteq Held
  <1>1. IsFiniteSet(DOMAIN heap)
    BY HeapFinite DEF Inv, Shape
  <1>2. /\ Roots \subseteq Held /\ Held \subseteq DOMAIN heap
        /\ \A o \in Held : Children(heap[o]) \subseteq Held
    BY <1>1, ReachedFrom, HeldAndKept DEF Inv, NoDangling
  <1>3. \A o \in Held : IsObject(heap[o])
    BY <1>2 DEF Inv, Shape, HeapOK
  <1>4. Roots = ObjsIn(stack) \cup FramesRoots(frames) \cup ObjOf(lastReturn) \cup CodeRoots
                  \cup ValuesIn(globals)
    BY RootsParts DEF Roots
  <1>5. QED
    BY <1>2, <1>3, <1>4

\* The roots after a step.
LEMMA RootsAfter ==
  ASSUME prog' = prog
  PROVE  Roots' = TraceRoots(stack', frames', globals', lastReturn')
  BY DEF Roots, TraceRoots, FrameRoots, FnOf, ConstantsOf

\* A step that makes the heap h from the heap, by new objects and by stores of
\* what is held, and then may collect.
Follows(h, R) ==
  LET T == Held \cup (DOMAIN h \ DOMAIN heap)
  IN  /\ DOMAIN heap \subseteq DOMAIN h /\ HeapOK(h, nextObj')
      /\ R \subseteq T /\ \A o \in T : Children(h[o]) \subseteq T

LEMMA FollowsSafe ==
  ASSUME Inv, NEW h, NEW R, Follows(h, R)
  PROVE  SafeMarks(h, R)
  <1>1. IsFiniteSet(DOMAIN heap) /\ IsFiniteSet(DOMAIN h) /\ Safe(heap, Roots)
    BY HeapFinite, HeldAndKept DEF Inv, Shape, Follows
  <1>2. Safe(h, R)
    <2> DEFINE T == Held \cup (DOMAIN h \ DOMAIN heap)
    <2>1. T = Closure(Kids(heap), Roots) \cup (DOMAIN h \ DOMAIN heap)
      BY HeldAndKept
    <2>2. DOMAIN heap \subseteq DOMAIN h /\ R \subseteq T /\ \A o \in T : Children(h[o]) \subseteq T
      BY DEF Follows
    <2> HIDE DEF T
    <2>3. QED
      BY <1>1, <2>1, <2>2, Mutated
  <1>3. QED
    BY <1>1, <1>2, SafeIsSafeMarks

LEMMA StepStores ==
  ASSUME Inv, prog' = prog, IsSeq(stack'), AreFrames(frames'),
         Follows(heap', TraceRoots(stack', frames', globals', lastReturn'))
  PROVE  Marked'
  <1>1. SafeMarks(heap', Roots')
    BY FollowsSafe, RootsAfter
  <1>2. (Kept \subseteq DOMAIN heap)'
    BY <1>1 DEF Kept, SafeMarks, Marks
  <1>3. Shape'
    BY DEF Inv, Shape, Follows
  <1>4. QED
    BY <1>2, <1>3 DEF Marked

LEMMA StepCollects ==
  ASSUME Inv, prog' = prog, IsSeq(stack'), AreFrames(frames'), NEW h, NEW frs,
         HeapOK(h, nextObj'), SafePoint(h, frs),
         LET R == TraceRoots(stack', frs, globals', lastReturn')
         IN  SafeMarks(h, R) /\ R = TraceRoots(stack', frames', globals', lastReturn')
  PROVE  Marked'
  <1> DEFINE R == TraceRoots(stack', frs, globals', lastReturn')
  <1>1. heap' = h \/ heap' = Collected(h, R)
    BY DEF SafePoint
  <1>2. Roots' = R
    BY RootsAfter
  <1>3. SafeMarks(h, R)
    OBVIOUS
  <1> HIDE DEF R
  <1>4. R \subseteq Closure(Marks(h), R)
    <2>1. Rooted(Marks(h), R, Closure(Marks(h), R))
      BY HeapFinite, ClosureRooted DEF Marks
    <2>2. QED
      BY <2>1 DEF Rooted
  <1>5. HeapOK(heap', nextObj') /\ SafeMarks(heap', R)
    <2>1. CASE heap' = h
      BY <1>3, <2>1
    <2>2. CASE heap' = Collected(h, R)
      <3>1. HeapOK(Collected(h, R), nextObj')
        BY CollectedHeap
      <3>2. SafeMarks(Collected(h, R), R)
        BY <1>3, <1>4, CollectedSafe
      <3>3. QED
        BY <2>2, <3>1, <3>2
    <2>3. QED
      BY <1>1, <2>1, <2>2
  <1>6. (Kept \subseteq DOMAIN heap)'
    BY <1>2, <1>5 DEF Kept, SafeMarks, Marks
  <1>7. Shape'
    BY <1>5 DEF Inv, Shape
  <1>8. QED
    BY <1>6, <1>7 DEF Marked

-----------------------------------------------------------------------------
(* The parts of an instruction                                              *)

LEMMA PutIp ==
  ASSUME NEW f, IsFrame(f), NEW e
  PROVE  LET g == [f EXCEPT !.ip = e]
         IN  /\ IsFrame(g) /\ FrameRoots(g) = FrameRoots(f)
             /\ g.fn = f.fn /\ g.locals = f.locals
  <1> DEFINE g == [f EXCEPT !.ip = e]
  <1>1. g \in [fn : {f.fn}, ip : {e}, returnInstance : {f.returnInstance},
               instance : {f.instance}, locals : {f.locals}]
    BY DEF IsFrame
  <1> HIDE DEF g
  <1>2. /\ g.fn = f.fn /\ g.ip = e /\ g.returnInstance = f.returnInstance
        /\ g.instance = f.instance /\ g.locals = f.locals
    BY <1>1
  <1>3. IsFrame(g) /\ FrameRoots(g) = FrameRoots(f)
    BY <1>1, <1>2 DEF IsFrame, FrameRoots
  <1>4. QED
    BY <1>2, <1>3 DEF g

LEMMA PutLocals ==
  ASSUME NEW f, IsFrame(f), NEW s, IsSeq(s)
  PROVE  LET g == [f EXCEPT !.locals = s]
         IN  IsFrame(g) /\ FrameRoots(g) = ObjsIn(s) \cup ObjOf(f.instance) \cup ConstantsOf(FnOf(f.fn))
  <1> DEFINE g == [f EXCEPT !.locals = s]
  <1>1. g \in [fn : {f.fn}, ip : {f.ip}, returnInstance : {f.returnInstance},
               instance : {f.instance}, locals : {s}]
    BY DEF IsFrame
  <1> HIDE DEF g
  <1>2. /\ g.fn = f.fn /\ g.ip = f.ip /\ g.returnInstance = f.returnInstance
        /\ g.instance = f.instance /\ g.locals = s
    BY <1>1
  <1>3. IsFrame(g)
    BY <1>1, <1>2 DEF IsFrame
  <1>4. FrameRoots(g) = ObjsIn(s) \cup ObjOf(f.instance) \cup ConstantsOf(FnOf(f.fn))
    BY <1>2 DEF FrameRoots
  <1>5. QED
    BY <1>3, <1>4 DEF g

LEMMA Current ==
  ASSUME Inv, Running
  PROVE  /\ Len(frames) \in DOMAIN frames /\ Len(frames) \in Nat \ {0}
         /\ DOMAIN frames = 1 .. Len(frames)
         /\ IsFrame(Frame) /\ FrameRoots(Frame) \subseteq Held
  <1>1. IsSeq(frames) /\ frames # <<>> /\ \A i \in DOMAIN frames : IsFrame(frames[i])
    BY DEF Inv, Shape, AreFrames, Running
  <1>2. Len(frames) \in Nat /\ DOMAIN frames = 1 .. Len(frames)
    BY <1>1, SeqLength
  <1>3. Len(frames) # 0
    BY <1>1, EmptySeq DEF IsSeq
  <1>4. Len(frames) \in DOMAIN frames
    BY <1>2, <1>3
  <1>5. FrameRoots(Frame) \subseteq FramesRoots(frames)
    BY <1>4 DEF FramesRoots, Frame
  <1>6. QED
    BY <1>1, <1>2, <1>3, <1>4, <1>5, RootsHeld DEF Frame

\* Only the top frame changes.
LEMMA TopFramePut ==
  ASSUME Inv, Running, NEW g, IsFrame(g), NEW T, FrameRoots(g) \subseteq T, Held \subseteq T
  PROVE  LET frs == [frames EXCEPT ![Len(frames)] = g]
         IN  AreFrames(frs) /\ Len(frs) = Len(frames) /\ FramesRoots(frs) \subseteq T
  <1> DEFINE frs == [frames EXCEPT ![Len(frames)] = g]
  <1>1. IsSeq(frames) /\ \A i \in DOMAIN frames : IsFrame(frames[i])
    BY DEF Inv, Shape, AreFrames
  <1>2. IsSeq(frs) /\ Len(frs) = Len(frames)
    BY <1>1, UpdateSeq
  <1>3. DOMAIN frs = DOMAIN frames
        /\ \A i \in DOMAIN frs : frs[i] = IF i = Len(frames) THEN g ELSE frames[i]
    OBVIOUS
  <1> HIDE DEF frs
  <1>4. \A i \in DOMAIN frs : IsFrame(frs[i])
    BY <1>1, <1>3
  <1>5. \A i \in DOMAIN frames : FrameRoots(frames[i]) \subseteq T
    BY RootsHeld DEF FramesRoots
  <1>6. FramesRoots(frs) \subseteq T
    BY <1>3, <1>5 DEF FramesRoots
  <1>7. QED
    BY <1>2, <1>4, <1>6 DEF AreFrames, frs

LEMMA IpFrames ==
  ASSUME Inv, Running, NEW e
  PROVE  LET frs == [frames EXCEPT ![Len(frames)].ip = e]
         IN  AreFrames(frs) /\ Len(frs) = Len(frames) /\ FramesRoots(frs) \subseteq Held
  <1> DEFINE g == [Frame EXCEPT !.ip = e]
  <1>1. IsFrame(g) /\ FrameRoots(g) \subseteq Held
    BY Current, PutIp
  <1>2. [frames EXCEPT ![Len(frames)].ip = e] = [frames EXCEPT ![Len(frames)] = g]
    BY DEF Frame
  <1> HIDE DEF g
  <1> DEFINE frs == [frames EXCEPT ![Len(frames)] = g]
  <1>3. AreFrames(frs) /\ Len(frs) = Len(frames) /\ FramesRoots(frs) \subseteq Held
    BY <1>1, TopFramePut
  <1> HIDE DEF frs
  <1>4. QED
    BY <1>2, <1>3 DEF frs

LEMMA ReadFrames ==
  ASSUME Inv, Running, NEW n
  PROVE  AreFrames(Read(n)) /\ Len(Read(n)) = Len(frames) /\ FramesRoots(Read(n)) \subseteq Held
  <1> DEFINE e == Frame.ip + 1 + n
  <1>1. Read(n) = [frames EXCEPT ![Len(frames)].ip = e]
    BY DEF Read, Frame
  <1> HIDE DEF e
  <1>2. QED
    BY <1>1, IpFrames

LEMMA LocalFrames ==
  ASSUME Inv, Running, NEW n, NEW s, IsSeq(s), ObjsIn(s) \subseteq Held
  PROVE  LET frs == [Read(n) EXCEPT ![Len(frames)].locals = s]
         IN  AreFrames(frs) /\ FramesRoots(frs) \subseteq Held
  <1> DEFINE f == [Frame EXCEPT !.ip = Frame.ip + 1 + n]
             g == [f EXCEPT !.locals = s]
             frs == [Read(n) EXCEPT ![Len(frames)].locals = s]
  <1>1. IsFrame(f) /\ FrameRoots(f) \subseteq Held
    BY Current, PutIp
  <1>2. Read(n) = [frames EXCEPT ![Len(frames)] = f]
    BY DEF Read, Frame
  <1> HIDE DEF f
  <1>3. IsFrame(g) /\ FrameRoots(g) \subseteq Held
    BY <1>1, PutLocals DEF FrameRoots
  <1>4. frs = [frames EXCEPT ![Len(frames)] = g]
    <2>1. Len(frames) \in DOMAIN frames
      BY Current
    <2>2. Read(n)[Len(frames)] = f /\ DOMAIN Read(n) = DOMAIN frames
      BY <1>2, <2>1
    <2>3. frs = [Read(n) EXCEPT ![Len(frames)] = g]
      BY <2>2
    <2> HIDE DEF g, frs
    <2>4. QED
      BY <1>2, <2>3
  <1> HIDE DEF g
  <1>5. QED
    BY <1>3, <1>4, TopFramePut

LEMMA StackLength ==
  ASSUME Inv
  PROVE  IsSeq(stack) /\ Len(stack) \in Nat /\ DOMAIN stack = 1 .. Len(stack)
  BY SeqLength DEF Inv, Shape

LEMMA TopHeld ==
  ASSUME Inv, NEW k \in 1 .. Len(stack)
  PROVE  ObjOf(Top(k)) \subseteq Held
  <1>1. Len(stack) - k + 1 \in DOMAIN stack
    BY StackLength
  <1>2. QED
    BY <1>1, ObjsInItem, RootsHeld DEF Top

LEMMA ReplacedStack ==
  ASSUME Inv, NEW n \in 0 .. Len(stack), NEW s, IsSeq(s)
  PROVE  /\ IsSeq(Replaced(n, s)) /\ ObjsIn(Replaced(n, s)) \subseteq Held \cup ObjsIn(s)
         /\ Len(Replaced(n, s)) = Len(stack) - n + Len(s)
  <1>1. IsSeq(stack) /\ Len(stack) \in Nat /\ Len(stack) - n \in 0 .. Len(stack)
    BY StackLength
  <1>2. /\ IsSeq(SubSeq(stack, 1, Len(stack) - n))
        /\ Len(SubSeq(stack, 1, Len(stack) - n)) = Len(stack) - n
    BY <1>1, FrontSeq
  <1>3. ObjsIn(SubSeq(stack, 1, Len(stack) - n)) \subseteq Held
    BY <1>1, ObjsInFront, RootsHeld
  <1>4. QED
    BY <1>2, <1>3, JoinSeq, ObjsInJoin DEF Replaced

\* The stack without its top n values, and with another value on it.
LEMMA PoppedStack ==
  ASSUME Inv, NEW n \in 0 .. Len(stack)
  PROVE  IsSeq(Replaced(n, <<>>)) /\ ObjsIn(Replaced(n, <<>>)) \subseteq Held
  BY ReplacedStack, ShortSeq, ObjsInShort

LEMMA PushedStack ==
  ASSUME Inv, NEW n \in 0 .. Len(stack), NEW v
  PROVE  IsSeq(Replaced(n, <<v>>)) /\ ObjsIn(Replaced(n, <<v>>)) \subseteq Held \cup ObjOf(v)
  BY ReplacedStack, ShortSeq, ObjsInShort

-----------------------------------------------------------------------------
(* Kinds of steps                                                           *)

\* Nothing happens to the heap.
LEMMA StepMoves ==
  ASSUME Inv, prog' = prog, heap' = heap, nextObj' = nextObj,
         IsSeq(stack'), ObjsIn(stack') \subseteq Held,
         AreFrames(frames'), FramesRoots(frames') \subseteq Held,
         ObjOf(lastReturn') \subseteq Held, ValuesIn(globals') \subseteq Held
  PROVE  Marked'
  <1>1. TraceRoots(stack', frames', globals', lastReturn') \subseteq Held
    BY RootsParts, RootsHeld
  <1>2. Follows(heap', TraceRoots(stack', frames', globals', lastReturn'))
    BY <1>1, RootsHeld DEF Follows, Inv, Shape
  <1>3. QED
    BY <1>2, StepStores

LEMMA StepStacks ==
  ASSUME Inv, Running, NEW n, NEW s, IsSeq(s), ObjsIn(s) \subseteq Held, Stacked(n, s)
  PROVE  Marked'
  BY ReadFrames, RootsHeld, StepMoves DEF Stacked

-----------------------------------------------------------------------------
(* Instructions that only move values                                       *)

LEMMA PopMarks ==
  ASSUME Inv, Pop PROVE Marked'
  <1>1. Running /\ 1 \in 0 .. Len(stack)
    BY StackLength DEF Pop, At
  <1>2. QED
    BY <1>1, PoppedStack, StepStacks DEF Pop

LEMMA DupMarks ==
  ASSUME Inv, Dup PROVE Marked'
  <1>1. Running /\ 1 \in 1 .. Len(stack) /\ 0 \in 0 .. Len(stack)
    BY StackLength DEF Dup, At
  <1>2. ObjsIn(Replaced(0, <<Top(1)>>)) \subseteq Held /\ IsSeq(Replaced(0, <<Top(1)>>))
    BY <1>1, PushedStack, TopHeld
  <1>3. QED
    BY <1>1, <1>2, StepStacks DEF Dup

LEMMA ConstHeld ==
  ASSUME Inv, Running, NEW k, HasConst(k)
  PROVE  ObjOf(Const(k)) \subseteq Held
  <1>1. ObjOf(Const(k)) \subseteq ConstantsOf(FnOf(Frame.fn))
    BY ObjsInItem DEF Const, HasConst, ConstantsOf
  <1>2. QED
    BY <1>1, Current DEF FrameRoots

LEMMA LocalHeld ==
  ASSUME Inv, Running, NEW i \in DOMAIN Frame.locals
  PROVE  ObjOf(Frame.locals[i]) \subseteq Held
  BY ObjsInItem, Current DEF FrameRoots

LEMMA ConstantMarks ==
  ASSUME Inv, Constant PROVE Marked'
  <1>1. Running /\ 0 \in 0 .. Len(stack) /\ ObjOf(Const(1)) \subseteq Held
    BY StackLength, ConstHeld DEF Constant, At
  <1>2. ObjsIn(Replaced(0, <<Const(1)>>)) \subseteq Held /\ IsSeq(Replaced(0, <<Const(1)>>))
    BY <1>1, PushedStack
  <1>3. QED
    BY <1>1, <1>2, StepStacks DEF Constant

LEMMA LoadVarMarks ==
  ASSUME Inv, LoadVar PROVE Marked'
  <1> DEFINE v == Frame.locals[Opnd(1) + 1]
  <1>1. Running /\ 0 \in 0 .. Len(stack)
    BY StackLength DEF LoadVar, At
  <1>2. IsSeq(Frame.locals)
    BY <1>1, Current DEF IsFrame
  <1>3. Opnd(1) + 1 \in DOMAIN Frame.locals
    BY <1>2, SeqLength DEF LoadVar
  <1>4. ObjOf(v) \subseteq Held
    BY <1>1, <1>3, LocalHeld
  <1> HIDE DEF v
  <1>5. ObjsIn(Replaced(0, <<v>>)) \subseteq Held /\ IsSeq(Replaced(0, <<v>>))
    BY <1>1, <1>4, PushedStack
  <1>6. QED
    BY <1>1, <1>5, StepStacks DEF LoadVar, v

LEMMA StoreVarMarks ==
  ASSUME Inv, StoreVar PROVE Marked'
  <1> DEFINE s == [Frame.locals EXCEPT ![Opnd(1) + 1] = Top(1)]
  <1>1. Running /\ 1 \in 1 .. Len(stack) /\ 1 \in 0 .. Len(stack)
    BY StackLength DEF StoreVar, At
  <1>2. IsSeq(Frame.locals) /\ ObjsIn(Frame.locals) \subseteq Held
    BY <1>1, Current DEF IsFrame, FrameRoots
  <1>3. IsSeq(s) /\ ObjsIn(s) \subseteq Held
    BY <1>1, <1>2, UpdateSeq, ObjsInUpdate, TopHeld
  <1>4. frames' = [Read(1) EXCEPT ![Len(frames)].locals = s]
    <2>1. Read(1)[Len(frames)].locals = Frame.locals
      <3>1. Len(frames) \in DOMAIN frames /\ IsFrame(Frame)
        BY <1>1, Current
      <3>2. Read(1)[Len(frames)] = [Frame EXCEPT !.ip = Frame.ip + 1 + 1]
        BY <3>1 DEF Read, Frame
      <3>3. QED
        BY <3>1, <3>2, PutIp
    <2>2. frames' = [Read(1) EXCEPT ![Len(frames)].locals =
                       [Read(1)[Len(frames)].locals EXCEPT ![Opnd(1) + 1] = Top(1)]]
      BY DEF StoreVar
    <2>3. QED
      BY <2>1, <2>2
  <1> HIDE DEF s
  <1>5. AreFrames(frames') /\ FramesRoots(frames') \subseteq Held
    BY <1>1, <1>3, <1>4, LocalFrames
  <1>6. QED
    BY <1>1, <1>5, PoppedStack, RootsHeld, StepMoves DEF StoreVar

LEMMA PopNMarks ==
  ASSUME Inv, PopN PROVE Marked'
  <1> DEFINE slots == Opnd(1) + 1 .. Opnd(1) + Opnd(2)
             old == Frame.locals
             s == [i \in DOMAIN old |-> IF i \in slots THEN Null ELSE old[i]]
  <1>1. Running
    BY DEF PopN, At
  <1>2. IsSeq(old) /\ ObjsIn(old) \subseteq Held
    BY <1>1, Current DEF IsFrame, FrameRoots
  <1>3. IsSeq(s) /\ ObjsIn(s) \subseteq Held
    <2>1. Len(old) \in Nat /\ DOMAIN old = 1 .. Len(old)
      BY <1>2, SeqLength
    <2> DEFINE T == {old[i] : i \in DOMAIN old} \cup {Null}
    <2>2. \A i \in DOMAIN old : old[i] \in T /\ Null \in T
      OBVIOUS
    <2>3. IsSeq(s)
      <3> HIDE DEF slots, old, T
      <3>1. s \in [1 .. Len(old) -> T]
        BY <2>1, <2>2
      <3>2. QED
        BY <2>1, <3>1, FunctionSeq
    <2>4. \A i \in DOMAIN s : ObjOf(s[i]) \subseteq ObjsIn(old)
      BY ScalarsHoldNothing, ObjsInItem
    <2> HIDE DEF s, old
    <2>5. ObjsIn(s) \subseteq Held
      BY <1>2, <2>4 DEF ObjsIn
    <2>6. QED
      BY <2>3, <2>5
  <1>4. frames' = [Read(2) EXCEPT ![Len(frames)].locals = s]
    <2>1. Read(2)[Len(frames)].locals = old
      <3>1. Len(frames) \in DOMAIN frames /\ IsFrame(Frame)
        BY <1>1, Current
      <3>2. Read(2)[Len(frames)] = [Frame EXCEPT !.ip = Frame.ip + 1 + 2]
        BY <3>1 DEF Read, Frame
      <3>3. QED
        BY <3>1, <3>2, PutIp
    <2> DEFINE cur == Read(2)[Len(frames)].locals
    <2>2. frames' = [Read(2) EXCEPT ![Len(frames)].locals =
                       [i \in DOMAIN cur |-> IF i \in slots THEN Null ELSE cur[i]]]
      BY DEF PopN
    <2>3. QED
      BY <2>1, <2>2
  <1> HIDE DEF s
  <1>5. AreFrames(frames') /\ FramesRoots(frames') \subseteq Held
    BY <1>1, <1>3, <1>4, LocalFrames
  <1>6. QED
    BY <1>1, <1>5, StackLength, RootsHeld, StepMoves DEF PopN

\* The instruction takes m values off the stack and puts v there.
LEMMA StepPushes ==
  ASSUME Inv, Running, NEW n, NEW m \in 0 .. Len(stack), NEW v, ObjOf(v) \subseteq Held,
         Stacked(n, Replaced(m, <<v>>))
  PROVE  Marked'
  BY PushedStack, StepStacks

LEMMA ScalarMarks ==
  ASSUME Inv, Arithmetic \/ Comparison \/ Equality \/ Not \/ Negate
  PROVE  Marked'
  <1>1. CASE Arithmetic
    <2>1. PICK op \in {"OP_ADD", "OP_SUB", "OP_MUL", "OP_DIV"} :
            At(op, 2) /\ \E n : Stacked(0, Replaced(2, <<Num(n)>>))
      BY <1>1 DEF Arithmetic
    <2>2. Running /\ 2 \in 0 .. Len(stack)
      BY <2>1, StackLength DEF At
    <2>3. QED
      BY <2>1, <2>2, ScalarsHoldNothing, StepPushes
  <1>2. CASE Comparison
    <2>1. PICK op \in {"OP_LESS", "OP_GREATER"} :
            At(op, 2) /\ \E b : Stacked(0, Replaced(2, <<Bool(b)>>))
      BY <1>2 DEF Comparison
    <2>2. Running /\ 2 \in 0 .. Len(stack)
      BY <2>1, StackLength DEF At
    <2>3. QED
      BY <2>1, <2>2, ScalarsHoldNothing, StepPushes
  <1>3. CASE Equality
    <2>1. PICK op \in {"OP_EQ", "OP_NOT_EQUAL"} :
            At(op, 2) /\ \E b : Stacked(0, Replaced(2, <<Bool(b)>>))
      BY <1>3 DEF Equality
    <2>2. Running /\ 2 \in 0 .. Len(stack)
      BY <2>1, StackLength DEF At
    <2>3. QED
      BY <2>1, <2>2, ScalarsHoldNothing, StepPushes
  <1>4. CASE Not
    <2>1. Running /\ 1 \in 0 .. Len(stack) /\ Stacked(0, Replaced(1, <<Bool(~Top(1)[2])>>))
      BY <1>4, StackLength DEF Not, At
    <2>2. QED
      BY <2>1, ScalarsHoldNothing, StepPushes
  <1>5. CASE Negate
    <2>1. Running /\ 1 \in 0 .. Len(stack) /\ Stacked(0, Replaced(1, <<Num(-Top(1)[2])>>))
      BY <1>5, StackLength DEF Negate, At
    <2>2. QED
      BY <2>1, ScalarsHoldNothing, StepPushes
  <1>6. QED
    BY <1>1, <1>2, <1>3, <1>4, <1>5

LEMMA JumpMarks ==
  ASSUME Inv, Jump PROVE Marked'
  <1>1. Running
    BY DEF Jump, At
  <1>2. AreFrames(frames') /\ FramesRoots(frames') \subseteq Held
    BY <1>1, IpFrames DEF Jump
  <1>3. QED
    BY <1>2, StackLength, RootsHeld, StepMoves DEF Jump

LEMMA JumpIfFalseMarks ==
  ASSUME Inv, JumpIfFalse PROVE Marked'
  <1>1. Running /\ 1 \in 0 .. Len(stack)
    BY StackLength DEF JumpIfFalse, At
  <1>2. AreFrames(frames') /\ FramesRoots(frames') \subseteq Held
    <2>1. frames' = Read(1) \/ frames' = [frames EXCEPT ![Len(frames)].ip = Opnd(1)]
      BY DEF JumpIfFalse
    <2>2. QED
      BY <1>1, <2>1, ReadFrames, IpFrames
  <1>3. QED
    BY <1>1, <1>2, PoppedStack, RootsHeld, StepMoves DEF JumpIfFalse

LEMMA PrintTopMarks ==
  ASSUME Inv, PrintTop PROVE Marked'
  <1>1. Running /\ 1 \in 0 .. Len(stack)
    BY StackLength DEF PrintTop, At
  <1>2. QED
    BY <1>1, ReadFrames, PoppedStack, RootsHeld, StepMoves DEF PrintTop

LEMMA PutGlobalMarks ==
  ASSUME Inv, DefineGlobal \/ SetGlobal PROVE Marked'
  <1>1. Running /\ 1 \in 1 .. Len(stack) /\ 1 \in 0 .. Len(stack)
    BY StackLength DEF DefineGlobal, SetGlobal, At
  <1>2. ValuesIn(globals') \subseteq Held
    BY <1>1, ValuesInPut, TopHeld, RootsHeld DEF DefineGlobal, SetGlobal
  <1>3. QED
    BY <1>1, <1>2, ReadFrames, PoppedStack, RootsHeld, StepMoves DEF DefineGlobal, SetGlobal

LEMMA ValueHeld ==
  ASSUME NEW f, NEW x \in DOMAIN f
  PROVE  ObjOf(f[x]) \subseteq ValuesIn(f)
  BY DEF ValuesIn

LEMMA GetGlobalMarks ==
  ASSUME Inv, GetGlobal PROVE Marked'
  <1> DEFINE v == globals[Const(1)[2]]
  <1>1. Running /\ 0 \in 0 .. Len(stack)
    BY StackLength DEF GetGlobal, At
  <1>2. ObjOf(v) \subseteq Held
    BY ValueHeld, RootsHeld DEF GetGlobal
  <1> HIDE DEF v
  <1>3. QED
    BY <1>1, <1>2, StepPushes DEF GetGlobal, v

-----------------------------------------------------------------------------
(* Objects                                                                  *)

\* An object value that is held refers to an object of the heap.
LEMMA KindHeld ==
  ASSUME Inv, NEW v, ObjOf(v) \subseteq Held, NEW k, IsKind(v, k)
  PROVE  /\ v[2] \in Held /\ v[2] \in DOMAIN heap
         /\ IsObject(The(v)) /\ The(v).kind = k /\ Children(The(v)) \subseteq Held
  BY RootsHeld DEF IsKind, ObjOf, The

LEMMA ListItems ==
  ASSUME NEW ob, IsObject(ob), ob.kind = "list"
  PROVE  IsList(ob) /\ IsSeq(ob.items) /\ Children(ob) = ObjsIn(ob.items)
  <1>1. IsList(ob)
    BY DEF IsObject, IsDict, IsInstance, IsBound
  <1>2. QED
    BY <1>1, ChildrenOf DEF IsList, ValuesIn, ObjsIn

LEMMA DictEntries ==
  ASSUME NEW ob, IsObject(ob), ob.kind = "dict"
  PROVE  IsDict(ob) /\ Children(ob) = ValuesIn(ob.entries)
  BY ChildrenOf DEF IsObject, IsList, IsInstance, IsBound

LEMMA InstanceFields ==
  ASSUME NEW ob, IsObject(ob), ob.kind = "instance"
  PROVE  IsInstance(ob) /\ Children(ob) = {ob.class} \cup ValuesIn(ob.fields)
  BY ChildrenOf DEF IsObject, IsList, IsDict, IsBound

LEMMA GetHeld ==
  ASSUME NEW f, NEW name
  PROVE  ObjOf(Get(f, name)) \subseteq ValuesIn(f)
  BY ValueHeld, ScalarsHoldNothing DEF Get

\* One held object changes, to hold what is held.
LEMMA UpdatedHeap ==
  ASSUME Inv, NEW o \in Held, NEW ob, IsObject(ob), Children(ob) \subseteq Held
  PROVE  LET h == [heap EXCEPT ![o] = ob]
         IN  /\ DOMAIN h = DOMAIN heap /\ HeapOK(h, nextObj)
             /\ \A x \in Held : Children(h[x]) \subseteq Held
  <1> DEFINE h == [heap EXCEPT ![o] = ob]
  <1>1. DOMAIN h = DOMAIN heap /\ \A x \in DOMAIN heap : h[x] = IF x = o THEN ob ELSE heap[x]
    OBVIOUS
  <1> HIDE DEF h
  <1>2. HeapOK(h, nextObj)
    BY <1>1, RootsHeld DEF Inv, Shape, HeapOK
  <1>3. \A x \in Held : Children(h[x]) \subseteq Held
    BY <1>1, RootsHeld
  <1>4. QED
    BY <1>1, <1>2, <1>3 DEF h

\* The instruction stores into an object, ...
LEMMA StepUpdates ==
  ASSUME Inv, Running, NEW n, NEW s, IsSeq(s), ObjsIn(s) \subseteq Held,
         NEW o \in Held, NEW ob, IsObject(ob), Children(ob) \subseteq Held,
         Stores(n, s, [heap EXCEPT ![o] = ob])
  PROVE  Marked'
  <1> DEFINE h == [heap EXCEPT ![o] = ob]
  <1>1. /\ DOMAIN h = DOMAIN heap /\ HeapOK(h, nextObj)
        /\ \A x \in Held : Children(h[x]) \subseteq Held
    BY UpdatedHeap
  <1>2. /\ prog' = prog /\ nextObj' = nextObj /\ heap' = h /\ stack' = s /\ frames' = Read(n)
        /\ globals' = globals /\ lastReturn' = lastReturn
    BY DEF Stores
  <1> HIDE DEF h
  <1>3. AreFrames(frames') /\ FramesRoots(frames') \subseteq Held
    BY <1>2, ReadFrames
  <1>4. TraceRoots(stack', frames', globals', lastReturn') \subseteq Held
    BY <1>2, <1>3, RootsParts, RootsHeld
  <1>5. Follows(heap', TraceRoots(stack', frames', globals', lastReturn'))
    BY <1>1, <1>2, <1>4 DEF Follows
  <1>6. QED
    BY <1>2, <1>3, <1>5, StepStores

\* ... or makes objects, or stores, and then comes to a safepoint.
LEMMA StepAllocates ==
  ASSUME Inv, Running, NEW n, NEW k, NEW s, NEW h, Allocates(n, k, s, h), IsSeq(s),
         DOMAIN heap \subseteq DOMAIN h, HeapOK(h, nextObj + k),
         LET T == Held \cup (DOMAIN h \ DOMAIN heap)
         IN  ObjsIn(s) \subseteq T /\ \A o \in T : Children(h[o]) \subseteq T
  PROVE  Marked'
  <1> DEFINE T == Held \cup (DOMAIN h \ DOMAIN heap)
             R == TraceRoots(stack', frames', globals', lastReturn')
  <1>1. /\ prog' = prog /\ nextObj' = nextObj + k /\ stack' = s /\ frames' = Read(n)
        /\ globals' = globals /\ lastReturn' = lastReturn /\ SafePoint(h, frames')
    BY DEF Allocates
  <1>2. AreFrames(frames') /\ FramesRoots(frames') \subseteq Held
    BY <1>1, ReadFrames
  <1>3. R \subseteq T
    BY <1>1, <1>2, RootsParts, RootsHeld
  <1> HIDE DEF R
  <1>4. Follows(h, R)
    BY <1>1, <1>3 DEF Follows
  <1>5. SafeMarks(h, R)
    BY <1>4, FollowsSafe
  <1>6. QED
    BY <1>1, <1>2, <1>5, StepCollects DEF R

\* It makes the objects of obs.
LEMMA NewHeap ==
  ASSUME Inv, NEW obs, IsSeq(obs),
         \A i \in DOMAIN obs : IsObject(obs[i]) /\ Children(obs[i]) \subseteq Held
  PROVE  LET h == With(obs)
         IN  /\ HeapOK(h, nextObj + Len(obs)) /\ DOMAIN heap \subseteq DOMAIN h
             /\ DOMAIN h \ DOMAIN heap = nextObj .. nextObj + Len(obs) - 1
             /\ \A o \in DOMAIN heap : h[o] = heap[o]
             /\ \A o \in DOMAIN h \ DOMAIN heap : \E i \in DOMAIN obs : h[o] = obs[i]
  <1> DEFINE h == With(obs)
             new == nextObj .. nextObj + Len(obs) - 1
  <1>1. /\ nextObj \in Nat \ {0} /\ DOMAIN heap \subseteq 1 .. nextObj - 1
        /\ \A o \in DOMAIN heap : IsObject(heap[o]) /\ Children(heap[o]) \subseteq 1 .. nextObj - 1
        /\ Held \subseteq 1 .. nextObj - 1
    BY RootsHeld DEF Inv, Shape, HeapOK
  <1>2. Len(obs) \in Nat /\ DOMAIN obs = 1 .. Len(obs)
    BY SeqLength
  <1>3. h = [o \in DOMAIN heap \cup new |->
               IF o < nextObj THEN heap[o] ELSE obs[o - nextObj + 1]]
    BY DEF With
  <1> HIDE DEF h
  <1>4. DOMAIN h = DOMAIN heap \cup new /\ DOMAIN h \ DOMAIN heap = new
    BY <1>1, <1>2, <1>3
  <1>5. \A o \in DOMAIN heap : h[o] = heap[o]
    BY <1>1, <1>3
  <1>6. ASSUME NEW o \in new
        PROVE  \E i \in DOMAIN obs : h[o] = obs[i]
    <2>1. o - nextObj + 1 \in DOMAIN obs /\ ~(o < nextObj)
      BY <1>1, <1>2
    <2>2. h[o] = obs[o - nextObj + 1]
      BY <1>3, <2>1
    <2>3. QED
      BY <2>1, <2>2
  <1>7. DOMAIN h \subseteq 1 .. nextObj + Len(obs) - 1 /\ nextObj + Len(obs) \in Nat \ {0}
    BY <1>1, <1>2, <1>4
  <1>8. \A o \in DOMAIN h : IsObject(h[o]) /\ Children(h[o]) \subseteq 1 .. nextObj + Len(obs) - 1
    <2>1. 1 .. nextObj - 1 \subseteq 1 .. nextObj + Len(obs) - 1
      BY <1>1, <1>2
    <2>2. QED
      BY <1>1, <1>4, <1>5, <1>6, <2>1
  <1>9. HeapOK(h, nextObj + Len(obs))
    <2> DEFINE n == nextObj + Len(obs)
    <2>1. DOMAIN h \subseteq 1 .. n - 1 /\ n \in Nat \ {0}
      BY <1>1, <1>2, <1>7
    <2>2. 1 .. nextObj + Len(obs) - 1 = 1 .. n - 1
      <3>1. nextObj \in Nat /\ Len(obs) \in Nat
        BY <1>1, <1>2
      <3>2. nextObj + (Len(obs) - 1) = (nextObj + Len(obs)) - 1
        BY <3>1
      <3>3. QED
        BY <3>2
    <2> HIDE DEF n
    <2>3. HeapOK(h, n)
      BY <1>8, <2>1, <2>2 DEF HeapOK
    <2>4. QED
      BY <2>3 DEF n
  <1>10. QED
    BY <1>4, <1>5, <1>6, <1>9 DEF h

\* The objects that a step makes refer to what is held or to each other.
LEMMA StepMakes ==
  ASSUME Inv, Running, NEW n, NEW s, IsSeq(s), NEW obs, IsSeq(obs),
         Allocates(n, Len(obs), s, With(obs)),
         ObjsIn(s) \subseteq Held \cup (nextObj .. nextObj + Len(obs) - 1),
         \A i \in DOMAIN obs : IsObject(obs[i]) /\ Children(obs[i]) \subseteq Held
  PROVE  Marked'
  <1> DEFINE h == With(obs)
             T == Held \cup (DOMAIN h \ DOMAIN heap)
  <1>1. /\ HeapOK(h, nextObj + Len(obs)) /\ DOMAIN heap \subseteq DOMAIN h
        /\ DOMAIN h \ DOMAIN heap = nextObj .. nextObj + Len(obs) - 1
        /\ \A o \in DOMAIN heap : h[o] = heap[o]
        /\ \A o \in DOMAIN h \ DOMAIN heap : \E i \in DOMAIN obs : h[o] = obs[i]
    BY NewHeap
  <1>2. Allocates(n, Len(obs), s, h)
    OBVIOUS
  <1> HIDE DEF h
  <1>3. ObjsIn(s) \subseteq T
    BY <1>1
  <1>4. \A o \in T : Children(h[o]) \subseteq T
    BY <1>1, RootsHeld
  <1>5. QED
    BY <1>1, <1>2, <1>3, <1>4, StepAllocates

\* It makes none and stores into one, or into none.
LEMMA StepPuts ==
  ASSUME Inv, Running, NEW n, NEW s, IsSeq(s), ObjsIn(s) \subseteq Held,
         NEW o \in Held, NEW ob, IsObject(ob), Children(ob) \subseteq Held,
         Allocates(n, 0, s, [heap EXCEPT ![o] = ob])
  PROVE  Marked'
  <1> DEFINE h == [heap EXCEPT ![o] = ob]
  <1>1. /\ DOMAIN h = DOMAIN heap /\ HeapOK(h, nextObj)
        /\ \A x \in Held : Children(h[x]) \subseteq Held
    BY UpdatedHeap
  <1>2. Allocates(n, 0, s, h) /\ nextObj + 0 = nextObj
    BY <1>1 DEF HeapOK
  <1> HIDE DEF h
  <1>3. QED
    BY <1>1, <1>2, StepAllocates

LEMMA StepReturns ==
  ASSUME Inv, Running, NEW n, NEW s, IsSeq(s), ObjsIn(s) \subseteq Held,
         Allocates(n, 0, s, heap)
  PROVE  Marked'
  <1>1. HeapOK(heap, nextObj) /\ nextObj + 0 = nextObj
    BY DEF Inv, Shape, HeapOK
  <1>2. QED
    BY <1>1, RootsHeld, StepAllocates

\* The new objects.
LEMMA NewObjectsHold ==
  /\ IsObject(NewList) /\ Children(NewList) = {}
  /\ IsObject(NewDict) /\ Children(NewDict) = {}
  /\ \A c : IsObject(NewInstance(c)) /\ Children(NewInstance(c)) = {c}
  /\ \A v, m : IsObject(NewBound(v, m)) /\ Children(NewBound(v, m)) = ObjOf(v)
  <1>1. IsObject(NewList) /\ Children(NewList) = {}
    <2>1. NewList.kind = "list" /\ NewList.items = <<>>
      BY DEF NewList
    <2>2. IsList(NewList)
      BY ShortSeq DEF IsList, NewList
    <2>3. ValuesIn(<<>>) = {}
      BY ObjsInShort DEF ValuesIn, ObjsIn
    <2>4. QED
      BY <2>1, <2>2, <2>3, ChildrenOf DEF IsObject
  <1>2. IsObject(NewDict) /\ Children(NewDict) = {}
    <2>1. NewDict.kind = "dict" /\ NewDict.entries = NoFields
      BY DEF NewDict
    <2>2. IsDict(NewDict)
      BY DEF IsDict, NewDict
    <2>3. ValuesIn(NoFields) = {}
      BY DEF ValuesIn, NoFields
    <2>4. QED
      BY <2>1, <2>2, <2>3, ChildrenOf DEF IsObject
  <1>3. ASSUME NEW c
        PROVE  IsObject(NewInstance(c)) /\ Children(NewInstance(c)) = {c}
    <2>1. /\ NewInstance(c).kind = "instance" /\ NewInstance(c).class = c
          /\ NewInstance(c).fields = NoFields
      BY DEF NewInstance
    <2>2. IsInstance(NewInstance(c))
      BY DEF IsInstance, NewInstance
    <2>3. ValuesIn(NoFields) = {}
      BY DEF ValuesIn, NoFields
    <2>4. QED
      BY <2>1, <2>2, <2>3, ChildrenOf DEF IsObject
  <1>4. ASSUME NEW v, NEW m
        PROVE  IsObject(NewBound(v, m)) /\ Children(NewBound(v, m)) = ObjOf(v)
    <2>1. NewBound(v, m).kind = "bound" /\ NewBound(v, m).receiver = v
      BY DEF NewBound
    <2>2. IsBound(NewBound(v, m))
      BY DEF IsBound, NewBound
    <2>3. QED
      BY <2>1, <2>2, ChildrenOf DEF IsObject
  <1>5. QED
    BY <1>1, <1>2, <1>3, <1>4

-----------------------------------------------------------------------------
(* Instructions on objects                                                  *)

\* The operands of an instruction.
LEMMA Operands ==
  ASSUME Inv, NEW op, NEW n \in Nat, At(op, n)
  PROVE  /\ Running /\ n \in 0 .. Len(stack)
         /\ \A k \in 1 .. n : ObjOf(Top(k)) \subseteq Held
  <1>1. Running /\ n \in 0 .. Len(stack)
    BY StackLength DEF At
  <1>2. \A k \in 1 .. n : k \in 1 .. Len(stack)
    BY <1>1, StackLength
  <1>3. QED
    BY <1>1, <1>2, TopHeld

LEMMA NextObject ==
  ASSUME Inv
  PROVE  nextObj \in Nat \ {0} /\ DOMAIN heap \subseteq 1 .. nextObj - 1
  BY DEF Inv, Shape, HeapOK

\* The instruction has n operands and replaces m values by a new object.
LEMMA StepPushesNew ==
  ASSUME Inv, Running, NEW n, NEW m \in 0 .. Len(stack), NEW ob,
         IsObject(ob), Children(ob) \subseteq Held,
         Allocates(n, 1, Replaced(m, <<Obj(nextObj)>>), With(<<ob>>))
  PROVE  Marked'
  <1> DEFINE s == Replaced(m, <<Obj(nextObj)>>)
             obs == <<ob>>
  <1>1. /\ IsSeq(obs) /\ Len(obs) = 1
        /\ \A i \in DOMAIN obs : IsObject(obs[i]) /\ Children(obs[i]) \subseteq Held
    BY ShortSeq
  <1>2. IsSeq(s) /\ ObjsIn(s) \subseteq Held \cup {nextObj}
    BY PushedStack, ScalarsHoldNothing
  <1>3. Allocates(n, Len(obs), s, With(obs))
    BY <1>1
  <1>4. nextObj \in nextObj .. nextObj + Len(obs) - 1
    BY <1>1, NextObject
  <1> HIDE DEF s, obs
  <1>5. QED
    BY <1>1, <1>2, <1>3, <1>4, StepMakes

LEMMA ListNewMarks ==
  ASSUME Inv, ListNew PROVE Marked'
  <1>1. Running /\ 0 \in 0 .. Len(stack)
    BY Operands DEF ListNew
  <1>2. QED
    BY <1>1, NewObjectsHold, StepPushesNew DEF ListNew

LEMMA DictNewMarks ==
  ASSUME Inv, DictNew PROVE Marked'
  <1>1. Running /\ 0 \in 0 .. Len(stack)
    BY Operands DEF DictNew
  <1>2. QED
    BY <1>1, NewObjectsHold, StepPushesNew DEF DictNew

LEMMA ListPushMarks ==
  ASSUME Inv, ListPush PROVE Marked'
  <1> DEFINE o == Top(2)[2]
             s == Append(heap[o].items, Top(1))
             ob == [heap[o] EXCEPT !.items = s]
  <1>1. /\ Running /\ 2 \in 0 .. Len(stack) /\ 1 \in 0 .. Len(stack)
        /\ ObjOf(Top(1)) \subseteq Held /\ ObjOf(Top(2)) \subseteq Held
    BY Operands DEF ListPush
  <1>2. /\ o \in Held /\ o \in DOMAIN heap /\ IsObject(heap[o]) /\ heap[o].kind = "list"
        /\ Children(heap[o]) \subseteq Held
    BY <1>1, KindHeld DEF ListPush, The
  <1>3. IsList(heap[o]) /\ IsSeq(heap[o].items) /\ ObjsIn(heap[o].items) \subseteq Held
    BY <1>2, ListItems
  <1>4. IsSeq(s) /\ ObjsIn(s) \subseteq Held
    BY <1>1, <1>3, AppendSeq, ObjsInAppend
  <1>5. Allocates(0, 0, Replaced(1, <<>>), [heap EXCEPT ![o] = ob])
    BY DEF ListPush
  <1> HIDE DEF s, o
  <1>6. IsObject(ob) /\ Children(ob) \subseteq Held
    BY <1>3, <1>4, PutItems DEF IsObject
  <1> HIDE DEF ob
  <1>7. QED
    BY <1>1, <1>2, <1>5, <1>6, PoppedStack, StepPuts

LEMMA ListLenMarks ==
  ASSUME Inv, ListLen PROVE Marked'
  <1>1. Running /\ 1 \in 0 .. Len(stack)
    BY Operands DEF ListLen
  <1>2. QED
    BY <1>1, ScalarsHoldNothing, StepPushes DEF ListLen

LEMMA DictHasMarks ==
  ASSUME Inv, DictHas PROVE Marked'
  <1>1. Running /\ 2 \in 0 .. Len(stack)
    BY Operands DEF DictHas
  <1>2. QED
    BY <1>1, ScalarsHoldNothing, StepPushes DEF DictHas

LEMMA IndexGetListMarks ==
  ASSUME Inv, IndexGetList PROVE Marked'
  <1> DEFINE i == Top(1)[2] + 1
             v == The(Top(2)).items[i]
  <1>1. Running /\ 2 \in 0 .. Len(stack) /\ ObjOf(Top(2)) \subseteq Held
    BY Operands DEF IndexGetList
  <1>2. /\ IsSeq(The(Top(2)).items)
        /\ ObjsIn(The(Top(2)).items) \subseteq Held
    BY <1>1, KindHeld, ListItems DEF IndexGetList
  <1>3. i \in DOMAIN The(Top(2)).items
    BY <1>2, SeqLength DEF IndexGetList
  <1>4. ObjOf(v) \subseteq Held
    BY <1>2, <1>3, ObjsInItem
  <1>5. Stacked(0, Replaced(2, <<v>>))
    BY DEF IndexGetList
  <1> HIDE DEF v
  <1>6. QED
    BY <1>1, <1>4, <1>5, StepPushes

LEMMA IndexGetDictMarks ==
  ASSUME Inv, IndexGetDict PROVE Marked'
  <1> DEFINE v == Get(The(Top(2)).entries, Top(1)[2])
  <1>1. Running /\ 2 \in 0 .. Len(stack) /\ ObjOf(Top(2)) \subseteq Held
    BY Operands DEF IndexGetDict
  <1>2. ValuesIn(The(Top(2)).entries) \subseteq Held
    BY <1>1, KindHeld, DictEntries DEF IndexGetDict
  <1>3. ObjOf(v) \subseteq Held
    BY <1>2, GetHeld
  <1>4. Stacked(0, Replaced(2, <<v>>))
    BY DEF IndexGetDict
  <1> HIDE DEF v
  <1>5. QED
    BY <1>1, <1>3, <1>4, StepPushes

LEMMA IndexSetListMarks ==
  ASSUME Inv, IndexSetList PROVE Marked'
  <1> DEFINE o == Top(3)[2]
             s == [heap[o].items EXCEPT ![Top(2)[2] + 1] = Top(1)]
             ob == [heap[o] EXCEPT !.items = s]
  <1>1. /\ Running /\ 3 \in 0 .. Len(stack)
        /\ ObjOf(Top(1)) \subseteq Held /\ ObjOf(Top(3)) \subseteq Held
    BY Operands DEF IndexSetList
  <1>2. /\ o \in Held /\ o \in DOMAIN heap /\ IsObject(heap[o]) /\ heap[o].kind = "list"
        /\ Children(heap[o]) \subseteq Held
    BY <1>1, KindHeld DEF IndexSetList, The
  <1>3. IsList(heap[o]) /\ IsSeq(heap[o].items) /\ ObjsIn(heap[o].items) \subseteq Held
    BY <1>2, ListItems
  <1>4. IsSeq(s) /\ ObjsIn(s) \subseteq Held
    BY <1>1, <1>3, UpdateSeq, ObjsInUpdate
  <1>5. Stores(0, Replaced(3, <<>>), [heap EXCEPT ![o] = ob])
    BY DEF IndexSetList
  <1> HIDE DEF s, o
  <1>6. IsObject(ob) /\ Children(ob) \subseteq Held
    BY <1>3, <1>4, PutItems DEF IsObject
  <1> HIDE DEF ob
  <1>7. QED
    BY <1>1, <1>2, <1>5, <1>6, PoppedStack, StepUpdates

\* An entry of the dictionary that is the k-th operand becomes a held value.
LEMMA EntryPut ==
  ASSUME Inv, NEW v, ObjOf(v) \subseteq Held, IsKind(v, "dict"),
         NEW w, ObjOf(w) \subseteq Held, NEW key
  PROVE  LET ob == [heap[v[2]] EXCEPT !.entries = Put(heap[v[2]].entries, key, w)]
         IN  v[2] \in Held /\ IsObject(ob) /\ Children(ob) \subseteq Held
  <1> DEFINE o == v[2]
             t == Put(heap[o].entries, key, w)
             ob == [heap[o] EXCEPT !.entries = t]
  <1>1. o \in Held /\ IsDict(heap[o]) /\ ValuesIn(heap[o].entries) \subseteq Held
    BY KindHeld, DictEntries DEF The
  <1>2. ValuesIn(t) \subseteq Held
    BY <1>1, ValuesInPut
  <1> HIDE DEF t, o
  <1>3. IsObject(ob) /\ Children(ob) \subseteq Held
    BY <1>1, <1>2, PutEntries DEF IsObject
  <1> HIDE DEF ob
  <1>4. QED
    BY <1>1, <1>3 DEF o, ob, t

LEMMA IndexSetDictMarks ==
  ASSUME Inv, IndexSetDict PROVE Marked'
  <1> DEFINE o == Top(3)[2]
             ob == [heap[o] EXCEPT !.entries = Put(heap[o].entries, Top(2)[2], Top(1))]
  <1>1. /\ Running /\ 3 \in 0 .. Len(stack)
        /\ ObjOf(Top(1)) \subseteq Held /\ ObjOf(Top(3)) \subseteq Held
    BY Operands DEF IndexSetDict
  <1>2. o \in Held /\ IsObject(ob) /\ Children(ob) \subseteq Held
    BY <1>1, EntryPut DEF IndexSetDict
  <1>3. Allocates(0, 0, Replaced(3, <<>>), [heap EXCEPT ![o] = ob])
    BY DEF IndexSetDict
  <1> HIDE DEF ob, o
  <1>4. QED
    BY <1>1, <1>2, <1>3, PoppedStack, StepPuts

LEMMA SetPropDictMarks ==
  ASSUME Inv, SetPropDict PROVE Marked'
  <1> DEFINE o == Top(2)[2]
             ob == [heap[o] EXCEPT !.entries = Put(heap[o].entries, Const(1)[2], Top(1))]
  <1>1. /\ Running /\ 2 \in 0 .. Len(stack)
        /\ ObjOf(Top(1)) \subseteq Held /\ ObjOf(Top(2)) \subseteq Held
    BY Operands DEF SetPropDict
  <1>2. o \in Held /\ IsObject(ob) /\ Children(ob) \subseteq Held
    BY <1>1, EntryPut DEF SetPropDict
  <1>3. Allocates(1, 0, Replaced(2, <<>>), [heap EXCEPT ![o] = ob])
    BY DEF SetPropDict
  <1> HIDE DEF ob, o
  <1>4. QED
    BY <1>1, <1>2, <1>3, PoppedStack, StepPuts

LEMMA SetPropFieldMarks ==
  ASSUME Inv, SetPropField PROVE Marked'
  <1> DEFINE o == Top(2)[2]
             t == Put(heap[o].fields, Const(1)[2], Top(1))
             ob == [heap[o] EXCEPT !.fields = t]
  <1>1. /\ Running /\ 2 \in 0 .. Len(stack)
        /\ ObjOf(Top(1)) \subseteq Held /\ ObjOf(Top(2)) \subseteq Held
    BY Operands DEF SetPropField
  <1>2. /\ o \in Held /\ IsInstance(heap[o]) /\ heap[o].class \in Held
        /\ ValuesIn(heap[o].fields) \subseteq Held
    BY <1>1, KindHeld, InstanceFields DEF SetPropField, The
  <1>3. ValuesIn(t) \subseteq Held
    BY <1>1, <1>2, ValuesInPut
  <1>4. Stores(1, Replaced(2, <<>>), [heap EXCEPT ![o] = ob])
    BY DEF SetPropField
  <1> HIDE DEF t, o
  <1>5. IsObject(ob) /\ Children(ob) \subseteq Held
    BY <1>2, <1>3, PutFields DEF IsObject
  <1> HIDE DEF ob
  <1>6. QED
    BY <1>1, <1>2, <1>4, <1>5, PoppedStack, StepUpdates

LEMMA GetPropDictMarks ==
  ASSUME Inv, GetPropDict PROVE Marked'
  <1> DEFINE v == Get(The(Top(1)).entries, Const(1)[2])
  <1>1. Running /\ 1 \in 0 .. Len(stack) /\ ObjOf(Top(1)) \subseteq Held
    BY Operands DEF GetPropDict
  <1>2. ValuesIn(The(Top(1)).entries) \subseteq Held
    BY <1>1, KindHeld, DictEntries DEF GetPropDict
  <1>3. ObjOf(v) \subseteq Held
    BY <1>2, GetHeld
  <1>4. Stacked(1, Replaced(1, <<v>>))
    BY DEF GetPropDict
  <1> HIDE DEF v
  <1>5. QED
    BY <1>1, <1>3, <1>4, StepPushes

LEMMA GetPropFieldMarks ==
  ASSUME Inv, GetPropField PROVE Marked'
  <1> DEFINE v == The(Top(1)).fields[Const(1)[2]]
  <1>1. Running /\ 1 \in 0 .. Len(stack) /\ ObjOf(Top(1)) \subseteq Held
    BY Operands DEF GetPropField
  <1>2. ValuesIn(The(Top(1)).fields) \subseteq Held
    BY <1>1, KindHeld, InstanceFields DEF GetPropField
  <1>3. ObjOf(v) \subseteq Held
    BY <1>2, ValueHeld DEF GetPropField
  <1>4. Stacked(1, Replaced(1, <<v>>))
    BY DEF GetPropField
  <1> HIDE DEF v
  <1>5. QED
    BY <1>1, <1>3, <1>4, StepPushes

LEMMA GetPropMethodMarks ==
  ASSUME Inv, GetPropMethod PROVE Marked'
  <1>1. Running /\ 1 \in 0 .. Len(stack) /\ ObjOf(Top(1)) \subseteq Held
    BY Operands DEF GetPropMethod
  <1>2. \/ \E m : Allocates(1, 1, Replaced(1, <<Obj(nextObj)>>), With(<<NewBound(Top(1), m)>>))
        \/ Allocates(1, 0, Replaced(1, <<Null>>), heap)
    BY DEF GetPropMethod
  <1>3. ASSUME NEW m,
               Allocates(1, 1, Replaced(1, <<Obj(nextObj)>>), With(<<NewBound(Top(1), m)>>))
        PROVE  Marked'
    BY <1>1, <1>3, NewObjectsHold, StepPushesNew
  <1>4. CASE Allocates(1, 0, Replaced(1, <<Null>>), heap)
    BY <1>1, <1>4, PushedStack, ScalarsHoldNothing, StepReturns
  <1>5. QED
    BY <1>2, <1>3, <1>4

LEMMA GetSuperMarks ==
  ASSUME Inv, GetSuper PROVE Marked'
  <1>1. Running /\ 1 \in 0 .. Len(stack) /\ ObjOf(Top(1)) \subseteq Held
    BY Operands DEF GetSuper
  <1>2. PICK m : Allocates(2, 1, Replaced(1, <<Obj(nextObj)>>), With(<<NewBound(Top(1), m)>>))
    BY DEF GetSuper
  <1>3. QED
    BY <1>1, <1>2, NewObjectsHold, StepPushesNew

-----------------------------------------------------------------------------
(* Calls                                                                    *)

\* Nothing happens to the heap until the safepoint.
LEMMA StepReaches ==
  ASSUME Inv, prog' = prog, nextObj' = nextObj, globals' = globals, lastReturn' = lastReturn,
         IsSeq(stack'), ObjsIn(stack') \subseteq Held,
         AreFrames(frames'), FramesRoots(frames') \subseteq Held, SafePoint(heap, frames')
  PROVE  Marked'
  <1> DEFINE R == TraceRoots(stack', frames', globals', lastReturn')
  <1>1. R \subseteq Held
    BY RootsParts, RootsHeld
  <1> HIDE DEF R
  <1>2. HeapOK(heap, nextObj')
    BY DEF Inv, Shape
  <1>3. Follows(heap, R)
    BY <1>1, <1>2, RootsHeld DEF Follows
  <1>4. SafeMarks(heap, R)
    BY <1>3, FollowsSafe
  <1>5. QED
    BY <1>2, <1>4, StepCollects DEF R

\* The functions that can be entered.
LEMMA Registered ==
  ASSUME Inv, NEW i \in Callables, i >= BuiltinCount
  PROVE  /\ FnOf(i).arity \in Nat /\ FnOf(i).localCount \in Nat
         /\ ConstantsOf(FnOf(i)) \subseteq Held
  <1> DEFINE k == i - BuiltinCount + 1
  <1>1. prog.functions \in Seq(FunctionsOf(prog))
        /\ \A fn \in FunctionsOf(prog) : fn.arity \in Nat /\ fn.localCount \in Nat
    BY DEF Inv, Shape, FunctionsFormed
  <1>2. Len(prog.functions) \in Nat /\ DOMAIN prog.functions = 1 .. Len(prog.functions)
    BY <1>1, SeqShape
  <1>3. k \in DOMAIN prog.functions /\ i # Script
    BY <1>2 DEF Callables, BuiltinCount, Script
  <1>4. FnOf(i) = prog.functions[k]
    BY <1>3 DEF FnOf
  <1> HIDE DEF k
  <1>5. FnOf(i) \in FunctionsOf(prog)
    BY <1>3, <1>4 DEF FunctionsOf
  <1>6. ConstantsOf(FnOf(i)) \subseteq CodeRoots
    BY <1>3, <1>4 DEF CodeRoots
  <1>7. QED
    BY <1>1, <1>5, <1>6, RootsHeld

LEMMA ArityNat ==
  ASSUME Inv, NEW i \in Callables
  PROVE  Arity(i) \in Nat
  BY Registered DEF Arity

LEMMA ArgsHeld ==
  ASSUME Inv, NEW n \in 0 .. Len(stack)
  PROVE  IsSeq(Args(n)) /\ Len(Args(n)) = n /\ ObjsIn(Args(n)) \subseteq Held
  BY StackLength, BackSeq, ObjsInBack, RootsHeld DEF Args

LEMMA CalleeHeld ==
  ASSUME Inv, AtCallV
  PROVE  /\ Running /\ Opnd(1) \in 0 .. Len(stack) /\ Opnd(1) + 1 \in 0 .. Len(stack)
         /\ ObjOf(Callee) \subseteq Held
  <1>1. Running /\ Opnd(1) \in 0 .. Len(stack) - 1
    BY DEF AtCallV, At
  <1>2. Opnd(1) + 1 \in 1 .. Len(stack)
    BY <1>1, StackLength
  <1>3. QED
    BY <1>1, <1>2, StackLength, TopHeld DEF Callee

LEMMA CallIs ==
  ASSUME NEW i, NEW argv, NEW n
  PROVE  LET c == Call(i, argv, n)
         IN  c.i = i /\ c.argv = argv /\ c.rest = Replaced(n, <<>>)
  BY DEF Call

LEMMA CallHeld ==
  ASSUME Inv, NEW c \in Calls
  PROVE  /\ Running /\ IsSeq(c.argv) /\ ObjsIn(c.argv) \subseteq Held
         /\ IsSeq(c.rest) /\ ObjsIn(c.rest) \subseteq Held
  <1>1. CASE /\ At("OP_CALL", 0) /\ Opnd(1) \in Callables /\ Len(stack) >= Arity(Opnd(1))
             /\ c = Call(Opnd(1), Args(Arity(Opnd(1))), Arity(Opnd(1)))
    <2> DEFINE n == Arity(Opnd(1))
    <2>1. n \in 0 .. Len(stack)
      BY <1>1, ArityNat, StackLength
    <2>2. c.argv = Args(n) /\ c.rest = Replaced(n, <<>>)
      BY <1>1, CallIs
    <2> HIDE DEF n
    <2>3. Running
      BY <1>1 DEF At
    <2>4. QED
      BY <2>1, <2>2, <2>3, ArgsHeld, PoppedStack
  <1>2. CASE AtCallV /\ c = Call(Callee[2], Args(Opnd(1)), Opnd(1) + 1)
    BY <1>2, CallIs, CalleeHeld, ArgsHeld, PoppedStack
  <1>3. CASE /\ AtCallV /\ IsKind(Callee, "bound")
             /\ c = Call(The(Callee).method, <<The(Callee).receiver>> \o Args(Opnd(1)), Opnd(1) + 1)
    <2> DEFINE self == The(Callee).receiver
               argv == <<self>> \o Args(Opnd(1))
    <2>1. c.argv = argv /\ c.rest = Replaced(Opnd(1) + 1, <<>>)
      <3>1. c = Call(The(Callee).method, argv, Opnd(1) + 1)
        BY <1>3
      <3> HIDE DEF argv
      <3>2. QED
        BY <3>1, CallIs
    <2>2. The(Callee).kind = "bound" /\ Children(The(Callee)) \subseteq Held
      BY <1>3, CalleeHeld, KindHeld
    <2>3. ObjOf(self) \subseteq Held
      BY <2>2, ChildrenOf
    <2> HIDE DEF self
    <2>4. /\ IsSeq(<<self>> \o Args(Opnd(1)))
          /\ ObjsIn(<<self>> \o Args(Opnd(1))) \subseteq Held
      BY <1>3, <2>3, CalleeHeld, ArgsHeld, ShortSeq, ObjsInShort, JoinSeq, ObjsInJoin
    <2>5. QED
      BY <1>3, <2>1, <2>4, CalleeHeld, PoppedStack
  <1>4. QED
    BY <1>1, <1>2, <1>3 DEF Calls

LEMMA NewFrameHolds ==
  ASSUME NEW i, FnOf(i).localCount \in Nat, NEW argv, IsSeq(argv)
  PROVE  /\ IsFrame(NewFrame(i, argv)) /\ NewFrame(i, argv).instance = Null
         /\ FrameRoots(NewFrame(i, argv)) \subseteq ObjsIn(argv) \cup ConstantsOf(FnOf(i))
         /\ NewFrame(i, argv).locals =
              [s \in 1 .. FnOf(i).localCount |-> IF s <= Len(argv) THEN argv[s] ELSE Null]
  <1> DEFINE n == FnOf(i).localCount
             loc == [s \in 1 .. n |-> IF s <= Len(argv) THEN argv[s] ELSE Null]
             f == [fn |-> i, ip |-> 0, returnInstance |-> FALSE, instance |-> Null,
                   locals |-> loc]
  <1>1. Len(argv) \in Nat /\ DOMAIN argv = 1 .. Len(argv)
    BY SeqLength
  <1>2. loc \in [1 .. n -> {loc[s] : s \in 1 .. n}]
    OBVIOUS
  <1>3. IsSeq(loc)
    BY <1>2, FunctionSeq
  <1>4. ObjsIn(loc) \subseteq ObjsIn(argv)
    <2>1. ASSUME NEW s \in DOMAIN loc
          PROVE  ObjOf(loc[s]) \subseteq ObjsIn(argv)
      <3>1. CASE s <= Len(argv)
        <4>1. s \in DOMAIN argv /\ loc[s] = argv[s]
          BY <1>1, <3>1
        <4>2. QED
          BY <4>1, ObjsInItem
      <3>2. CASE ~(s <= Len(argv))
        <4>1. loc[s] = Null
          BY <3>2
        <4>2. QED
          BY <4>1, ScalarsHoldNothing
      <3>3. QED
        BY <3>1, <3>2
    <2> HIDE DEF loc
    <2>2. QED
      BY <2>1 DEF ObjsIn
  <1>5. NewFrame(i, argv) = f
    BY DEF NewFrame
  <1> HIDE DEF loc
  <1>6. f.fn = i /\ f.locals = loc /\ f.instance = Null
    OBVIOUS
  <1>7. IsFrame(f)
    BY <1>3, <1>6 DEF IsFrame
  <1> HIDE DEF f
  <1>8. FrameRoots(f) \subseteq ObjsIn(argv) \cup ConstantsOf(FnOf(i))
    BY <1>4, <1>6, ScalarsHoldNothing DEF FrameRoots
  <1>9. QED
    BY <1>5, <1>6, <1>7, <1>8 DEF loc

LEMMA EnteredFrames ==
  ASSUME Inv, Running, NEW i, NEW argv, IsSeq(argv), MayEnter(i, argv),
         NEW T, Held \subseteq T, ObjsIn(argv) \subseteq T
  PROVE  LET e == Entered(i, argv)
         IN  /\ AreFrames(e) /\ FramesRoots(e) \subseteq T
             /\ Len(e) \in DOMAIN e /\ e[Len(e)] = NewFrame(i, argv)
  <1> DEFINE f == NewFrame(i, argv)
             e == Append(Read(1), f)
  <1>1. FnOf(i).localCount \in Nat /\ ConstantsOf(FnOf(i)) \subseteq Held
    BY Registered DEF MayEnter
  <1>2. IsFrame(f) /\ FrameRoots(f) \subseteq T
    BY <1>1, NewFrameHolds
  <1>3. /\ IsSeq(Read(1)) /\ \A k \in DOMAIN Read(1) : IsFrame(Read(1)[k])
        /\ \A k \in DOMAIN Read(1) : FrameRoots(Read(1)[k]) \subseteq T
    BY ReadFrames DEF AreFrames, FramesRoots
  <1>4. Len(Read(1)) \in Nat /\ DOMAIN Read(1) = 1 .. Len(Read(1))
    BY <1>3, SeqLength
  <1> HIDE DEF f
  <1>5. /\ IsSeq(e) /\ Len(e) = Len(Read(1)) + 1 /\ DOMAIN e = 1 .. Len(Read(1)) + 1
        /\ \A k \in 1 .. Len(Read(1)) : e[k] = Read(1)[k]
        /\ e[Len(Read(1)) + 1] = f
    BY <1>3, AppendSeq
  <1> HIDE DEF e
  <1>6. \A k \in DOMAIN e : (k \in DOMAIN Read(1) /\ e[k] = Read(1)[k]) \/ e[k] = f
    BY <1>4, <1>5
  <1>7. AreFrames(e) /\ FramesRoots(e) \subseteq T
    BY <1>2, <1>3, <1>5, <1>6 DEF AreFrames, FramesRoots
  <1>8. Len(e) \in DOMAIN e /\ e[Len(e)] = f
    BY <1>4, <1>5
  <1>9. QED
    BY <1>7, <1>8 DEF Entered, e, f

LEMMA CallFunctionMarks ==
  ASSUME Inv, CallFunction PROVE Marked'
  <1>1. PICK c \in Calls :
          /\ MayEnter(c.i, c.argv) /\ stack' = c.rest /\ frames' = Entered(c.i, c.argv)
          /\ UNCHANGED <<prog, globals, nextObj, lastReturn>>
          /\ SafePoint(heap, frames')
    BY DEF CallFunction
  <1>2. AreFrames(frames') /\ FramesRoots(frames') \subseteq Held
    BY <1>1, CallHeld, EnteredFrames
  <1>3. QED
    BY <1>1, <1>2, CallHeld, StepReaches

LEMMA NewObjectsAre ==
  ASSUME Inv, ClassCalled
  PROVE  /\ IsSeq(NewObjects) /\ Len(NewObjects) = 2
         /\ \A i \in DOMAIN NewObjects :
              IsObject(NewObjects[i]) /\ Children(NewObjects[i]) \subseteq Held
         /\ ObjOf(NewOne) \subseteq nextObj .. nextObj + 1
  <1>1. Callee[2] \in Held
    BY CalleeHeld DEF ClassCalled, IsKind, ObjOf
  <1> DEFINE a == NewDict
             b == NewInstance(Callee[2])
             s == <<a, b>>
  <1>2. IsObject(a) /\ IsObject(b) /\ Children(a) \subseteq Held /\ Children(b) \subseteq Held
    BY <1>1, NewObjectsHold
  <1>3. NewObjects = s
    BY DEF NewObjects
  <1> HIDE DEF a, b
  <1>4. s \in Seq({a, b}) /\ Len(s) = 2 /\ DOMAIN s = {1, 2} /\ s[1] = a /\ s[2] = b
    OBVIOUS
  <1> HIDE DEF s
  <1>5. IsSeq(s)
    BY <1>4, SeqShape
  <1>6. \A i \in DOMAIN s : IsObject(s[i]) /\ Children(s[i]) \subseteq Held
    BY <1>2, <1>4
  <1>7. nextObj + 1 \in nextObj .. nextObj + 1 /\ ObjOf(NewOne) = {nextObj + 1}
    BY NextObject, ScalarsHoldNothing DEF NewOne
  <1>8. QED
    BY <1>3, <1>4, <1>5, <1>6, <1>7

LEMMA ConstructPlainMarks ==
  ASSUME Inv, ConstructPlain PROVE Marked'
  <1> DEFINE s == Replaced(1, <<NewOne>>)
  <1>1. Running /\ 1 \in 0 .. Len(stack)
    BY StackLength DEF ConstructPlain, ClassCalled, AtCallV, At
  <1>2. IsSeq(s) /\ ObjsIn(s) \subseteq Held \cup (nextObj .. nextObj + 2 - 1)
    <2>1. nextObj + 1 = nextObj + 2 - 1
      BY NextObject
    <2>2. QED
      BY <1>1, <2>1, PushedStack, NewObjectsAre DEF ConstructPlain
  <1>3. Allocates(1, 2, s, With(NewObjects)) /\ ClassCalled
    BY DEF ConstructPlain
  <1> HIDE DEF s
  <1>4. QED
    BY <1>1, <1>2, <1>3, NewObjectsAre, StepMakes

\* init's frame, told to return the instance that is its first argument.
LEMMA PutInstance ==
  ASSUME NEW f, IsFrame(f), f.instance = Null,
         NEW v, IsObj(v), ObjOf(v) \subseteq ObjsIn(f.locals)
  PROVE  LET g == [f EXCEPT !.returnInstance = TRUE, !.instance = v]
         IN  IsFrame(g) /\ FrameRoots(g) = FrameRoots(f)
  <1> DEFINE g == [f EXCEPT !.returnInstance = TRUE, !.instance = v]
  <1>1. g \in [fn : {f.fn}, ip : {f.ip}, returnInstance : {TRUE}, instance : {v},
               locals : {f.locals}]
    BY DEF IsFrame
  <1> HIDE DEF g
  <1>2. /\ g.fn = f.fn /\ g.ip = f.ip /\ g.returnInstance = TRUE /\ g.instance = v
        /\ g.locals = f.locals
    BY <1>1
  <1>3. IsFrame(g)
    BY <1>1, <1>2 DEF IsFrame
  <1>4. FrameRoots(g) = FrameRoots(f)
    BY <1>2, ScalarsHoldNothing DEF FrameRoots
  <1>5. QED
    BY <1>3, <1>4 DEF g

LEMMA ReturnsInstance ==
  ASSUME NEW e, AreFrames(e), Len(e) \in DOMAIN e, e[Len(e)].instance = Null,
         NEW v, IsObj(v), ObjOf(v) \subseteq ObjsIn(e[Len(e)].locals)
  PROVE  LET frs == [e EXCEPT ![Len(e)].returnInstance = TRUE, ![Len(e)].instance = v]
         IN  AreFrames(frs) /\ FramesRoots(frs) = FramesRoots(e)
  <1> DEFINE n == Len(e)
             g == [e[n] EXCEPT !.returnInstance = TRUE, !.instance = v]
             frs == [e EXCEPT ![n] = g]
  <1>1. [e EXCEPT ![n].returnInstance = TRUE, ![n].instance = v] = frs
    OBVIOUS
  <1>2. IsFrame(g) /\ FrameRoots(g) = FrameRoots(e[n])
    BY PutInstance DEF AreFrames
  <1> HIDE DEF g
  <1>3. DOMAIN frs = DOMAIN e /\ \A i \in DOMAIN e : frs[i] = IF i = n THEN g ELSE e[i]
    OBVIOUS
  <1>4. IsSeq(frs)
    BY UpdateSeq DEF AreFrames
  <1> HIDE DEF frs
  <1>5. \A i \in DOMAIN e : IsFrame(frs[i]) /\ FrameRoots(frs[i]) = FrameRoots(e[i])
    BY <1>2, <1>3 DEF AreFrames
  <1>6. AreFrames(frs) /\ FramesRoots(frs) = FramesRoots(e)
    BY <1>3, <1>4, <1>5 DEF AreFrames, FramesRoots
  <1>7. QED
    BY <1>1, <1>6

LEMMA ConstructInitMarks ==
  ASSUME Inv, ConstructInit PROVE Marked'
  <1> DEFINE init == GetMethodIndex(Callee[2], "init")
             args == Args(Opnd(1))
             argv == <<NewOne>> \o args
             e == Entered(init, argv)
             h == With(NewObjects)
             T == Held \cup (DOMAIN h \ DOMAIN heap)
             R == TraceRoots(stack', e, globals', lastReturn')
  <1>1. /\ ClassCalled /\ MayEnter(init, argv)
        /\ stack' = Replaced(Opnd(1) + 1, <<>>) /\ nextObj' = nextObj + 2
        /\ frames' = [e EXCEPT ![Len(e)].returnInstance = TRUE, ![Len(e)].instance = NewOne]
        /\ UNCHANGED <<prog, globals, lastReturn>>
        /\ SafePoint(h, e)
    BY DEF ConstructInit
  <1>2. /\ Running /\ Opnd(1) \in 0 .. Len(stack) /\ IsSeq(args) /\ ObjsIn(args) \subseteq Held
        /\ IsSeq(stack') /\ ObjsIn(stack') \subseteq Held
    BY <1>1, CalleeHeld, ArgsHeld, PoppedStack DEF ClassCalled
  <1>3. /\ HeapOK(h, nextObj') /\ DOMAIN heap \subseteq DOMAIN h
        /\ nextObj .. nextObj + 1 = DOMAIN h \ DOMAIN heap
        /\ \A o \in T : Children(h[o]) \subseteq T
    <2>1. /\ HeapOK(h, nextObj + Len(NewObjects)) /\ DOMAIN heap \subseteq DOMAIN h
          /\ DOMAIN h \ DOMAIN heap = nextObj .. nextObj + Len(NewObjects) - 1
          /\ \A o \in DOMAIN heap : h[o] = heap[o]
          /\ \A o \in DOMAIN h \ DOMAIN heap : \E i \in DOMAIN NewObjects : h[o] = NewObjects[i]
      BY <1>1, NewObjectsAre, NewHeap
    <2> HIDE DEF h
    <2>2. \A o \in T : Children(h[o]) \subseteq T
      BY <1>1, <2>1, NewObjectsAre, RootsHeld
    <2>3. nextObj + Len(NewObjects) = nextObj' /\ nextObj + Len(NewObjects) - 1 = nextObj + 1
      <3>1. nextObj' = nextObj + 2
        BY <1>1
      <3>2. Len(NewObjects) = 2 /\ nextObj \in Nat
        BY <1>1, NewObjectsAre, NextObject
      <3>3. QED
        BY <3>1, <3>2
    <2>4. QED
      BY <2>1, <2>2, <2>3
  <1> HIDE DEF h
  <1>4. /\ IsSeq(argv) /\ Len(argv) = 1 + Len(args) /\ argv[1] = NewOne
        /\ ObjsIn(argv) = ObjOf(NewOne) \cup ObjsIn(args)
    <2>1. IsSeq(<<NewOne>>) /\ Len(<<NewOne>>) = 1 /\ <<NewOne>>[1] = NewOne
      BY ShortSeq
    <2>2. ObjsIn(<<NewOne>>) = ObjOf(NewOne)
      BY ObjsInShort
    <2> DEFINE s == <<NewOne>>
    <2> HIDE DEF s, args
    <2>3. /\ IsSeq(s \o args) /\ Len(s \o args) = Len(s) + Len(args)
          /\ \A i \in 1 .. Len(s) : (s \o args)[i] = s[i]
      BY <1>2, <2>1, JoinSeq DEF s
    <2>4. ObjsIn(s \o args) = ObjsIn(s) \cup ObjsIn(args)
      BY <1>2, <2>1, ObjsInJoin DEF s
    <2>5. QED
      BY <2>1, <2>2, <2>3, <2>4 DEF s
  <1>5. ObjsIn(argv) \subseteq T
    BY <1>1, <1>2, <1>3, <1>4, NewObjectsAre
  <1> HIDE DEF argv, T
  <1>6. /\ AreFrames(e) /\ FramesRoots(e) \subseteq T
        /\ Len(e) \in DOMAIN e /\ e[Len(e)] = NewFrame(init, argv)
    <2>1. Held \subseteq T
      BY DEF T
    <2>2. QED
      BY <1>1, <1>2, <1>4, <1>5, <2>1, EnteredFrames
  <1>7. e[Len(e)].instance = Null /\ ObjOf(NewOne) \subseteq ObjsIn(e[Len(e)].locals)
    <2> DEFINE f == e[Len(e)]
    <2>1. FnOf(init).localCount \in Nat /\ Len(argv) <= FnOf(init).localCount
      BY <1>1, Registered DEF MayEnter
    <2>2. /\ f.instance = Null
          /\ f.locals =
               [s \in 1 .. FnOf(init).localCount |-> IF s <= Len(argv) THEN argv[s] ELSE Null]
      <3>1. f = NewFrame(init, argv)
        BY <1>6
      <3> HIDE DEF f, init
      <3>2. QED
        BY <1>4, <2>1, <3>1, NewFrameHolds
    <2>3. 1 <= Len(argv)
      BY <1>2, <1>4, SeqLength
    <2>4. 1 \in 1 .. FnOf(init).localCount
      BY <1>2, <1>4, <2>1, <2>3, SeqLength
    <2> HIDE DEF f
    <2>5. 1 \in DOMAIN f.locals /\ f.locals[1] = NewOne
      BY <1>4, <2>2, <2>3, <2>4
    <2>6. ObjOf(NewOne) \subseteq ObjsIn(f.locals)
      BY <2>5, ObjsInItem
    <2>7. QED
      BY <2>2, <2>6 DEF f
  <1> HIDE DEF e
  <1>8. AreFrames(frames') /\ FramesRoots(frames') = FramesRoots(e)
    BY <1>1, <1>6, <1>7, ScalarsHoldNothing, ReturnsInstance DEF NewOne
  <1>9. R \subseteq T /\ R = TraceRoots(stack', frames', globals', lastReturn')
    BY <1>1, <1>2, <1>6, <1>8, RootsParts, RootsHeld DEF T
  <1> HIDE DEF R
  <1>10. Follows(h, R)
    BY <1>3, <1>9 DEF Follows, T
  <1>11. SafeMarks(h, R)
    BY <1>10, FollowsSafe
  <1>12. QED
    BY <1>1, <1>2, <1>3, <1>8, <1>9, <1>11, StepCollects DEF R

LEMMA ReturnMarks ==
  ASSUME Inv, Return PROVE Marked'
  <1>1. Running /\ 1 \in 0 .. Len(stack) /\ ObjOf(Top(1)) \subseteq Held
    BY Operands DEF Return
  <1>2. ObjOf(Returned) \subseteq Held
    BY <1>1, Current DEF Returned, FrameRoots
  <1>3. IsSeq(stack') /\ ObjsIn(stack') \subseteq Held
    <2>1. stack' = Replaced(1, <<>>) \/ stack' = Replaced(1, <<Returned>>)
      BY DEF Return
    <2>2. QED
      BY <1>1, <1>2, <2>1, PoppedStack, PushedStack
  <1>4. AreFrames(frames') /\ FramesRoots(frames') \subseteq Held
    <2> DEFINE n == Len(frames) - 1
               frs == SubSeq(frames, 1, n)
    <2>1. IsSeq(frames) /\ Len(frames) \in Nat \ {0} /\ DOMAIN frames = 1 .. Len(frames)
      BY <1>1, Current DEF Inv, Shape, AreFrames
    <2>2. n \in 0 .. Len(frames)
      BY <2>1
    <2>3. frames' = frs
      BY DEF Return
    <2>4. IsSeq(frs) /\ DOMAIN frs = 1 .. n /\ \A i \in 1 .. n : frs[i] = frames[i]
      BY <2>1, <2>2, FrontSeq
    <2>5. \A i \in 1 .. n : i \in DOMAIN frames
      BY <2>1
    <2> HIDE DEF frs, n
    <2>6. \A i \in DOMAIN frs : IsFrame(frs[i]) /\ FrameRoots(frs[i]) \subseteq Held
      BY <2>4, <2>5, RootsHeld DEF Inv, Shape, AreFrames, FramesRoots
    <2>7. QED
      BY <2>3, <2>4, <2>6 DEF AreFrames, FramesRoots
  <1>5. QED
    BY <1>1, <1>3, <1>4, RootsHeld, StepMoves DEF Return

-----------------------------------------------------------------------------
(* Natives                                                                  *)

LEMMA ResultStack ==
  ASSUME Inv, NEW c \in Calls, NEW v
  PROVE  IsSeq(Append(c.rest, v)) /\ ObjsIn(Append(c.rest, v)) \subseteq Held \cup ObjOf(v)
  BY CallHeld, AppendSeq, ObjsInAppend

\* A native returns what is held, or no object.
LEMMA NativeMarks ==
  ASSUME Inv, NEW c \in Calls, NEW ret, ObjOf(ret) \subseteq Held,
         NativeReturns(c, ret, 0, heap)
  PROVE  Marked'
  BY CallHeld, ResultStack, StepReturns DEF NativeReturns

LEMMA FirstArgument ==
  ASSUME Inv, NEW c \in Calls, Len(c.argv) = 1
  PROVE  ObjOf(c.argv[1]) \subseteq Pinned(c.argv) /\ Pinned(c.argv) \subseteq Held
  BY CallHeld, SeqLength, ObjsInItem DEF Pinned

LEMMA NativeArity ==
  /\ Arity(Builtin["__gc_collect"]) = 0
  /\ \A name \in {"len", "str", "type", "abs", "__test_emit", "__gc_touch", "__make_big_dict"} :
       Arity(Builtin[name]) = 1
  BY DEF Arity, Builtin, BuiltinCount

LEMMA ScalarNativeMarks ==
  ASSUME Inv, NativeLen \/ NativeStr \/ NativeType \/ NativeAbs \/ NativeClock
  PROVE  Marked'
  <1>1. CASE NativeLen
    <2>1. PICK c \in Calls : \E n : NativeReturns(c, Num(n), 0, heap)
      BY <1>1 DEF NativeLen
    <2>2. QED
      BY <2>1, ScalarsHoldNothing, NativeMarks
  <1>2. CASE NativeStr
    <2>1. PICK c \in Calls :
            /\ IsNative(c, "str")
            /\ \E t : NativeReturns(c, IF IsStr(c.argv[1]) THEN c.argv[1] ELSE Str(t), 0, heap)
      BY <1>2 DEF NativeStr
    <2>2. Len(c.argv) = 1
      BY <2>1, NativeArity DEF IsNative
    <2>3. ObjOf(c.argv[1]) \subseteq Held
      BY <2>2, FirstArgument
    <2>4. PICK t : NativeReturns(c, IF IsStr(c.argv[1]) THEN c.argv[1] ELSE Str(t), 0, heap)
      BY <2>1
    <2> DEFINE ret == IF IsStr(c.argv[1]) THEN c.argv[1] ELSE Str(t)
    <2>5. ObjOf(ret) \subseteq Held /\ NativeReturns(c, ret, 0, heap)
      BY <2>3, <2>4, ScalarsHoldNothing
    <2> HIDE DEF ret
    <2>6. QED
      BY <2>5, NativeMarks
  <1>3. CASE NativeType
    <2>1. PICK c \in Calls : \E t : NativeReturns(c, Str(t), 0, heap)
      BY <1>3 DEF NativeType
    <2>2. QED
      BY <2>1, ScalarsHoldNothing, NativeMarks
  <1>4. CASE NativeAbs
    <2>1. PICK c \in Calls : \E n : NativeReturns(c, Num(n), 0, heap)
      BY <1>4 DEF NativeAbs
    <2>2. QED
      BY <2>1, ScalarsHoldNothing, NativeMarks
  <1>5. CASE NativeClock
    <2>1. PICK c \in Calls : \E n : NativeReturns(c, Num(n), 0, heap)
      BY <1>5 DEF NativeClock
    <2>2. QED
      BY <2>1, ScalarsHoldNothing, NativeMarks
  <1>6. QED
    BY <1>1, <1>2, <1>3, <1>4, <1>5

LEMMA NativeEmitMarks ==
  ASSUME Inv, NativeEmit PROVE Marked'
  <1>1. PICK c \in Calls :
          /\ IsNative(c, "__test_emit")
          /\ stack' = Append(c.rest, c.argv[1]) /\ frames' = Read(1)
          /\ UNCHANGED <<prog, globals, nextObj, lastReturn>>
          /\ SafePoint(heap, frames')
    BY DEF NativeEmit
  <1>2. ObjOf(c.argv[1]) \subseteq Held
    <2>1. Len(c.argv) = 1
      BY <1>1, NativeArity DEF IsNative
    <2>2. QED
      BY <2>1, FirstArgument
  <1>3. IsSeq(stack') /\ ObjsIn(stack') \subseteq Held
    BY <1>1, <1>2, ResultStack
  <1>4. AreFrames(frames') /\ FramesRoots(frames') \subseteq Held
    BY <1>1, CallHeld, ReadFrames
  <1>5. QED
    BY <1>1, <1>3, <1>4, StepReaches

LEMMA NativeMakeBigDictMarks ==
  ASSUME Inv, NativeMakeBigDict PROVE Marked'
  <1> DEFINE obs == <<NewDict>>
  <1>1. PICK c \in Calls : NativeReturns(c, Obj(nextObj), 1, With(obs))
    BY DEF NativeMakeBigDict
  <1> DEFINE s == Append(c.rest, Obj(nextObj))
  <1>2. /\ IsSeq(obs) /\ Len(obs) = 1
        /\ \A i \in DOMAIN obs : IsObject(obs[i]) /\ Children(obs[i]) \subseteq Held
    BY ShortSeq, NewObjectsHold
  <1>3. IsSeq(s) /\ ObjsIn(s) \subseteq Held \cup {nextObj}
    BY ResultStack, ScalarsHoldNothing
  <1>4. Allocates(1, Len(obs), s, With(obs))
    BY <1>1, <1>2 DEF NativeReturns
  <1>5. Running /\ nextObj \in nextObj .. nextObj + Len(obs) - 1
    BY <1>2, CallHeld, NextObject
  <1> HIDE DEF obs, s
  <1>6. QED
    BY <1>2, <1>3, <1>4, <1>5, StepMakes

\* The roots of the frames do not depend on the instruction pointer.
LEMMA ReadRoots ==
  ASSUME Inv, Running, NEW n
  PROVE  FramesRoots(Read(n)) = FramesRoots(frames)
  <1> DEFINE f == [Frame EXCEPT !.ip = Frame.ip + 1 + n]
             frs == [frames EXCEPT ![Len(frames)] = f]
  <1>1. FrameRoots(f) = FrameRoots(Frame)
    BY Current, PutIp
  <1>2. Read(n) = frs
    BY DEF Read, Frame
  <1> HIDE DEF f
  <1>3. DOMAIN frs = DOMAIN frames
        /\ \A i \in DOMAIN frames : frs[i] = IF i = Len(frames) THEN f ELSE frames[i]
    OBVIOUS
  <1> HIDE DEF frs
  <1>4. \A i \in DOMAIN frames : FrameRoots(frs[i]) = FrameRoots(frames[i])
    BY <1>1, <1>3 DEF Frame
  <1>5. QED
    BY <1>2, <1>3, <1>4 DEF FramesRoots

\* A native that collects: what it was given is pinned.
LEMMA CollectsMarks ==
  ASSUME Inv, NEW c \in Calls, NEW ret, ObjOf(ret) \subseteq Pinned(c.argv),
         NativeReturns(c, ret, 0, CollectedIn(c))
  PROVE  Marked'
  <1> DEFINE Q == TraceRoots(c.rest, frames, globals, lastReturn) \cup Pinned(c.argv)
             h == Collected(heap, Q)
             s == Append(c.rest, ret)
             R == TraceRoots(stack', frames', globals', lastReturn')
  <1>1. /\ stack' = s /\ frames' = Read(1) /\ nextObj' = nextObj
        /\ UNCHANGED <<prog, globals, lastReturn>>
        /\ SafePoint(h, frames')
    <2>1. nextObj + 0 = nextObj
      BY NextObject
    <2>2. QED
      BY <2>1 DEF NativeReturns, Allocates, CollectedIn
  <1>2. Running /\ ObjsIn(c.rest) \subseteq Held /\ Pinned(c.argv) \subseteq Held
    BY CallHeld DEF Pinned
  <1>3. HeapOK(heap, nextObj) /\ IsFiniteSet(DOMAIN heap) /\ Safe(heap, Roots)
    BY HeapFinite, HeldAndKept DEF Inv, Shape
  <1>4. Q \subseteq Closure(Kids(heap), Roots)
    BY <1>2, RootsParts, RootsHeld, HeldAndKept
  <1>5. R \subseteq Q
    <2>1. FramesRoots(frames') = FramesRoots(frames)
      BY <1>1, <1>2, ReadRoots
    <2>2. ObjsIn(s) = ObjsIn(c.rest) \cup ObjOf(ret)
      BY CallHeld, ObjsInAppend
    <2> HIDE DEF s
    <2>3. R = ObjsIn(s) \cup FramesRoots(frames) \cup ObjOf(lastReturn) \cup CodeRoots
                \cup ValuesIn(globals)
      BY <1>1, <2>1, RootsParts
    <2>4. Q = ObjsIn(c.rest) \cup FramesRoots(frames) \cup ObjOf(lastReturn) \cup CodeRoots
                \cup ValuesIn(globals) \cup Pinned(c.argv)
      BY RootsParts
    <2> HIDE DEF Q, R
    <2>5. QED
      BY <2>2, <2>3, <2>4
  <1>6. IsSeq(stack') /\ AreFrames(frames')
    BY <1>1, <1>2, ResultStack, ReadFrames
  <1> HIDE DEF Q, R
  <1>7. SafeMarks(heap, Q)
    BY <1>3, <1>4, FewerRoots, SafeIsSafeMarks
  <1>8. R \subseteq Closure(Marks(heap), Q)
    <2>1. Rooted(Marks(heap), Q, Closure(Marks(heap), Q))
      BY <1>3, ClosureRooted DEF Marks
    <2>2. QED
      BY <1>5, <2>1 DEF Rooted
  <1>9. HeapOK(h, nextObj') /\ SafeMarks(h, R)
    BY <1>1, <1>3, <1>7, <1>8, CollectedHeap, CollectedSafe
  <1> HIDE DEF h
  <1>10. QED
    BY <1>1, <1>6, <1>9, StepCollects DEF R

LEMMA CollectingNativeMarks ==
  ASSUME Inv, NativeGcCollect \/ NativeGcTouch PROVE Marked'
  <1>1. CASE NativeGcCollect
    <2>1. PICK c \in Calls : NativeReturns(c, Null, 0, CollectedIn(c))
      BY <1>1 DEF NativeGcCollect
    <2>2. QED
      BY <2>1, ScalarsHoldNothing, CollectsMarks
  <1>2. CASE NativeGcTouch
    <2>1. PICK c \in Calls :
            IsNative(c, "__gc_touch") /\ NativeReturns(c, c.argv[1], 0, CollectedIn(c))
      BY <1>2 DEF NativeGcTouch
    <2>2. Len(c.argv) = 1
      BY <2>1, NativeArity DEF IsNative
    <2>3. QED
      BY <2>1, <2>2, FirstArgument, CollectsMarks
  <1>3. QED
    BY <1>1, <1>2

-----------------------------------------------------------------------------
(* Theorems                                                                 *)

LEMMA StepMarks ==
  ASSUME Inv, Step PROVE Marked'
  <1>1. ASSUME Native PROVE Marked'
    BY <1>1, ScalarNativeMarks, NativeEmitMarks, NativeMakeBigDictMarks, CollectingNativeMarks
       DEF Native
  <1>2. QED
    BY <1>1, PopMarks, DupMarks, ConstantMarks, LoadVarMarks, StoreVarMarks, PopNMarks,
       ScalarMarks, JumpMarks, JumpIfFalseMarks, PrintTopMarks, PutGlobalMarks, GetGlobalMarks,
       ListNewMarks, ListPushMarks, ListLenMarks, DictNewMarks, DictHasMarks,
       IndexGetListMarks, IndexGetDictMarks, IndexSetListMarks, IndexSetDictMarks,
       GetPropDictMarks, GetPropFieldMarks, GetPropMethodMarks, SetPropDictMarks,
       SetPropFieldMarks, GetSuperMarks, CallFunctionMarks, ConstructPlainMarks,
       ConstructInitMarks, ReturnMarks
       DEF Step

LEMMA HaltedMarks ==
  ASSUME Inv, UNCHANGED vars PROVE Marked'
  BY StackLength, RootsHeld, StepMoves DEF Inv, Shape, vars

\* A program begins with its classes, which refer to each other and are what its
\* constants refer to.
LEMMA InitInv ==
  ASSUME Init PROVE Inv
  <1> DEFINE made == DOMAIN heap
             f == NewRun(prog)
  <1>1. /\ WellFormed(prog) /\ frames = <<f>> /\ stack = <<>> /\ globals = NoFields
        /\ heap = prog.objects /\ nextObj = Cardinality(made) + 1 /\ lastReturn = Null
    BY ProgramAssumption DEF Init
  <1>2. /\ made = 1 .. Cardinality(made) /\ Cardinality(made) \in Nat
        /\ \A o \in made : heap[o].kind = "class" /\ heap[o].super \in {0} \cup made
    BY <1>1, FS_CardinalityType DEF WellFormed
  <1>3. /\ FunctionsFormed(prog) /\ prog.script.localCount \in Nat
        /\ \A fn \in FunctionsOf(prog) : ConstantsOf(fn) \subseteq made
        /\ prog.script \in FunctionsOf(prog)
        /\ \A i \in DOMAIN prog.functions : prog.functions[i] \in FunctionsOf(prog)
    BY <1>1 DEF WellFormed, FunctionsFormed, ConstantsOf, FunctionsOf
  <1>4. /\ HeapOK(heap, nextObj)
        /\ \A o \in made : Children(heap[o]) \subseteq made
    <2>1. \A o \in made : Children(heap[o]) \subseteq made
      BY <1>2, ChildrenOf
    <2>2. made = 1 .. nextObj - 1 /\ nextObj \in Nat \ {0}
      BY <1>1, <1>2
    <2>3. \A o \in made : IsObject(heap[o])
      BY <1>2 DEF IsObject
    <2>4. QED
      BY <2>1, <2>2, <2>3 DEF HeapOK, made
  <1>5. IsFrame(f) /\ FrameRoots(f) \subseteq made
    <2> DEFINE n == prog.script.localCount
               loc == [s \in 1 .. n |-> Null]
    <2>1. /\ f = [fn |-> Script, ip |-> 0, returnInstance |-> FALSE, instance |-> Null,
                  locals |-> loc]
      BY DEF NewRun
    <2>2. loc \in [1 .. n -> {Null}]
      OBVIOUS
    <2>3. IsSeq(loc)
      BY <1>3, <2>2, FunctionSeq
    <2>4. ObjsIn(loc) = {}
      BY ScalarsHoldNothing DEF ObjsIn
    <2> HIDE DEF loc
    <2>5. f.fn = Script /\ f.instance = Null /\ f.locals = loc
      BY <2>1
    <2>6. IsFrame(f)
      BY <2>1, <2>3, <2>5 DEF IsFrame
    <2>7. FnOf(Script) = prog.script
      BY DEF FnOf
    <2>8. ConstantsOf(FnOf(f.fn)) \subseteq made
      BY <1>3, <2>5, <2>7
    <2>9. FrameRoots(f) \subseteq made
      BY <2>4, <2>5, <2>8, ScalarsHoldNothing DEF FrameRoots
    <2>10. QED
      BY <2>6, <2>9
  <1> HIDE DEF f, made
  <1>6. IsSeq(stack) /\ AreFrames(frames)
    BY <1>1, <1>5, ShortSeq DEF AreFrames
  <1>7. Roots \subseteq made
    <2>1. DOMAIN frames = {1} /\ frames[1] = f
      BY <1>1, ShortSeq
    <2>2. FramesRoots(frames) \subseteq made
      BY <1>5, <2>1 DEF FramesRoots
    <2>3. CodeRoots \subseteq made
      BY <1>3 DEF CodeRoots
    <2>4. ObjsIn(stack) = {} /\ ObjOf(lastReturn) = {} /\ ValuesIn(globals) = {}
      BY <1>1, ObjsInShort, ScalarsHoldNothing DEF ValuesIn, NoFields
    <2>5. QED
      BY <2>2, <2>3, <2>4, RootsParts DEF Roots
  <1>8. NoDangling
    <2>1. IsFiniteSet(DOMAIN heap)
      BY <1>4, HeapFinite
    <2>2. Rooted(Kids(heap), Roots, made)
      BY <1>4, <1>7 DEF Rooted, Further, Kids, made
    <2>3. Closure(Kids(heap), Roots) \subseteq made
      BY <2>1, <2>2, ClosureLeast DEF Kids
    <2>4. QED
      BY <2>3, HeldAndKept DEF Safe, made
  <1>9. QED
    BY <1>3, <1>4, <1>6, <1>8 DEF Inv, Shape

LEMMA NextMarks ==
  ASSUME Inv, [Next]_vars PROVE Marked'
  BY StepMarks, HaltedMarks DEF Next, Halted

\* One instruction, whatever it is and whether or not it ends in a collection (or
\* runs one), leaves everything allocated that a collection would look for.
THEOREM Invariance ==
  Spec /\ []FieldsTraced => []Inv
  <1>1. Init => Inv
    BY InitInv
  <1>2. Inv /\ [Next]_vars /\ FieldsTraced' => Inv'
    <2>1. Inv /\ [Next]_vars => Marked'
      BY NextMarks
    <2>2. Marked' /\ FieldsTraced' => Inv'
      BY MarkedGivesInv DEF Marked, FieldsTraced, Inv, NoDangling
    <2>3. QED
      BY <2>1, <2>2
  <1>3. QED
    BY <1>1, <1>2, PTL DEF Spec

\* Whatever the program can still come to use stays allocated, whichever of its
\* safepoints and natives collect (TraceRoots, GcSafePoint_, ArgRootScope), as long
\* as no object is held by marked fields alone: that the fields dictionary is traced
\* once is the one flaw that the collector has for the VM.
THEOREM Safety ==
  Spec /\ []FieldsTraced => []NoDangling
  <1>1. Inv => NoDangling
    BY DEF Inv
  <1>2. QED
    BY <1>1, Invariance, PTL
=============================================================================
