----------------------------- MODULE FilesProofs -----------------------------
(***************************************************************************)
(* Proof that Load gives back what Save was given, for functions of any size, *)
(* any constants and any number of functions in a file (Files.tla, RoundTrip). *)
(***************************************************************************)
EXTENDS Files, DataLemmas

-----------------------------------------------------------------------------
(* Sequences of sequences, one behind the other                              *)

\* All elements of w are sequences.
AreSeqs(w) == IsSeq(w) /\ \A i \in DOMAIN w : IsSeq(w[i])

HasFlat(w, n, f) == f = [i \in 1 .. n |-> IF i = 1 THEN w[i] ELSE f[i - 1] \o w[i]]
Flat(w) == CHOOSE f : f = [i \in 1 .. Len(w) |-> IF i = 1 THEN w[i] ELSE f[i - 1] \o w[i]]

LEMMA FlattenIs ==
  ASSUME NEW w
  PROVE  FlattenSeq(w) = IF Len(w) = 0 THEN w ELSE Flat(w)[Len(w)]
  BY DEF FlattenSeq, Flat

LEMMA FlatExists ==
  ASSUME NEW w, NEW N \in Nat
  PROVE  \E f : HasFlat(w, N, f)
  <1> DEFINE T == {m \in Nat : \E f : HasFlat(w, m, f)}
  <1>1. 0 \in T
    <2>1. HasFlat(w, 0, [i \in 1 .. 0 |-> 0])
      BY DEF HasFlat
    <2>2. QED
      BY <2>1
  <1>2. ASSUME NEW m \in Nat, m \in T
        PROVE  m + 1 \in T
    <2>1. PICK f : HasFlat(w, m, f)
      BY <1>2
    <2> DEFINE last == IF m = 0 THEN w[1] ELSE f[m] \o w[m + 1]
               g == [i \in 1 .. m + 1 |-> IF i <= m THEN f[i] ELSE last]
               h == [i \in 1 .. m + 1 |-> IF i = 1 THEN w[i] ELSE g[i - 1] \o w[i]]
    <2>2. ASSUME NEW i \in 1 .. m + 1
          PROVE  g[i] = h[i]
      <3>1. CASE i <= m /\ i = 1
        BY <2>1, <3>1 DEF HasFlat
      <3>2. CASE i <= m /\ i # 1
        <4>1. g[i - 1] = f[i - 1] /\ g[i] = f[i]
          <5> HIDE DEF last
          <5>1. QED
            BY <3>2
        <4>2. f[i] = f[i - 1] \o w[i]
          <5> HIDE DEF g, last
          <5>1. i \in 1 .. m /\ i # 1
            BY <3>2
          <5>2. QED
            BY <2>1, <5>1 DEF HasFlat
        <4>3. QED
          BY <3>2, <4>1, <4>2
      <3>3. CASE i = m + 1 /\ m = 0
        <4>1. g[i] = last /\ h[i] = w[1] /\ last = w[1]
          BY <3>3
        <4>2. QED
          BY <4>1
      <3>4. CASE i = m + 1 /\ m # 0
        <4>1. i \in 1 .. m + 1 /\ ~ (i <= m) /\ i - 1 = m /\ i - 1 \in 1 .. m + 1 /\ i - 1 <= m /\ i # 1
          BY <3>4
        <4>2. g[i - 1] = f[m]
          BY <4>1
        <4>3. g[i] = last /\ last = f[m] \o w[i]
          <5> HIDE DEF last
          <5>1. g[i] = last
            BY <4>1
          <5>2. last = f[m] \o w[i]
            BY <3>4 DEF last
          <5>3. QED
            BY <5>1, <5>2
        <4>4. h[i] = g[i - 1] \o w[i]
          <5> HIDE DEF g
          <5>1. QED
            BY <4>1
        <4>5. QED
          BY <4>2, <4>3, <4>4
      <3>5. QED
        BY <3>1, <3>2, <3>3, <3>4
    <2>3. g = h
      BY <2>2
    <2>4. HasFlat(w, m + 1, g)
      BY <2>3 DEF HasFlat
    <2>5. QED
      BY <2>4
  <1>3. N \in T
    <2> HIDE DEF T
    <2>1. QED
      BY <1>1, <1>2, Induction
  <1>4. QED
    BY <1>3

LEMMA FlatSteps ==
  ASSUME NEW w, IsSeq(w)
  PROVE  \A i \in 1 .. Len(w) : Flat(w)[i] = IF i = 1 THEN w[i] ELSE Flat(w)[i - 1] \o w[i]
  <1>1. Len(w) \in Nat
    BY SeqLength
  <1>2. HasFlat(w, Len(w), Flat(w))
    <2>1. PICK f : HasFlat(w, Len(w), f)
      BY <1>1, FlatExists
    <2>2. QED
      BY <2>1 DEF HasFlat, Flat
  <1>3. QED
    BY <1>2 DEF HasFlat

\* The first k of them.
Upto(w, k) == IF k = 0 THEN <<>> ELSE Flat(w)[k]

LEMMA EmptySequence ==
  ASSUME NEW s, IsSeq(s), Len(s) = 0
  PROVE  s = <<>>
  BY DEF IsSeq

LEMMA EmptyFirst ==
  ASSUME NEW s, IsSeq(s)
  PROVE  <<>> \o s = s
  BY DEF IsSeq

LEMMA UptoSteps ==
  ASSUME NEW w, AreSeqs(w)
  PROVE  /\ Upto(w, 0) = <<>> /\ Upto(w, Len(w)) = FlattenSeq(w)
         /\ \A k \in 1 .. Len(w) : Upto(w, k) = Upto(w, k - 1) \o w[k]
  <1>1. Len(w) \in Nat /\ DOMAIN w = 1 .. Len(w)
    BY SeqLength DEF AreSeqs
  <1>2. Upto(w, Len(w)) = FlattenSeq(w)
    <2>1. Len(w) = 0 => w = <<>>
      BY EmptySequence DEF AreSeqs
    <2>2. QED
      BY <2>1, FlattenIs DEF Upto
  <1>3. ASSUME NEW k \in 1 .. Len(w)
        PROVE  Upto(w, k) = Upto(w, k - 1) \o w[k]
    <2>1. Upto(w, k) = Flat(w)[k]
      BY DEF Upto
    <2>2. CASE k = 1
      <3>1. Flat(w)[k] = w[k] /\ IsSeq(w[k])
        BY <1>1, <2>2, FlatSteps DEF AreSeqs
      <3>2. Upto(w, k - 1) = <<>>
        BY <2>2 DEF Upto
      <3>3. QED
        BY <2>1, <3>1, <3>2, EmptyFirst
    <2>3. CASE k # 1
      <3>1. Flat(w)[k] = Flat(w)[k - 1] \o w[k]
        BY <2>3, FlatSteps DEF AreSeqs
      <3>2. Upto(w, k - 1) = Flat(w)[k - 1]
        BY <2>3 DEF Upto
      <3>3. QED
        BY <2>1, <3>1, <3>2
    <2>4. QED
      BY <2>2, <2>3
  <1>4. QED
    BY <1>2, <1>3 DEF Upto

LEMMA UptoSeq ==
  ASSUME NEW w, AreSeqs(w), NEW k \in 0 .. Len(w)
  PROVE  IsSeq(Upto(w, k)) /\ Len(Upto(w, k)) \in Nat
  <1> DEFINE T == {m \in Nat : m <= Len(w) => IsSeq(Upto(w, m))}
  <1>1. Len(w) \in Nat /\ DOMAIN w = 1 .. Len(w)
    BY SeqLength DEF AreSeqs
  <1>2. 0 \in T
    BY UptoSteps, ShortSeq
  <1>3. ASSUME NEW m \in Nat, m \in T
        PROVE  m + 1 \in T
    <2>1. SUFFICES ASSUME m + 1 <= Len(w) PROVE IsSeq(Upto(w, m + 1))
      OBVIOUS
    <2>2. m + 1 \in 1 .. Len(w) /\ (m + 1) - 1 = m /\ IsSeq(w[m + 1]) /\ IsSeq(Upto(w, m))
      BY <1>1, <1>3, <2>1 DEF AreSeqs
    <2>3. Upto(w, m + 1) = Upto(w, m) \o w[m + 1]
      BY <2>2, UptoSteps
    <2>4. IsSeq(Upto(w, m) \o w[m + 1])
      BY <2>2, JoinSeq
    <2>5. QED
      BY <2>3, <2>4
  <1>4. k \in T
    <2> HIDE DEF T
    <2>1. QED
      BY <1>2, <1>3, Induction
  <1>5. QED
    BY <1>1, <1>4, SeqLength

\* The first k of w do not depend on the others.
LEMMA UptoSame ==
  ASSUME NEW w, AreSeqs(w), NEW u, AreSeqs(u), NEW k \in 0 .. Len(w), k <= Len(u),
         \A i \in 1 .. k : w[i] = u[i]
  PROVE  Upto(w, k) = Upto(u, k)
  <1> DEFINE T == {m \in Nat : m <= k => Upto(w, m) = Upto(u, m)}
  <1>1. Len(w) \in Nat /\ Len(u) \in Nat
    BY SeqLength DEF AreSeqs
  <1>2. 0 \in T
    BY UptoSteps
  <1>3. ASSUME NEW m \in Nat, m \in T
        PROVE  m + 1 \in T
    <2>1. SUFFICES ASSUME m + 1 <= k PROVE Upto(w, m + 1) = Upto(u, m + 1)
      OBVIOUS
    <2>2. /\ m + 1 \in 1 .. Len(w) /\ m + 1 \in 1 .. Len(u) /\ (m + 1) - 1 = m
          /\ w[m + 1] = u[m + 1] /\ Upto(w, m) = Upto(u, m)
      BY <1>1, <1>3, <2>1
    <2>3. QED
      BY <2>2, UptoSteps
  <1>4. k \in T
    <2> HIDE DEF T
    <2>1. QED
      BY <1>2, <1>3, Induction
  <1>5. QED
    BY <1>4

LEMMA FlattenAppend ==
  ASSUME NEW w, AreSeqs(w), NEW s, IsSeq(s)
  PROVE  AreSeqs(Append(w, s)) /\ FlattenSeq(Append(w, s)) = FlattenSeq(w) \o s
  <1> DEFINE u == Append(w, s)
  <1>1. /\ IsSeq(u) /\ Len(u) = Len(w) + 1 /\ DOMAIN u = 1 .. Len(w) + 1
        /\ \A i \in 1 .. Len(w) : u[i] = w[i]
        /\ u[Len(w) + 1] = s /\ Len(w) \in Nat /\ DOMAIN w = 1 .. Len(w)
    BY AppendSeq, SeqLength DEF AreSeqs
  <1> HIDE DEF u
  <1>2. AreSeqs(u)
    <2>1. \A i \in 1 .. Len(w) + 1 : i \in 1 .. Len(w) \/ i = Len(w) + 1
      BY <1>1
    <2>2. QED
      BY <1>1, <2>1 DEF AreSeqs
  <1>3. Upto(u, Len(w)) = Upto(w, Len(w))
    BY <1>1, <1>2, UptoSame
  <1>4. Upto(u, Len(u)) = Upto(u, Len(w)) \o s
    <2>1. Len(u) \in 1 .. Len(u) /\ Len(u) - 1 = Len(w)
      BY <1>1
    <2>2. QED
      BY <1>1, <1>2, <2>1, UptoSteps
  <1>5. QED
    BY <1>2, <1>3, <1>4, UptoSteps DEF u

-----------------------------------------------------------------------------
(* What the file holds                                                       *)

\* The bytes b are in the file, behind the first p.
Holds(p, b) ==
  /\ p \in Nat /\ IsSeq(b) /\ IsSeq(file) /\ p + Len(b) <= Len(file)
  /\ \A i \in 1 .. Len(b) : file[p + i] = b[i]

LEMMA HoldsJoin ==
  ASSUME NEW p, NEW a, IsSeq(a), NEW b, IsSeq(b), Holds(p, a \o b)
  PROVE  Holds(p, a) /\ Holds(p + Len(a), b)
  <1> DEFINE c == a \o b
  <1>1. /\ Len(a) \in Nat /\ Len(b) \in Nat /\ Len(c) = Len(a) + Len(b) /\ Len(file) \in Nat
        /\ \A i \in 1 .. Len(a) : c[i] = a[i]
        /\ \A i \in 1 .. Len(b) : c[Len(a) + i] = b[i]
    BY JoinSeq, SeqLength DEF Holds
  <1>2. /\ p \in Nat /\ p + Len(c) <= Len(file) /\ IsSeq(file)
        /\ \A i \in 1 .. Len(c) : file[p + i] = c[i]
    BY DEF Holds
  <1> HIDE DEF c
  <1>3. Holds(p, a)
    BY <1>1, <1>2 DEF Holds
  <1>4. ASSUME NEW i \in 1 .. Len(b)
        PROVE  file[p + Len(a) + i] = b[i]
    <2>1. Len(a) + i \in 1 .. Len(c) /\ p + (Len(a) + i) = p + Len(a) + i
      BY <1>1, <1>2
    <2>2. QED
      BY <1>1, <1>2, <2>1
  <1>5. Holds(p + Len(a), b)
    BY <1>1, <1>2, <1>4 DEF Holds
  <1>6. QED
    BY <1>3, <1>5

LEMMA HoldsEach ==
  ASSUME NEW p, NEW w, AreSeqs(w), Holds(p, FlattenSeq(w)), NEW k \in 1 .. Len(w)
  PROVE  Holds(p + Len(Upto(w, k - 1)), w[k])
  <1> DEFINE Parts(m) == \A j \in 1 .. m : Holds(p + Len(Upto(w, j - 1)), w[j])
             T == {m \in Nat : m <= Len(w) /\ Holds(p, Upto(w, m)) => Parts(m)}
  <1>1. Len(w) \in Nat /\ DOMAIN w = 1 .. Len(w)
    BY SeqLength DEF AreSeqs
  <1>2. 0 \in T
    OBVIOUS
  <1>3. ASSUME NEW m \in Nat, m \in T
        PROVE  m + 1 \in T
    <2>1. SUFFICES ASSUME m + 1 <= Len(w), Holds(p, Upto(w, m + 1)) PROVE Parts(m + 1)
      OBVIOUS
    <2>2. m + 1 \in 1 .. Len(w) /\ m \in 0 .. Len(w) /\ (m + 1) - 1 = m /\ IsSeq(w[m + 1])
      BY <1>1, <2>1 DEF AreSeqs
    <2>3. Upto(w, m + 1) = Upto(w, m) \o w[m + 1] /\ IsSeq(Upto(w, m))
      BY <2>2, UptoSteps, UptoSeq
    <2>4. Holds(p, Upto(w, m)) /\ Holds(p + Len(Upto(w, m)), w[m + 1])
      <3>1. Holds(p, Upto(w, m) \o w[m + 1])
        BY <2>1, <2>3
      <3> HIDE DEF T, Parts
      <3>2. QED
        BY <2>2, <2>3, <3>1, HoldsJoin
    <2>5. Parts(m)
      BY <1>1, <1>3, <2>1, <2>4
    <2>6. ASSUME NEW j \in 1 .. m + 1
          PROVE  Holds(p + Len(Upto(w, j - 1)), w[j])
      <3>1. j \in 1 .. m \/ j = m + 1
        OBVIOUS
      <3>2. QED
        BY <2>2, <2>4, <2>5, <3>1
    <2>7. QED
      BY <2>6
  <1>4. Len(w) \in T
    <2> HIDE DEF T
    <2>1. QED
      BY <1>1, <1>2, <1>3, Induction
  <1>5. Parts(Len(w))
    <2>1. Holds(p, Upto(w, Len(w)))
      BY UptoSteps
    <2>2. QED
      BY <1>1, <1>4, <2>1
  <1>6. QED
    BY <1>5

LEMMA FlattenIsSeq ==
  ASSUME NEW w, AreSeqs(w)
  PROVE  IsSeq(FlattenSeq(w))
  <1>1. Len(w) \in 0 .. Len(w)
    BY SeqLength DEF AreSeqs
  <1>2. QED
    BY <1>1, UptoSeq, UptoSteps

-----------------------------------------------------------------------------
(* Reading what was written                                                  *)

LEMMA SameSeq ==
  ASSUME NEW s, IsSeq(s), NEW t, IsSeq(t), Len(s) = Len(t),
         \A i \in 1 .. Len(s) : s[i] = t[i]
  PROVE  s = t
  <1>1. Len(s) \in Nat /\ DOMAIN s = 1 .. Len(s) /\ DOMAIN t = 1 .. Len(s)
    BY SeqLength
  <1>2. s = [i \in 1 .. Len(s) |-> s[i]] /\ t = [i \in 1 .. Len(s) |-> t[i]]
    BY <1>1 DEF IsSeq
  <1>3. QED
    BY <1>2

LEMMA WriteSeq ==
  ASSUME NEW type \in DOMAIN Width, NEW v
  PROVE  /\ IsSeq(Write(type, v)) /\ Len(Write(type, v)) = Width[type]
         /\ Width[type] \in Nat \ {0}
         /\ Write(type, v)[1] = <<type, v, 1>>
  <1>1. Width[type] \in Nat \ {0}
    BY DEF Width
  <1> DEFINE n == Width[type]
             b == [i \in 1 .. n |-> <<type, v, i>>]
  <1> HIDE DEF n
  <1>2. b \in [1 .. n -> {b[i] : i \in 1 .. n}]
    OBVIOUS
  <1>3. IsSeq(b) /\ Len(b) = n
    BY <1>1, <1>2, FunctionSeq DEF n
  <1>4. b[1] = <<type, v, 1>>
    BY <1>1 DEF n
  <1>5. QED
    BY <1>1, <1>3, <1>4 DEF n, Write

\* Read gives what was written where it reads, and goes behind it.
LEMMA ReadWritten ==
  ASSUME NEW p, NEW type \in DOMAIN Width, NEW v, Holds(p, Write(type, v))
  PROVE  Read(type, p) = Reader(p + Width[type], v)
  <1> DEFINE n == Width[type]
             b == Write(type, v)
             S == {file[i] : i \in DOMAIN file}
  <1>1. n \in Nat \ {0} /\ IsSeq(b) /\ Len(b) = n /\ b[1] = <<type, v, 1>>
    BY WriteSeq
  <1>2. /\ p \in Nat /\ file \in Seq(S) /\ Len(file) \in Nat /\ p + n <= Len(file)
        /\ \A i \in 1 .. n : file[p + i] = b[i]
    BY <1>1, SeqLength DEF Holds, IsSeq
  <1> HIDE DEF n, b, S
  <1>3. Min({p + n, Len(file)}) = p + n
    BY <1>1, <1>2 DEF Min
  <1> DEFINE bytes == SubSeq(file, p + 1, p + n)
  <1>4. bytes = b
    <2>1. p + 1 \in 1 .. Len(file) + 1 /\ p + n \in 0 .. Len(file) /\ p + 1 <= p + n
      BY <1>1, <1>2
    <2>2. DOMAIN file = 1 .. Len(file) /\ p + 1 \in 1 .. Len(file) + 1 /\ p + n \in p + 1 - 1 .. Len(file)
      BY <1>1, <1>2, SeqShape
    <2>3. /\ bytes \in Seq(S) /\ Len(bytes) = p + n - (p + 1) + 1
          /\ \A i \in 1 .. p + n - (p + 1) + 1 : bytes[i] = file[p + 1 + i - 1]
      BY <1>1, <1>2, <2>1, <2>2, SubSeqProperties
    <2> HIDE DEF bytes
    <2>4. IsSeq(bytes) /\ Len(bytes) = n
      BY <1>1, <1>2, <2>3, SeqShape
    <2>5. ASSUME NEW i \in 1 .. n
          PROVE  bytes[i] = b[i]
      <3>1. i \in 1 .. p + n - (p + 1) + 1 /\ p + 1 + i - 1 = p + i
        BY <1>1, <1>2
      <3>2. QED
        BY <1>2, <2>3, <3>1
    <2>6. QED
      BY <1>1, <2>4, <2>5, SameSeq
  <1>5. b # <<>> /\ b[1][2] = v
    BY <1>1
  <1>6. QED
    BY <1>3, <1>4, <1>5 DEF Read, n, b

IsRounds(load, n, at, f) ==
  f = [i \in 0 .. n |->
        IF i = 0 THEN Reader(at, <<>>)
        ELSE Reader(load[f[i - 1].at].at, Append(f[i - 1].v, load[f[i - 1].at].v))]
Rounds(load, n, at) ==
  CHOOSE f : f = [i \in 0 .. n |->
        IF i = 0 THEN Reader(at, <<>>)
        ELSE Reader(load[f[i - 1].at].at, Append(f[i - 1].v, load[f[i - 1].at].v))]

LEMMA ReadManyIs ==
  ASSUME NEW load, NEW n, NEW at
  PROVE  ReadMany(load, n, at) = IF n = Garbage THEN Reader(at, <<>>) ELSE Rounds(load, n, at)[n]
  BY DEF ReadMany, Rounds

\* The first n of v, one by one.
LEMMA FrontSteps ==
  ASSUME NEW v, IsSeq(v)
  PROVE  /\ SubSeq(v, 1, 0) = <<>> /\ SubSeq(v, 1, Len(v)) = v
         /\ \A i \in 1 .. Len(v) : SubSeq(v, 1, i) = Append(SubSeq(v, 1, i - 1), v[i])
  <1>1. Len(v) \in Nat
    BY SeqLength
  <1>2. SubSeq(v, 1, 0) = <<>>
    <2>1. IsSeq(SubSeq(v, 1, 0)) /\ Len(SubSeq(v, 1, 0)) = 0
      BY <1>1, FrontSeq
    <2>2. QED
      BY <2>1, EmptySequence
  <1>3. SubSeq(v, 1, Len(v)) = v
    <2> DEFINE t == SubSeq(v, 1, Len(v))
    <2>1. IsSeq(t) /\ Len(t) = Len(v) /\ \A i \in 1 .. Len(v) : t[i] = v[i]
      BY <1>1, FrontSeq
    <2> HIDE DEF t
    <2>2. t = v
      BY <2>1, SameSeq
    <2>3. QED
      BY <2>2 DEF t
  <1>4. ASSUME NEW k \in 1 .. Len(v)
        PROVE  SubSeq(v, 1, k) = Append(SubSeq(v, 1, k - 1), v[k])
    <2> DEFINE s == SubSeq(v, 1, k - 1)
               t == SubSeq(v, 1, k)
               u == Append(s, v[k])
    <2>1. k - 1 \in 0 .. Len(v) /\ k \in 0 .. Len(v) /\ k - 1 + 1 = k /\ k \in Nat
      BY <1>1
    <2>2. IsSeq(s) /\ Len(s) = k - 1 /\ \A i \in 1 .. k - 1 : s[i] = v[i]
      BY <2>1, FrontSeq
    <2>3. IsSeq(t) /\ Len(t) = k /\ \A i \in 1 .. k : t[i] = v[i]
      BY <2>1, FrontSeq
    <2> HIDE DEF s, t
    <2>4. IsSeq(u) /\ Len(u) = k /\ (\A i \in 1 .. k - 1 : u[i] = s[i]) /\ u[k] = v[k]
      BY <2>1, <2>2, AppendSeq
    <2> HIDE DEF u
    <2>5. ASSUME NEW i \in 1 .. k
          PROVE  t[i] = u[i]
      <3>1. i \in 1 .. k - 1 \/ i = k
        BY <2>1
      <3>2. QED
        BY <2>2, <2>3, <2>4, <3>1
    <2>6. t = u
      BY <2>3, <2>4, <2>5, SameSeq
    <2>7. QED
      BY <2>6 DEF s, t, u
  <1>5. QED
    BY <1>2, <1>3, <1>4

LEMMA ReadManyReads ==
  ASSUME NEW load, NEW p, NEW w, AreSeqs(w), NEW v, IsSeq(v), Len(v) = Len(w),
         \A i \in 1 .. Len(w) :
           load[p + Len(Upto(w, i - 1))] = Reader(p + Len(Upto(w, i)), v[i]),
         p \in Nat
  PROVE  ReadMany(load, Len(w), p) = Reader(p + Len(FlattenSeq(w)), v)
  <1> DEFINE n == Len(w)
             At(i) == Reader(p + Len(Upto(w, i)), SubSeq(v, 1, i))
             reads == [i \in 0 .. n |-> At(i)]
             steps == [i \in 0 .. n |->
                        IF i = 0 THEN Reader(p, <<>>)
                        ELSE Reader(load[reads[i - 1].at].at,
                                    Append(reads[i - 1].v, load[reads[i - 1].at].v))]
  <1>1. n \in Nat
    BY SeqLength DEF AreSeqs
  <1> HIDE DEF n
  <1>2. At(0) = Reader(p, <<>>)
    <2>1. Upto(w, 0) = <<>> /\ SubSeq(v, 1, 0) = <<>> /\ Len(<<>>) = 0
      BY UptoSteps, FrontSteps, ShortSeq
    <2>2. p + 0 = p
      OBVIOUS
    <2>3. QED
      BY <2>1, <2>2
  <1>3. ASSUME NEW i \in 1 .. n
        PROVE  /\ At(i - 1).at = p + Len(Upto(w, i - 1)) /\ At(i - 1).v = SubSeq(v, 1, i - 1)
               /\ Reader(load[At(i - 1).at].at, Append(At(i - 1).v, load[At(i - 1).at].v)) = At(i)
    <2>1. At(i - 1).at = p + Len(Upto(w, i - 1)) /\ At(i - 1).v = SubSeq(v, 1, i - 1)
      BY DEF Reader
    <2>2. load[At(i - 1).at] = Reader(p + Len(Upto(w, i)), v[i])
      BY <2>1 DEF n
    <2>3. Append(SubSeq(v, 1, i - 1), v[i]) = SubSeq(v, 1, i)
      BY FrontSteps DEF n
    <2> DEFINE got == load[At(i - 1).at]
    <2>4. got.at = p + Len(Upto(w, i)) /\ got.v = v[i]
      BY <2>2 DEF Reader
    <2>5. Reader(got.at, Append(At(i - 1).v, got.v)) = At(i)
      <3>1. At(i) = Reader(p + Len(Upto(w, i)), SubSeq(v, 1, i))
        OBVIOUS
      <3> HIDE DEF got, At
      <3>2. QED
        BY <2>1, <2>3, <2>4, <3>1
    <2>6. QED
      BY <2>1, <2>5
  <1> HIDE DEF At
  <1>4. ASSUME NEW i \in 0 .. n
        PROVE  reads[i] = steps[i]
    <2>1. CASE i = 0
      BY <1>1, <1>2, <2>1
    <2>2. CASE i # 0
      <3>1. i \in 1 .. n /\ i - 1 \in 0 .. n /\ reads[i - 1] = At(i - 1) /\ reads[i] = At(i)
        BY <1>1, <2>2
      <3>2. QED
        BY <1>3, <3>1, <2>2
    <2>3. QED
      BY <2>1, <2>2
  <1>5. IsRounds(load, n, p, reads)
    <2>1. reads = steps
      BY <1>4
    <2>2. QED
      BY <2>1 DEF IsRounds
  <1>6. IsRounds(load, n, p, Rounds(load, n, p))
    BY <1>5 DEF IsRounds, Rounds
  <1> DEFINE f == Rounds(load, n, p)
             T == {m \in Nat : m <= n => f[m] = At(m)}
  <1> HIDE DEF f, reads
  <1>7. /\ f[0] = Reader(p, <<>>)
        /\ \A i \in 1 .. n :
             f[i] = Reader(load[f[i - 1].at].at, Append(f[i - 1].v, load[f[i - 1].at].v))
    <2>1. f = [i \in 0 .. n |->
                IF i = 0 THEN Reader(p, <<>>)
                ELSE Reader(load[f[i - 1].at].at, Append(f[i - 1].v, load[f[i - 1].at].v))]
      BY <1>6 DEF IsRounds, f
    <2>2. \A i \in 1 .. n : i \in 0 .. n /\ i # 0
      OBVIOUS
    <2>3. 0 \in 0 .. n
      BY <1>1
    <2>4. QED
      BY <2>1, <2>2, <2>3
  <1>8. 0 \in T
    BY <1>2, <1>7
  <1>9. ASSUME NEW m \in Nat, m \in T
        PROVE  m + 1 \in T
    <2>1. SUFFICES ASSUME m + 1 <= n PROVE f[m + 1] = At(m + 1)
      OBVIOUS
    <2>2. m + 1 \in 1 .. n /\ (m + 1) - 1 = m /\ f[m] = At(m)
      BY <1>1, <1>9, <2>1
    <2>3. QED
      BY <1>3, <1>7, <2>2
  <1>10. n \in T
    <2> HIDE DEF T
    <2>1. QED
      BY <1>1, <1>8, <1>9, Induction
  <1>11. f[n] = Reader(p + Len(FlattenSeq(w)), v)
    <2>1. f[n] = At(n)
      BY <1>1, <1>10
    <2>2. At(n) = Reader(p + Len(Upto(w, n)), SubSeq(v, 1, n))
      BY DEF At
    <2>3. Upto(w, n) = FlattenSeq(w) /\ SubSeq(v, 1, n) = v
      BY UptoSteps, FrontSteps DEF n
    <2>4. QED
      BY <2>1, <2>2, <2>3
  <1>12. n # Garbage
    BY <1>1, FilesAssumption
  <1>13. QED
    BY <1>11, <1>12, ReadManyIs DEF f, n

\* As many as there are of what load reads, one behind the other.
LEMMA ManyWritten ==
  ASSUME NEW load, NEW p, NEW w, AreSeqs(w), NEW v, IsSeq(v), Len(v) = Len(w),
         Holds(p, FlattenSeq(w)),
         \A i \in 1 .. Len(w) : \A q \in Nat :
           Holds(q, w[i]) => load[q] = Reader(q + Len(w[i]), v[i])
  PROVE  ReadMany(load, Len(w), p) = Reader(p + Len(FlattenSeq(w)), v)
  <1>1. p \in Nat /\ Len(w) \in Nat /\ DOMAIN w = 1 .. Len(w)
    BY SeqLength DEF Holds, AreSeqs
  <1>2. ASSUME NEW i \in 1 .. Len(w)
        PROVE  load[p + Len(Upto(w, i - 1))] = Reader(p + Len(Upto(w, i)), v[i])
    <2>1. i - 1 \in 0 .. Len(w) /\ IsSeq(w[i])
      BY <1>1 DEF AreSeqs
    <2>2. IsSeq(Upto(w, i - 1)) /\ Len(Upto(w, i - 1)) \in Nat /\ Len(w[i]) \in Nat
      BY <2>1, UptoSeq, SeqLength
    <2>3. Holds(p + Len(Upto(w, i - 1)), w[i])
      BY HoldsEach
    <2>4. Len(Upto(w, i)) = Len(Upto(w, i - 1)) + Len(w[i])
      <3>1. Len(Upto(w, i - 1) \o w[i]) = Len(Upto(w, i - 1)) + Len(w[i])
        BY <2>1, <2>2, JoinSeq
      <3>2. QED
        BY <3>1, UptoSteps
    <2> DEFINE a == Len(Upto(w, i - 1))
               b == Len(w[i])
    <2>5. p + a \in Nat /\ (p + a) + b = p + Len(Upto(w, i))
      <3>1. p \in Nat /\ a \in Nat /\ b \in Nat
        BY <1>1, <2>2
      <3>2. Len(Upto(w, i)) = a + b
        BY <2>4
      <3> HIDE DEF a, b
      <3>3. QED
        BY <3>1, <3>2
    <2>6. load[p + a] = Reader((p + a) + b, v[i])
      BY <2>3, <2>5
    <2>7. QED
      BY <2>5, <2>6
  <1>3. QED
    BY <1>1, <1>2, ReadManyReads

-----------------------------------------------------------------------------
(* Strings and tables of words                                               *)

Each(type, s) == [i \in DOMAIN s |-> Write(type, s[i])]

LEMMA EachWritten ==
  ASSUME NEW type \in DOMAIN Width, NEW s, IsSeq(s)
  PROVE  /\ AreSeqs(Each(type, s)) /\ Len(Each(type, s)) = Len(s)
         /\ \A i \in 1 .. Len(s) : Each(type, s)[i] = Write(type, s[i])
         /\ IsSeq(FlattenSeq(Each(type, s)))
  <1> DEFINE n == Len(s)
             w == Each(type, s)
  <1>1. n \in Nat /\ DOMAIN s = 1 .. n
    BY SeqLength
  <1> HIDE DEF n
  <1>2. DOMAIN w = 1 .. n /\ \A i \in 1 .. n : w[i] = Write(type, s[i])
    BY <1>1 DEF Each
  <1>3. w \in [1 .. n -> {w[i] : i \in 1 .. n}]
    BY <1>1 DEF Each
  <1> HIDE DEF w
  <1>4. IsSeq(w) /\ Len(w) = n
    BY <1>1, <1>3, FunctionSeq
  <1>5. AreSeqs(w)
    BY <1>2, <1>4, WriteSeq DEF AreSeqs
  <1>6. IsSeq(FlattenSeq(w))
    BY <1>5, FlattenIsSeq
  <1>7. QED
    BY <1>2, <1>4, <1>5, <1>6 DEF w, n

\* A number, and as many values behind it.
LEMMA CountedRead ==
  ASSUME NEW type \in DOMAIN Width, NEW s, IsSeq(s), NEW p,
         Holds(p, Write("int32", Len(s))), Holds(p + 4, FlattenSeq(Each(type, s)))
  PROVE  ReadMany([q \in Nat |-> Read(type, q)], Read("int32", p).v, Read("int32", p).at)
           = Reader(p + 4 + Len(FlattenSeq(Each(type, s))), s)
  <1> DEFINE load == [q \in Nat |-> Read(type, q)]
             w == Each(type, s)
  <1>1. Read("int32", p).v = Len(s) /\ Read("int32", p).at = p + 4
    <2>1. "int32" \in DOMAIN Width /\ Width["int32"] = 4
      BY DEF Width
    <2>2. Read("int32", p) = Reader(p + 4, Len(s))
      BY <2>1, ReadWritten
    <2>3. QED
      BY <2>2 DEF Reader
  <1>2. AreSeqs(w) /\ Len(w) = Len(s) /\ \A i \in 1 .. Len(s) : w[i] = Write(type, s[i])
    BY EachWritten
  <1>3. ASSUME NEW i \in 1 .. Len(w), NEW q \in Nat, Holds(q, w[i])
        PROVE  load[q] = Reader(q + Len(w[i]), s[i])
    <2>1. w[i] = Write(type, s[i])
      BY <1>2
    <2>2. Holds(q, Write(type, s[i])) /\ Len(w[i]) = Width[type]
      BY <1>3, <2>1, WriteSeq
    <2>3. Read(type, q) = Reader(q + Width[type], s[i])
      BY <2>2, ReadWritten
    <2>4. load[q] = Read(type, q)
      OBVIOUS
    <2>5. QED
      BY <2>2, <2>3, <2>4
  <1> HIDE DEF load, w
  <1>4. Holds(p + 4, FlattenSeq(w))
    BY DEF w
  <1>5. ReadMany(load, Len(w), p + 4) = Reader(p + 4 + Len(FlattenSeq(w)), s)
    BY <1>2, <1>3, <1>4, ManyWritten
  <1>6. QED
    BY <1>1, <1>2, <1>5 DEF load, w

LEMMA HoldsThree ==
  ASSUME NEW p, NEW a, IsSeq(a), NEW b, IsSeq(b), NEW c, IsSeq(c), Holds(p, a \o b \o c)
  PROVE  /\ Holds(p, a) /\ Holds(p + Len(a), b) /\ Holds(p + Len(a) + Len(b), c)
  <1>1. IsSeq(a \o b) /\ Len(a \o b) = Len(a) + Len(b)
    BY JoinSeq
  <1>2. Holds(p, a \o b) /\ Holds(p + Len(a \o b), c)
    BY <1>1, HoldsJoin
  <1>3. Holds(p, a) /\ Holds(p + Len(a), b)
    BY <1>2, HoldsJoin
  <1>4. p + Len(a \o b) = p + Len(a) + Len(b)
    <2>1. p \in Nat /\ Len(a) \in Nat /\ Len(b) \in Nat
      BY SeqLength DEF Holds
    <2>2. QED
      BY <1>1, <2>1
  <1>5. QED
    BY <1>2, <1>3, <1>4

LEMMA JoinThree ==
  ASSUME NEW a, IsSeq(a), NEW b, IsSeq(b), NEW c, IsSeq(c)
  PROVE  /\ IsSeq(a \o b \o c) /\ Len(a \o b \o c) = Len(a) + Len(b) + Len(c)
         /\ Len(a) \in Nat /\ Len(b) \in Nat /\ Len(c) \in Nat
  <1>1. IsSeq(a \o b) /\ Len(a \o b) = Len(a) + Len(b)
    BY JoinSeq
  <1>2. IsSeq(a \o b \o c) /\ Len(a \o b \o c) = Len(a \o b) + Len(c)
    BY <1>1, JoinSeq
  <1>3. QED
    BY <1>1, <1>2, SeqLength

LEMMA StringWritten ==
  ASSUME NEW s, IsSeq(s)
  PROVE  /\ IsSeq(WriteString(s)) /\ Len(WriteString(s)) \in Nat
         /\ \A p : Holds(p, WriteString(s)) =>
              ReadString(p) = Reader(p + Len(WriteString(s)), s)
  <1> DEFINE a == Write("int32", Len(s))
             b == FlattenSeq(Each("char", s))
  <1>1. "int32" \in DOMAIN Width /\ "char" \in DOMAIN Width /\ Width["int32"] = 4
    BY DEF Width
  <1>2. IsSeq(a) /\ Len(a) = 4 /\ IsSeq(b) /\ WriteString(s) = a \o b
    <2>1. IsSeq(a) /\ Len(a) = 4
      BY <1>1, WriteSeq
    <2>2. IsSeq(b)
      BY <1>1, EachWritten
    <2>3. WriteString(s) = a \o b
      BY DEF WriteString, Each
    <2>4. QED
      BY <2>1, <2>2, <2>3
  <1> HIDE DEF a, b
  <1>3. IsSeq(a \o b) /\ Len(a \o b) = 4 + Len(b) /\ Len(a \o b) \in Nat
    <2>1. IsSeq(a \o b) /\ Len(a \o b) = Len(a) + Len(b)
      BY <1>2, JoinSeq
    <2>2. Len(a \o b) \in Nat
      BY <2>1, SeqLength
    <2>3. QED
      BY <1>2, <2>1, <2>2
  <1>4. ASSUME NEW p, Holds(p, a \o b)
        PROVE  ReadString(p) = Reader(p + Len(a \o b), s)
    <2>1. Holds(p, a) /\ Holds(p + 4, b)
      BY <1>2, <1>4, HoldsJoin
    <2>2. ReadString(p) = Reader(p + 4 + Len(b), s)
      BY <1>1, <2>1, CountedRead DEF a, b, ReadString
    <2>3. p + 4 + Len(b) = p + Len(a \o b)
      <3>1. p \in Nat /\ Len(b) \in Nat
        BY <1>2, <2>1, SeqLength DEF Holds
      <3>2. QED
        BY <1>3, <3>1
    <2>4. QED
      BY <2>2, <2>3
  <1>5. QED
    BY <1>2, <1>3, <1>4

-----------------------------------------------------------------------------
(* Values                                                                    *)

\* What is loaded where v was saved.
SavedAs(v) == IF IsCallable(v) THEN Null ELSE v

LEMMA TagWritten ==
  ASSUME NEW p, NEW v, NEW b, IsSeq(b), Holds(p, Write("uint8", Tag[v[1]]) \o b)
  PROVE  /\ Read("uint8", p) = Reader(p + 1, Tag[v[1]]) /\ Holds(p + 1, b)
         /\ p + Len(Write("uint8", Tag[v[1]]) \o b) = p + 1 + Len(b)
  <1> DEFINE a == Write("uint8", Tag[v[1]])
  <1>1. "uint8" \in DOMAIN Width /\ Width["uint8"] = 1
    BY DEF Width
  <1>2. IsSeq(a) /\ Len(a) = 1
    BY <1>1, WriteSeq
  <1>3. Holds(p, a) /\ Holds(p + 1, b) /\ Len(a \o b) = 1 + Len(b)
    <2>1. Holds(p, a \o b)
      OBVIOUS
    <2> HIDE DEF a
    <2>2. Holds(p, a) /\ Holds(p + Len(a), b) /\ Len(a \o b) = Len(a) + Len(b)
      BY <1>2, <2>1, HoldsJoin, JoinSeq
    <2>3. QED
      BY <1>2, <2>2
  <1>4. Read("uint8", p) = Reader(p + 1, Tag[v[1]])
    BY <1>1, <1>3, ReadWritten
  <1>5. p \in Nat /\ Len(b) \in Nat
    BY <1>3, SeqLength DEF Holds
  <1> HIDE DEF a
  <1>6. p + Len(a \o b) = p + 1 + Len(b)
    BY <1>3, <1>5
  <1>7. QED
    BY <1>3, <1>4, <1>6 DEF a

\* What is behind the tag.
Body(v) ==
  CASE IsBool(v) -> Write("bool", v[2])
    [] IsNum(v)  -> Write("double", v[2])
    [] IsStr(v)  -> WriteString(v[2])
    [] OTHER     -> <<>>

LEMMA BodyCases ==
  ASSUME NEW v
  PROVE  /\ IsBool(v) => Body(v) = Write("bool", v[2])
         /\ IsNum(v) => Body(v) = Write("double", v[2])
         /\ IsStr(v) => Body(v) = WriteString(v[2])
         /\ ~ (IsBool(v) \/ IsNum(v) \/ IsStr(v)) => Body(v) = <<>>
         /\ SaveValue(v) = Write("uint8", Tag[v[1]]) \o Body(v)
  BY DEF Body, SaveValue, IsBool, IsNum, IsStr

LEMMA LoadCases ==
  ASSUME NEW p, NEW t, Read("uint8", p) = Reader(p + 1, t)
  PROVE  /\ t = 1 => LoadValue(p) = Reader(Read("bool", p + 1).at, <<"bool", Read("bool", p + 1).v>>)
         /\ t = 2 => LoadValue(p) = Reader(Read("double", p + 1).at, <<"num", Read("double", p + 1).v>>)
         /\ t = 3 => LoadValue(p) = Reader(ReadString(p + 1).at, <<"str", ReadString(p + 1).v>>)
         /\ t \notin 1 .. 3 => LoadValue(p) = Reader(p + 1, Null)
  <1>1. Read("uint8", p).v = t /\ Read("uint8", p).at = p + 1
    BY DEF Reader
  <1>2. Tag.bool = 1 /\ Tag.num = 2 /\ Tag.str = 3
    BY DEF Tag
  <1>3. CASE t = 1
    BY <1>1, <1>2, <1>3 DEF LoadValue
  <1>4. CASE t = 2
    BY <1>1, <1>2, <1>4 DEF LoadValue
  <1>5. CASE t = 3
    BY <1>1, <1>2, <1>5 DEF LoadValue
  <1>6. CASE t \notin 1 .. 3
    <2>1. t # 1 /\ t # 2 /\ t # 3
      BY <1>6
    <2>2. QED
      BY <1>1, <1>2, <1>6, <2>1 DEF LoadValue
  <1>7. QED
    BY <1>3, <1>4, <1>5, <1>6

LEMMA BodySeq ==
  ASSUME NEW v, Savable(v)
  PROVE  IsSeq(Body(v)) /\ IsSeq(SaveValue(v)) /\ (IsStr(v) => IsSeq(v[2]))
  <1>1. "uint8" \in DOMAIN Width /\ "bool" \in DOMAIN Width /\ "double" \in DOMAIN Width
    BY DEF Width
  <1>2. IsStr(v) => IsSeq(v[2])
    <2>1. SUFFICES ASSUME IsStr(v) PROVE IsSeq(v[2])
      OBVIOUS
    <2>2. v[2] \in Seq(Range(v[2]))
      BY <2>1 DEF Savable, IsStr, IsBool, IsNum, IsCallable, Null
    <2>3. QED
      BY <2>2, SeqShape
  <1>3. IsSeq(Body(v))
    <2>1. CASE IsBool(v)
      BY <1>1, <2>1, BodyCases, WriteSeq
    <2>2. CASE IsNum(v)
      BY <1>1, <2>2, BodyCases, WriteSeq
    <2>3. CASE IsStr(v)
      BY <1>2, <2>3, BodyCases, StringWritten
    <2>4. CASE ~ (IsBool(v) \/ IsNum(v) \/ IsStr(v))
      BY <2>4, BodyCases, ShortSeq
    <2>5. QED
      BY <2>1, <2>2, <2>3, <2>4
  <1>4. IsSeq(SaveValue(v))
    <2>1. IsSeq(Write("uint8", Tag[v[1]]))
      BY <1>1, WriteSeq
    <2>2. IsSeq(Write("uint8", Tag[v[1]]) \o Body(v))
      BY <1>3, <2>1, JoinSeq
    <2>3. QED
      BY <2>2, BodyCases
  <1>5. QED
    BY <1>2, <1>3, <1>4

\* A value comes back as it was, but a callable as null.
LEMMA ValueWritten ==
  ASSUME NEW p, NEW v, Savable(v), Holds(p, SaveValue(v))
  PROVE  LoadValue(p) = Reader(p + Len(SaveValue(v)), SavedAs(v))
  <1> DEFINE b == Body(v)
             t == Tag[v[1]]
  <1>1. "bool" \in DOMAIN Width /\ "double" \in DOMAIN Width /\ Width["bool"] = 1 /\ Width["double"] = 8
    BY DEF Width
  <1>2. /\ Read("uint8", p) = Reader(p + 1, t) /\ Holds(p + 1, b)
        /\ p + Len(SaveValue(v)) = p + 1 + Len(b)
    <2>1. IsSeq(b) /\ SaveValue(v) = Write("uint8", t) \o b
      BY BodySeq, BodyCases
    <2> HIDE DEF b
    <2>2. Holds(p, Write("uint8", t) \o b)
      BY <2>1
    <2>3. QED
      BY <2>1, <2>2, TagWritten
  <1>3. CASE IsBool(v)
    <2>1. b = Write("bool", v[2]) /\ Len(b) = 1 /\ t = 1
      <3>1. b = Write("bool", v[2]) /\ t = 1
        <4>1. b = Write("bool", v[2])
          BY <1>3, BodyCases
        <4>2. t = 1
          BY <1>3 DEF IsBool, Tag
        <4>3. QED
          BY <4>1, <4>2
      <3>2. Len(Write("bool", v[2])) = 1
        BY <1>1, WriteSeq
      <3>3. QED
        BY <3>1, <3>2
    <2>2. Read("bool", p + 1) = Reader(p + 1 + 1, v[2])
      BY <1>1, <1>2, <2>1, ReadWritten
    <2>3. LoadValue(p) = Reader(p + 1 + 1, <<"bool", v[2]>>)
      BY <1>2, <2>1, <2>2, LoadCases DEF Reader
    <2>4. <<"bool", v[2]>> = v /\ SavedAs(v) = v
      BY <1>3 DEF Savable, SavedAs, IsBool, IsCallable, Null
    <2>5. QED
      BY <1>2, <2>1, <2>3, <2>4
  <1>4. CASE IsNum(v)
    <2>1. b = Write("double", v[2]) /\ Len(b) = 8 /\ t = 2
      <3>1. b = Write("double", v[2]) /\ t = 2
        <4>1. b = Write("double", v[2])
          BY <1>4, BodyCases
        <4>2. t = 2
          BY <1>4 DEF IsNum, Tag
        <4>3. QED
          BY <4>1, <4>2
      <3>2. Len(Write("double", v[2])) = 8
        BY <1>1, WriteSeq
      <3>3. QED
        BY <3>1, <3>2
    <2>2. Read("double", p + 1) = Reader(p + 1 + 8, v[2])
      BY <1>1, <1>2, <2>1, ReadWritten
    <2>3. LoadValue(p) = Reader(p + 1 + 8, <<"num", v[2]>>)
      BY <1>2, <2>1, <2>2, LoadCases DEF Reader
    <2>4. <<"num", v[2]>> = v /\ SavedAs(v) = v
      BY <1>4 DEF Savable, SavedAs, IsNum, IsCallable, Null
    <2>5. QED
      BY <1>2, <2>1, <2>3, <2>4
  <1>5. CASE IsStr(v)
    <2>1. b = WriteString(v[2]) /\ t = 3 /\ IsSeq(v[2])
      <3>1. b = WriteString(v[2]) /\ IsSeq(v[2])
        BY <1>5, BodyCases, BodySeq
      <3>2. t = 3
        BY <1>5 DEF IsStr, Tag
      <3>3. QED
        BY <3>1, <3>2
    <2>2. ReadString(p + 1) = Reader(p + 1 + Len(b), v[2])
      BY <1>2, <2>1, StringWritten
    <2>3. LoadValue(p) = Reader(p + 1 + Len(b), <<"str", v[2]>>)
      BY <1>2, <2>1, <2>2, LoadCases DEF Reader
    <2>4. <<"str", v[2]>> = v /\ SavedAs(v) = v
      BY <1>5 DEF Savable, SavedAs, IsStr, IsCallable, IsBool, IsNum, Null
    <2>5. QED
      BY <1>2, <2>3, <2>4
  <1>6. CASE ~ (IsBool(v) \/ IsNum(v) \/ IsStr(v))
    <2>1. b = <<>> /\ Len(b) = 0
      BY <1>6, BodyCases, ShortSeq
    <2>2. v = Null \/ IsCallable(v)
      BY <1>6 DEF Savable
    <2>3. t \notin 1 .. 3
      BY <2>2 DEF Null, IsCallable, Tag
    <2>4. LoadValue(p) = Reader(p + 1, Null) /\ SavedAs(v) = Null
      BY <1>2, <2>2, <2>3, LoadCases DEF SavedAs
    <2>5. p + 1 + 0 = p + 1
      BY <1>2 DEF Holds
    <2>6. QED
      BY <1>2, <2>1, <2>4, <2>5
  <1>7. QED
    BY <1>3, <1>4, <1>5, <1>6

-----------------------------------------------------------------------------
(* Functions                                                                 *)

IsFn(f) ==
  /\ f = [name |-> f.name, arity |-> f.arity, localCount |-> f.localCount,
          consts |-> f.consts, code |-> f.code, lines |-> f.lines]
  /\ IsSeq(f.name) /\ IsSeq(f.consts) /\ IsSeq(f.code) /\ IsSeq(f.lines)
  /\ Len(f.lines) = Len(f.code)
  /\ \A i \in DOMAIN f.consts : Savable(f.consts[i])

LEMMA JoinFour ==
  ASSUME NEW a, IsSeq(a), NEW b, IsSeq(b), NEW c, IsSeq(c), NEW d, IsSeq(d)
  PROVE  /\ IsSeq(a \o b \o c \o d)
         /\ Len(a \o b \o c \o d) = Len(a) + Len(b) + Len(c) + Len(d)
  <1> DEFINE e == a \o b \o c
  <1>1. IsSeq(e) /\ Len(e) = Len(a) + Len(b) + Len(c)
    BY JoinThree
  <1> HIDE DEF e
  <1>2. IsSeq(e \o d) /\ Len(e \o d) = Len(e) + Len(d)
    BY <1>1, JoinSeq
  <1>3. QED
    BY <1>1, <1>2 DEF e

LEMMA HoldsFour ==
  ASSUME NEW p, NEW a, IsSeq(a), NEW b, IsSeq(b), NEW c, IsSeq(c), NEW d, IsSeq(d),
         Holds(p, a \o b \o c \o d)
  PROVE  /\ Holds(p, a) /\ Holds(p + Len(a), b) /\ Holds(p + Len(a) + Len(b), c)
         /\ Holds(p + Len(a) + Len(b) + Len(c), d)
  <1> DEFINE e == a \o b \o c
  <1>1. /\ IsSeq(e) /\ Len(e) = Len(a) + Len(b) + Len(c)
        /\ Len(a) \in Nat /\ Len(b) \in Nat /\ Len(c) \in Nat
    BY JoinThree
  <1>2. ASSUME Holds(p, e) PROVE Holds(p, a) /\ Holds(p + Len(a), b) /\ Holds(p + Len(a) + Len(b), c)
    BY <1>2, HoldsThree
  <1> HIDE DEF e
  <1>3. Holds(p, e \o d)
    BY DEF e
  <1>4. Holds(p, e) /\ Holds(p + Len(e), d)
    BY <1>1, <1>3, HoldsJoin
  <1>5. p + Len(e) = p + Len(a) + Len(b) + Len(c)
    <2>1. p \in Nat
      BY <1>3 DEF Holds
    <2>2. QED
      BY <1>1, <2>1
  <1>6. QED
    BY <1>2, <1>4, <1>5

ConstBytes(f) == [i \in DOMAIN f.consts |-> SaveValue(f.consts[i])]
ConstsLoaded(f) == [i \in DOMAIN f.consts |-> SavedAs(f.consts[i])]

LEMMA ConstsWritten ==
  ASSUME NEW f, IsFn(f)
  PROVE  /\ IsSeq(FlattenSeq(ConstBytes(f)))
         /\ \A p : Holds(p, FlattenSeq(ConstBytes(f))) =>
              ReadMany([q \in Nat |-> LoadValue(q)], Len(f.consts), p)
                = Reader(p + Len(FlattenSeq(ConstBytes(f))), ConstsLoaded(f))
  <1> DEFINE load == [q \in Nat |-> LoadValue(q)]
             w == ConstBytes(f)
             v == ConstsLoaded(f)
             n == Len(f.consts)
  <1>1. n \in Nat /\ DOMAIN f.consts = 1 .. n /\ \A i \in 1 .. n : Savable(f.consts[i])
    BY SeqLength DEF IsFn
  <1> HIDE DEF n
  <1>2. /\ DOMAIN w = 1 .. n /\ w \in [1 .. n -> {w[i] : i \in 1 .. n}]
        /\ DOMAIN v = 1 .. n /\ v \in [1 .. n -> {v[i] : i \in 1 .. n}]
        /\ \A i \in 1 .. n : w[i] = SaveValue(f.consts[i]) /\ v[i] = SavedAs(f.consts[i])
    BY <1>1 DEF ConstBytes, ConstsLoaded
  <1>3. \A q \in Nat : load[q] = LoadValue(q)
    OBVIOUS
  <1> HIDE DEF w, v, load
  <1>4. IsSeq(w) /\ Len(w) = n /\ IsSeq(v) /\ Len(v) = n
    BY <1>1, <1>2, FunctionSeq
  <1>5. AreSeqs(w)
    BY <1>1, <1>2, <1>4, BodySeq DEF AreSeqs
  <1>6. ASSUME NEW i \in 1 .. Len(w), NEW q \in Nat, Holds(q, w[i])
        PROVE  load[q] = Reader(q + Len(w[i]), v[i])
    <2>1. w[i] = SaveValue(f.consts[i]) /\ v[i] = SavedAs(f.consts[i]) /\ Savable(f.consts[i])
      BY <1>1, <1>2, <1>4
    <2>2. LoadValue(q) = Reader(q + Len(SaveValue(f.consts[i])), SavedAs(f.consts[i]))
      BY <1>6, <2>1, ValueWritten
    <2>3. QED
      BY <1>3, <2>1, <2>2
  <1>7. ASSUME NEW p, Holds(p, FlattenSeq(w))
        PROVE  ReadMany(load, n, p) = Reader(p + Len(FlattenSeq(w)), v)
    BY <1>4, <1>5, <1>6, <1>7, ManyWritten
  <1>8. QED
    BY <1>5, <1>7, FlattenIsSeq DEF w, v, load, n

LEMMA IntsWritten ==
  ASSUME NEW s, IsSeq(s)
  PROVE  /\ IsSeq(Ints(s)) /\ Len(Ints(s)) \in Nat
         /\ \A p : Holds(p, Write("int32", Len(s))) /\ Holds(p + 4, Ints(s)) =>
              LoadInts(p) = Reader(p + 4 + Len(Ints(s)), s)
  <1>1. "int32" \in DOMAIN Width
    BY DEF Width
  <1>2. Ints(s) = FlattenSeq(Each("int32", s))
    BY DEF Ints, Each
  <1>3. IsSeq(Ints(s)) /\ Len(Ints(s)) \in Nat
    BY <1>1, <1>2, EachWritten, SeqLength
  <1>4. ASSUME NEW p, Holds(p, Write("int32", Len(s))), Holds(p + 4, Ints(s))
        PROVE  LoadInts(p) = Reader(p + 4 + Len(Ints(s)), s)
    BY <1>1, <1>2, <1>4, CountedRead DEF LoadInts
  <1>5. QED
    BY <1>3, <1>4

\* A number that is written is read.
LEMMA IntWritten ==
  ASSUME NEW n
  PROVE  /\ IsSeq(Write("int32", n)) /\ Len(Write("int32", n)) = 4
         /\ \A p : Holds(p, Write("int32", n)) =>
              Read("int32", p).v = n /\ Read("int32", p).at = p + 4
  <1>1. "int32" \in DOMAIN Width /\ Width["int32"] = 4
    BY DEF Width
  <1>2. ASSUME NEW p, Holds(p, Write("int32", n))
        PROVE  Read("int32", p).v = n /\ Read("int32", p).at = p + 4
    <2>1. Read("int32", p) = Reader(p + 4, n)
      BY <1>1, <1>2, ReadWritten
    <2>2. QED
      BY <2>1 DEF Reader
  <1>3. QED
    BY <1>1, <1>2, WriteSeq

\* The bytes of a function's chunk, and where each table of it is.
LEMMA ChunkWritten ==
  ASSUME NEW f, IsFn(f)
  PROVE  /\ IsSeq(SaveChunk(f)) /\ Len(SaveChunk(f)) \in Nat
         /\ \A q : Holds(q, SaveChunk(f)) =>
              LET k == q + 4 + Len(FlattenSeq(ConstBytes(f)))
                  c == k + 4 + Len(Ints(f.code))
              IN  /\ Holds(q, Write("int32", Len(f.consts)))
                  /\ Holds(q + 4, FlattenSeq(ConstBytes(f)))
                  /\ LoadInts(k) = Reader(c, f.code)
                  /\ LoadInts(c) = Reader(q + Len(SaveChunk(f)), f.lines)
  <1> DEFINE a1 == Write("int32", Len(f.consts))
             a2 == FlattenSeq(ConstBytes(f))
             a3 == Write("int32", Len(f.code))
             a4 == Ints(f.code)
             a5 == Write("int32", Len(f.code))
             a6 == Ints(f.lines)
             b  == a1 \o a2 \o a3
  <1>1. /\ IsSeq(a1) /\ IsSeq(a2) /\ IsSeq(a3) /\ IsSeq(a4) /\ IsSeq(a5) /\ IsSeq(a6)
        /\ Len(a1) = 4 /\ Len(a3) = 4 /\ Len(a5) = 4
        /\ Len(a2) \in Nat /\ Len(a4) \in Nat /\ Len(a6) \in Nat
    <2>1. IsSeq(a2) /\ Len(a2) \in Nat
      BY ConstsWritten, SeqLength
    <2>2. IsSeq(a4) /\ Len(a4) \in Nat /\ IsSeq(a6) /\ Len(a6) \in Nat
      BY IntsWritten DEF IsFn
    <2>3. QED
      BY <2>1, <2>2, IntWritten
  <1>2. ASSUME NEW q, Holds(q, a3), Holds(q + 4, a4)
        PROVE  LoadInts(q) = Reader(q + 4 + Len(a4), f.code)
    BY <1>2, IntsWritten DEF IsFn
  <1>3. ASSUME NEW q, Holds(q, a5), Holds(q + 4, a6)
        PROVE  LoadInts(q) = Reader(q + 4 + Len(a6), f.lines)
    BY <1>3, IntsWritten DEF IsFn
  <1>4. SaveChunk(f) = a1 \o a2 \o a3 \o a4 \o a5 \o a6
    BY DEF SaveChunk, ConstBytes
  <1> HIDE DEF a1, a2, a3, a4, a5, a6
  <1>5. IsSeq(b) /\ Len(b) = 4 + Len(a2) + 4
    <2>1. IsSeq(a1 \o a2 \o a3) /\ Len(a1 \o a2 \o a3) = Len(a1) + Len(a2) + Len(a3)
      <3>1. IsSeq(a1) /\ IsSeq(a2) /\ IsSeq(a3)
        BY <1>1
      <3>2. QED
        BY <3>1, JoinThree
    <2>2. QED
      BY <1>1, <2>1
  <1>6. ASSUME NEW q, Holds(q, b)
        PROVE  Holds(q, a1) /\ Holds(q + 4, a2) /\ Holds(q + 4 + Len(a2), a3)
    BY <1>1, <1>6, HoldsThree
  <1> HIDE DEF b
  <1>7. IsSeq(b \o a4 \o a5 \o a6) /\ Len(b \o a4 \o a5 \o a6) = Len(b) + Len(a4) + 4 + Len(a6)
    <2>1. /\ IsSeq(b \o a4 \o a5 \o a6)
          /\ Len(b \o a4 \o a5 \o a6) = Len(b) + Len(a4) + Len(a5) + Len(a6)
      <3>1. IsSeq(b) /\ IsSeq(a4) /\ IsSeq(a5) /\ IsSeq(a6)
        BY <1>1, <1>5
      <3>2. QED
        BY <3>1, JoinFour
    <2>2. QED
      BY <1>1, <2>1
  <1>8. ASSUME NEW q, Holds(q, b \o a4 \o a5 \o a6)
        PROVE  /\ Holds(q, b) /\ Holds(q + Len(b), a4) /\ Holds(q + Len(b) + Len(a4), a5)
               /\ Holds(q + Len(b) + Len(a4) + 4, a6)
    <2>1. /\ Holds(q, b) /\ Holds(q + Len(b), a4) /\ Holds(q + Len(b) + Len(a4), a5)
          /\ Holds(q + Len(b) + Len(a4) + Len(a5), a6)
      BY <1>1, <1>5, <1>8, HoldsFour
    <2>2. QED
      BY <1>1, <2>1
  <1>9. ASSUME NEW q, Holds(q, SaveChunk(f))
        PROVE  LET k == q + 4 + Len(a2)
                   c == k + 4 + Len(a4)
               IN  /\ Holds(q, a1) /\ Holds(q + 4, a2)
                   /\ LoadInts(k) = Reader(c, f.code)
                   /\ LoadInts(c) = Reader(q + Len(SaveChunk(f)), f.lines)
    <2> DEFINE k == q + 4 + Len(a2)
               c == k + 4 + Len(a4)
    <2>1. Holds(q, b \o a4 \o a5 \o a6)
      BY <1>4, <1>9 DEF b
    <2>2. q \in Nat
      BY <1>9 DEF Holds
    <2>3. /\ q + Len(b) = k + 4 /\ q + Len(b) + Len(a4) = c
          /\ q + Len(b) + Len(a4) + 4 = c + 4
          /\ c + 4 + Len(a6) = q + Len(SaveChunk(f))
      <3>1. Len(SaveChunk(f)) = 4 + Len(a2) + 4 + Len(a4) + 4 + Len(a6)
        BY <1>1, <1>4, <1>5, <1>7 DEF b
      <3>2. QED
        BY <1>1, <1>5, <2>2, <3>1
    <2>4. Holds(q, a1) /\ Holds(q + 4, a2) /\ Holds(k, a3)
      BY <1>6, <1>8, <2>1
    <2>5. Holds(k + 4, a4) /\ Holds(c, a5) /\ Holds(c + 4, a6)
      BY <1>8, <2>1, <2>3
    <2>6. LoadInts(k) = Reader(c, f.code)
      BY <1>2, <2>4, <2>5
    <2>7. LoadInts(c) = Reader(q + Len(SaveChunk(f)), f.lines)
      <3>1. LoadInts(c) = Reader(c + 4 + Len(a6), f.lines)
        <4> HIDE DEF c
        <4>1. QED
          BY <1>3, <2>5
      <3>2. QED
        BY <2>3, <3>1
    <2>8. QED
      BY <2>4, <2>6, <2>7
  <1>10. IsSeq(SaveChunk(f)) /\ Len(SaveChunk(f)) \in Nat
    BY <1>4, <1>7, SeqLength DEF b
  <1>11. QED
    BY <1>9, <1>10 DEF a1, a2, a4

\* A function comes back as AsLoaded says.
LEMMA FunctionWritten ==
  ASSUME NEW f, IsFn(f)
  PROVE  /\ IsSeq(SaveFunction(f)) /\ Len(SaveFunction(f)) \in Nat
         /\ \A p : Holds(p, SaveFunction(f)) =>
              LoadFunction(p) = Reader(p + Len(SaveFunction(f)), AsLoaded(f))
  <1> DEFINE n == WriteString(f.name)
             a == Write("int32", f.arity)
             l == Write("int32", f.localCount)
             c == SaveChunk(f)
             K == Len(FlattenSeq(ConstBytes(f)))
             C == Len(Ints(f.code))
  <1>1. /\ IsSeq(n) /\ IsSeq(a) /\ IsSeq(l) /\ IsSeq(c)
        /\ SaveFunction(f) = n \o a \o l \o c
    BY StringWritten, IntWritten, ChunkWritten DEF IsFn, SaveFunction
  <1>2. Len(a) = 4 /\ Len(l) = 4 /\ Len(n) \in Nat /\ Len(c) \in Nat
    BY StringWritten, IntWritten, ChunkWritten DEF IsFn
  <1>3. \A p : Holds(p, n) => ReadString(p) = Reader(p + Len(n), f.name)
    BY StringWritten DEF IsFn
  <1>4. \A p : /\ Holds(p, a) => Read("int32", p).v = f.arity /\ Read("int32", p).at = p + 4
               /\ Holds(p, l) => Read("int32", p).v = f.localCount /\ Read("int32", p).at = p + 4
    BY IntWritten
  <1>5. ASSUME NEW q, Holds(q, c)
        PROVE  /\ Read("int32", q).v = Len(f.consts) /\ Read("int32", q).at = q + 4
               /\ ReadMany([r \in Nat |-> LoadValue(r)], Len(f.consts), q + 4)
                    = Reader(q + 4 + K, ConstsLoaded(f))
               /\ LoadInts(q + 4 + K) = Reader(q + 4 + K + 4 + C, f.code)
               /\ LoadInts(q + 4 + K + 4 + C) = Reader(q + Len(c), f.lines)
    <2>1. /\ Holds(q, Write("int32", Len(f.consts))) /\ Holds(q + 4, FlattenSeq(ConstBytes(f)))
          /\ LoadInts(q + 4 + K) = Reader(q + 4 + K + 4 + C, f.code)
          /\ LoadInts(q + 4 + K + 4 + C) = Reader(q + Len(c), f.lines)
      BY <1>5, ChunkWritten
    <2>2. ReadMany([r \in Nat |-> LoadValue(r)], Len(f.consts), q + 4)
            = Reader(q + 4 + K, ConstsLoaded(f))
      BY <2>1, ConstsWritten
    <2>3. Read("int32", q).v = Len(f.consts) /\ Read("int32", q).at = q + 4
      BY <2>1, IntWritten
    <2>4. QED
      BY <2>1, <2>2, <2>3
  <1>6. AsLoaded(f) = [name |-> f.name, arity |-> f.arity, localCount |-> f.localCount,
                       consts |-> ConstsLoaded(f), code |-> f.code, lines |-> f.lines]
    <2>1. ConstsLoaded(f) = [i \in DOMAIN f.consts |->
                              IF IsCallable(f.consts[i]) THEN Null ELSE f.consts[i]]
      BY DEF ConstsLoaded, SavedAs
    <2>2. AsLoaded(f) = [f EXCEPT !.consts = ConstsLoaded(f)]
      BY <2>1 DEF AsLoaded
    <2>3. QED
      BY <2>2 DEF IsFn
  <1> HIDE DEF n, a, l, c, K, C
  <1>7. IsSeq(SaveFunction(f)) /\ Len(SaveFunction(f)) = Len(n) + 4 + 4 + Len(c)
    <2>1. IsSeq(n \o a \o l \o c) /\ Len(n \o a \o l \o c) = Len(n) + Len(a) + Len(l) + Len(c)
      <3>1. IsSeq(n) /\ IsSeq(a) /\ IsSeq(l) /\ IsSeq(c)
        BY <1>1
      <3>2. QED
        BY <3>1, JoinFour
    <2>2. QED
      BY <1>1, <1>2, <2>1
  <1>8. ASSUME NEW p, Holds(p, SaveFunction(f))
        PROVE  LoadFunction(p) = Reader(p + Len(SaveFunction(f)), AsLoaded(f))
    <2> DEFINE p1 == p + Len(n)
               p2 == p1 + 4
               p3 == p2 + 4
               p4 == p3 + 4
               p5 == p4 + K
               p6 == p5 + 4 + C
               p7 == p3 + Len(c)
    <2>1. Holds(p, n) /\ Holds(p1, a) /\ Holds(p2, l) /\ Holds(p3, c)
      <3>1. Holds(p, n \o a \o l \o c)
        BY <1>1, <1>8
      <3>2. /\ Holds(p, n) /\ Holds(p + Len(n), a) /\ Holds(p + Len(n) + Len(a), l)
            /\ Holds(p + Len(n) + Len(a) + Len(l), c)
        BY <1>1, <3>1, HoldsFour
      <3>3. QED
        BY <1>2, <3>2
    <2>2. p7 = p + Len(SaveFunction(f))
      <3>1. p \in Nat
        BY <1>8 DEF Holds
      <3>2. QED
        BY <1>2, <1>7, <3>1
    <2>3. ReadString(p).at = p1 /\ ReadString(p).v = f.name
      BY <1>3, <2>1 DEF Reader
    <2>4. /\ Read("int32", p1).at = p2 /\ Read("int32", p1).v = f.arity
          /\ Read("int32", p2).at = p3 /\ Read("int32", p2).v = f.localCount
      BY <1>4, <2>1
    <2>5. /\ Read("int32", p3).at = p4 /\ Read("int32", p3).v = Len(f.consts)
          /\ ReadMany([r \in Nat |-> LoadValue(r)], Len(f.consts), p4) = Reader(p5, ConstsLoaded(f))
          /\ LoadInts(p5) = Reader(p6, f.code) /\ LoadInts(p6) = Reader(p7, f.lines)
      BY <1>5, <2>1
    <2> HIDE DEF p1, p2, p3, p4, p5, p6, p7
    <2>6. /\ ReadMany([r \in Nat |-> LoadValue(r)], Len(f.consts), p4).at = p5
          /\ ReadMany([r \in Nat |-> LoadValue(r)], Len(f.consts), p4).v = ConstsLoaded(f)
          /\ LoadInts(p5).at = p6 /\ LoadInts(p5).v = f.code
          /\ LoadInts(p6).at = p7 /\ LoadInts(p6).v = f.lines
      BY <2>5 DEF Reader
    <2>7. LoadFunction(p) =
            Reader(p7, [name |-> f.name, arity |-> f.arity, localCount |-> f.localCount,
                        consts |-> ConstsLoaded(f), code |-> f.code, lines |-> f.lines])
      BY <2>3, <2>4, <2>5, <2>6 DEF LoadFunction
    <2>8. QED
      BY <1>6, <2>2, <2>7
  <1>9. QED
    BY <1>7, <1>8, SeqLength

-----------------------------------------------------------------------------
(* The invariant                                                             *)

Bytes(s) == [i \in DOMAIN s |-> SaveFunction(s[i])]

\* The file holds the saved functions and nothing else.
FileIsSaved ==
  /\ IsSeq(saved) /\ \A i \in DOMAIN saved : IsFn(saved[i])
  /\ file = FlattenSeq(Bytes(saved))

FilesInv ==
  /\ IsFn(fn)
  /\ FileIsSaved
  /\ IsSeq(loaded) /\ Len(loaded) <= Len(saved)
  /\ RoundTrip

LEMMA BytesOf ==
  ASSUME NEW s, IsSeq(s), \A i \in DOMAIN s : IsFn(s[i])
  PROVE  /\ AreSeqs(Bytes(s)) /\ Len(Bytes(s)) = Len(s)
         /\ \A i \in 1 .. Len(s) : Bytes(s)[i] = SaveFunction(s[i])
  <1> DEFINE n == Len(s)
             w == Bytes(s)
  <1>1. n \in Nat /\ DOMAIN s = 1 .. n
    BY SeqLength
  <1> HIDE DEF n
  <1>2. /\ DOMAIN w = 1 .. n /\ w \in [1 .. n -> {w[i] : i \in 1 .. n}]
        /\ \A i \in 1 .. n : w[i] = SaveFunction(s[i])
    BY <1>1 DEF Bytes
  <1> HIDE DEF w
  <1>3. IsSeq(w) /\ Len(w) = n
    BY <1>1, <1>2, FunctionSeq
  <1>4. AreSeqs(w)
    BY <1>1, <1>2, <1>3, FunctionWritten DEF AreSeqs
  <1>5. QED
    BY <1>2, <1>3, <1>4 DEF w, n

\* The first functions of a file, in the words of RoundTrip.
LEMMA FirstBytes ==
  ASSUME NEW s, IsSeq(s), \A i \in DOMAIN s : IsFn(s[i]), NEW k \in 0 .. Len(s)
  PROVE  FlattenSeq([i \in 1 .. k |-> SaveFunction(s[i])]) = Upto(Bytes(s), k)
  <1> DEFINE u == [i \in 1 .. k |-> SaveFunction(s[i])]
             w == Bytes(s)
  <1>1. Len(s) \in Nat /\ DOMAIN s = 1 .. Len(s) /\ k \in Nat /\ k <= Len(s)
    BY SeqLength
  <1>2. DOMAIN u = 1 .. k /\ \A i \in 1 .. k : u[i] = SaveFunction(s[i]) /\ IsSeq(u[i])
    BY <1>1, FunctionWritten
  <1>3. u \in [1 .. k -> {u[i] : i \in 1 .. k}]
    OBVIOUS
  <1> HIDE DEF u
  <1>4. IsSeq(u) /\ Len(u) = k
    BY <1>1, <1>3, FunctionSeq
  <1>5. AreSeqs(u)
    BY <1>2, <1>4 DEF AreSeqs
  <1>6. AreSeqs(w) /\ Len(w) = Len(s) /\ \A i \in 1 .. k : u[i] = w[i]
    BY <1>1, <1>2, BytesOf
  <1> HIDE DEF w
  <1>7. Upto(u, k) = Upto(w, k)
    BY <1>1, <1>4, <1>5, <1>6, UptoSame
  <1>8. Upto(u, k) = FlattenSeq(u)
    BY <1>4, <1>5, UptoSteps
  <1>9. QED
    BY <1>7, <1>8 DEF u, w

LEMMA NewIsFn ==
  ASSUME NEW name \in Name, NEW arity
  PROVE  IsFn(NewFunction(name, arity))
  <1>1. IsSeq(name)
    <2>1. name \in Seq(Range(name))
      BY FilesAssumption
    <2>2. QED
      BY <2>1, SeqShape
  <1>2. IsSeq(<<>>) /\ DOMAIN <<>> = {}
    BY ShortSeq
  <1> DEFINE f == NewFunction(name, arity)
  <1>3. /\ f.name = name /\ f.arity = arity /\ f.localCount = 0
        /\ f.consts = <<>> /\ f.code = <<>> /\ f.lines = <<>>
    BY DEF NewFunction
  <1>4. f = [name |-> f.name, arity |-> f.arity, localCount |-> f.localCount,
             consts |-> f.consts, code |-> f.code, lines |-> f.lines]
    BY DEF NewFunction
  <1> HIDE DEF f
  <1>5. IsFn(f)
    BY <1>1, <1>2, <1>3, <1>4 DEF IsFn
  <1>6. QED
    BY <1>5 DEF f

LEMMA InitFiles == Init => FilesInv
  <1>1. SUFFICES ASSUME Init PROVE FilesInv
    OBVIOUS
  <1>2. IsSeq(<<>>) /\ Len(<<>>) = 0 /\ DOMAIN <<>> = {}
    BY ShortSeq
  <1>3. PICK name \in Name : fn = NewFunction(name, Len(name))
    BY <1>1 DEF Init
  <1>4. IsFn(fn)
    BY <1>3, NewIsFn
  <1>5. saved = <<>> /\ file = <<>> /\ loaded = <<>> /\ pos = 0
    BY <1>1 DEF Init
  <1> DEFINE u == [i \in DOMAIN loaded |-> SaveFunction(saved[i])]
             v == [i \in DOMAIN loaded |-> AsLoaded(saved[i])]
  <1>6. u = <<>> /\ v = <<>> /\ Bytes(saved) = <<>>
    BY <1>2, <1>5 DEF Bytes
  <1>7. FlattenSeq(<<>>) = <<>>
    BY <1>2, FlattenIs
  <1>8. FileIsSaved
    BY <1>2, <1>5, <1>6, <1>7 DEF FileIsSaved
  <1>9. RoundTrip
    BY <1>2, <1>5, <1>6, <1>7 DEF RoundTrip
  <1>10. IsSeq(loaded) /\ Len(loaded) <= Len(saved)
    BY <1>2, <1>5
  <1>11. QED
    BY <1>4, <1>8, <1>9, <1>10 DEF FilesInv

\* The steps that build a function leave the rest alone.
LEMMA BuildFiles ==
  ASSUME FilesInv, IsFn(fn'), UNCHANGED <<file, saved, pos, loaded>>
  PROVE  FilesInv'
  <1>1. FileIsSaved'
    BY DEF FilesInv, FileIsSaved
  <1>2. RoundTrip'
    BY DEF FilesInv, RoundTrip
  <1>3. QED
    BY <1>1, <1>2 DEF FilesInv

LEMMA EmitWordFiles ==
  ASSUME FilesInv, NEW w, NEW srcLine, EmitWord(w, srcLine)
  PROVE  FilesInv'
  <1> DEFINE code == Append(fn.code, w)
             lines == Append(fn.lines, srcLine)
  <1>1. fn' = [fn EXCEPT !.code = code, !.lines = lines] /\ UNCHANGED <<file, saved, pos, loaded>>
    BY DEF EmitWord
  <1>2. IsFn(fn)
    BY DEF FilesInv
  <1>3. IsSeq(code) /\ IsSeq(lines) /\ Len(code) = Len(lines)
    <2>1. IsSeq(fn.code) /\ IsSeq(fn.lines) /\ Len(fn.lines) = Len(fn.code)
      BY <1>2 DEF IsFn
    <2>2. Len(code) = Len(fn.code) + 1 /\ Len(lines) = Len(fn.lines) + 1 /\ IsSeq(code) /\ IsSeq(lines)
      BY <2>1, AppendSeq
    <2>3. QED
      BY <2>1, <2>2
  <1> HIDE DEF code, lines
  <1>4. IsFn(fn')
    BY <1>1, <1>2, <1>3 DEF IsFn
  <1>5. QED
    BY <1>1, <1>4, BuildFiles

LEMMA AddConstFiles ==
  ASSUME FilesInv, NEW v \in Const, AddConst(v)
  PROVE  FilesInv'
  <1> DEFINE consts == Append(fn.consts, v)
  <1>1. fn' = [fn EXCEPT !.consts = consts] /\ UNCHANGED <<file, saved, pos, loaded>>
    BY DEF AddConst
  <1>2. IsFn(fn) /\ Savable(v)
    BY FilesAssumption DEF FilesInv
  <1>3. IsSeq(consts) /\ \A i \in DOMAIN consts : Savable(consts[i])
    <2> DEFINE n == Len(fn.consts)
    <2>1. n \in Nat /\ DOMAIN fn.consts = 1 .. n
      BY <1>2, SeqLength DEF IsFn
    <2>2. /\ IsSeq(consts) /\ DOMAIN consts = 1 .. n + 1
          /\ \A i \in 1 .. n : consts[i] = fn.consts[i]
          /\ consts[n + 1] = v
      BY <1>2, AppendSeq DEF IsFn
    <2> HIDE DEF consts, n
    <2>3. \A i \in 1 .. n : Savable(fn.consts[i])
      BY <1>2, <2>1 DEF IsFn
    <2>4. \A i \in 1 .. n + 1 : i \in 1 .. n \/ i = n + 1
      BY <2>1
    <2>5. QED
      BY <1>2, <2>2, <2>3, <2>4
  <1> HIDE DEF consts
  <1>4. IsFn(fn')
    BY <1>1, <1>2, <1>3 DEF IsFn
  <1>5. QED
    BY <1>1, <1>4, BuildFiles

LEMMA PatchFiles ==
  ASSUME FilesInv, NEW i, NEW w, PatchI32(i, w)
  PROVE  FilesInv'
  <1> DEFINE code == [fn.code EXCEPT ![i] = w]
  <1>1. fn' = [fn EXCEPT !.code = code] /\ UNCHANGED <<file, saved, pos, loaded>>
    BY DEF PatchI32
  <1>2. IsFn(fn)
    BY DEF FilesInv
  <1>3. IsSeq(code) /\ Len(code) = Len(fn.code)
    BY <1>2, UpdateSeq DEF IsFn
  <1> HIDE DEF code
  <1>4. IsFn(fn')
    BY <1>1, <1>2, <1>3 DEF IsFn
  <1>5. QED
    BY <1>1, <1>4, BuildFiles

LEMMA SetLocalCountFiles ==
  ASSUME FilesInv, NEW count, SetLocalCount(count)
  PROVE  FilesInv'
  <1>1. fn' = [fn EXCEPT !.localCount = count] /\ UNCHANGED <<file, saved, pos, loaded>>
    BY DEF SetLocalCount
  <1>2. IsFn(fn)
    BY DEF FilesInv
  <1>3. IsFn(fn')
    BY <1>1, <1>2 DEF IsFn
  <1>4. QED
    BY <1>1, <1>3, BuildFiles

\* RoundTrip, with the reader's place as a place in the file.
LEMMA PlaceIs ==
  ASSUME FileIsSaved, IsSeq(loaded), Len(loaded) <= Len(saved)
  PROVE  FlattenSeq([i \in DOMAIN loaded |-> SaveFunction(saved[i])])
           = Upto(Bytes(saved), Len(loaded))
  <1>1. DOMAIN loaded = 1 .. Len(loaded) /\ Len(loaded) \in 0 .. Len(saved)
    BY SeqLength DEF FileIsSaved
  <1>2. QED
    BY <1>1, FirstBytes DEF FileIsSaved

LEMMA SaveFiles ==
  ASSUME FilesInv, NEW name \in Name, NEW arity, Save(name, arity)
  PROVE  FilesInv'
  <1>1. /\ file' = file \o SaveFunction(fn) /\ saved' = Append(saved, fn)
        /\ fn' = NewFunction(name, arity) /\ pos' = pos /\ loaded' = loaded
    BY DEF Save
  <1>2. IsFn(fn')
    BY <1>1, NewIsFn
  <1>3. /\ IsFn(fn) /\ IsSeq(saved) /\ (\A i \in DOMAIN saved : IsFn(saved[i]))
        /\ file = FlattenSeq(Bytes(saved))
        /\ IsSeq(loaded) /\ Len(loaded) <= Len(saved) /\ RoundTrip
    BY DEF FilesInv, FileIsSaved
  <1> DEFINE n == Len(saved)
  <1>4. n \in Nat /\ DOMAIN saved = 1 .. n /\ DOMAIN loaded \subseteq 1 .. n /\ Len(loaded) \in Nat
    BY <1>3, SeqLength
  <1>5. /\ IsSeq(saved') /\ Len(saved') = n + 1 /\ DOMAIN saved' = 1 .. n + 1
        /\ \A i \in 1 .. n : saved'[i] = saved[i]
        /\ saved'[n + 1] = fn
    BY <1>1, <1>3, AppendSeq
  <1> HIDE DEF n
  <1>6. \A i \in 1 .. n + 1 : i \in 1 .. n \/ i = n + 1
    BY <1>4
  <1>7. \A i \in DOMAIN saved' : IsFn(saved'[i])
    BY <1>3, <1>4, <1>5, <1>6
  <1>8. file' = FlattenSeq(Bytes(saved'))
    <2> DEFINE w == Bytes(saved)
               u == Bytes(saved')
               t == Append(w, SaveFunction(fn))
    <2>1. AreSeqs(w) /\ Len(w) = n /\ \A i \in 1 .. n : w[i] = SaveFunction(saved[i])
      BY <1>3, BytesOf DEF n
    <2>2. AreSeqs(u) /\ Len(u) = n + 1 /\ \A i \in 1 .. n + 1 : u[i] = SaveFunction(saved'[i])
      BY <1>5, <1>7, BytesOf
    <2>3. IsSeq(SaveFunction(fn))
      BY <1>3, FunctionWritten
    <2>4. AreSeqs(t) /\ FlattenSeq(t) = FlattenSeq(w) \o SaveFunction(fn)
      BY <2>1, <2>3, FlattenAppend
    <2>5. Len(t) = n + 1 /\ (\A i \in 1 .. n : t[i] = w[i]) /\ t[n + 1] = SaveFunction(fn)
      BY <2>1, AppendSeq DEF AreSeqs
    <2> HIDE DEF w, u, t
    <2>6. ASSUME NEW i \in 1 .. n + 1
          PROVE  t[i] = u[i]
      <3>1. CASE i \in 1 .. n
        BY <1>5, <2>1, <2>2, <2>5, <3>1
      <3>2. CASE i = n + 1
        BY <1>5, <2>2, <2>5, <3>2
      <3>3. QED
        BY <1>6, <3>1, <3>2
    <2>7. t = u
      BY <2>2, <2>4, <2>5, <2>6, SameSeq DEF AreSeqs
    <2>8. QED
      BY <1>1, <1>3, <2>4, <2>7 DEF w, u
  <1>9. FileIsSaved'
    BY <1>5, <1>7, <1>8 DEF FileIsSaved
  <1>10. RoundTrip'
    <2>1. \A i \in DOMAIN loaded : saved'[i] = saved[i]
      BY <1>4, <1>5
    <2>2. /\ [i \in DOMAIN loaded |-> AsLoaded(saved'[i])] = [i \in DOMAIN loaded |-> AsLoaded(saved[i])]
          /\ [i \in DOMAIN loaded |-> SaveFunction(saved'[i])] = [i \in DOMAIN loaded |-> SaveFunction(saved[i])]
      BY <2>1
    <2>3. QED
      BY <1>1, <1>3, <2>2 DEF RoundTrip
  <1>11. Len(loaded') <= Len(saved')
    BY <1>1, <1>3, <1>4, <1>5 DEF n
  <1>12. QED
    BY <1>1, <1>2, <1>3, <1>9, <1>10, <1>11 DEF FilesInv

LEMMA LoadFiles ==
  ASSUME FilesInv, Load
  PROVE  FilesInv'
  <1> DEFINE w == Bytes(saved)
             m == Len(loaded)
             k == m + 1
             f == saved[k]
  <1>1. /\ m < Len(saved) /\ pos' = LoadFunction(pos).at /\ loaded' = Append(loaded, LoadFunction(pos).v)
        /\ fn' = fn /\ file' = file /\ saved' = saved
    BY DEF Load
  <1>2. /\ IsFn(fn) /\ FileIsSaved /\ IsSeq(saved) /\ (\A i \in DOMAIN saved : IsFn(saved[i]))
        /\ file = FlattenSeq(w) /\ IsSeq(loaded) /\ RoundTrip
    BY DEF FilesInv, FileIsSaved
  <1>3. /\ m \in Nat /\ Len(saved) \in Nat /\ DOMAIN saved = 1 .. Len(saved) /\ DOMAIN loaded = 1 .. m
        /\ k \in 1 .. Len(saved) /\ k - 1 = m /\ m \in 0 .. Len(saved) /\ m <= Len(saved)
    BY <1>1, <1>2, SeqLength
  <1>4. IsFn(f)
    BY <1>2, <1>3
  <1>5. AreSeqs(w) /\ Len(w) = Len(saved) /\ w[k] = SaveFunction(f)
    BY <1>2, <1>3, BytesOf
  <1>6. pos = Len(Upto(w, m)) /\ pos \in Nat
    <2>1. pos = Len(Upto(w, m))
      BY <1>2, <1>3, PlaceIs DEF RoundTrip
    <2> HIDE DEF w, m
    <2>2. QED
      BY <1>3, <1>5, <2>1, UptoSeq
  <1> HIDE DEF w, m, k, f
  <1>7. Holds(0, file)
    <2>1. IsSeq(file)
      BY <1>2, <1>5, FlattenIsSeq
    <2>2. Len(file) \in Nat
      BY <2>1, SeqLength
    <2>3. QED
      BY <2>1, <2>2 DEF Holds
  <1>8. Holds(pos, SaveFunction(f))
    <2>1. Holds(0 + Len(Upto(w, k - 1)), w[k])
      BY <1>2, <1>3, <1>5, <1>7, HoldsEach
    <2>2. 0 + Len(Upto(w, k - 1)) = pos
      BY <1>3, <1>6
    <2>3. QED
      BY <1>5, <2>1, <2>2
  <1>9. LoadFunction(pos).at = pos + Len(SaveFunction(f)) /\ LoadFunction(pos).v = AsLoaded(f)
    <2>1. LoadFunction(pos) = Reader(pos + Len(SaveFunction(f)), AsLoaded(f))
      BY <1>4, <1>8, FunctionWritten
    <2>2. QED
      BY <2>1 DEF Reader
  <1>10. /\ IsSeq(loaded') /\ Len(loaded') = k /\ DOMAIN loaded' = 1 .. k
         /\ \A i \in 1 .. m : loaded'[i] = loaded[i]
         /\ loaded'[k] = AsLoaded(f)
    BY <1>1, <1>2, <1>9, AppendSeq DEF m, k
  <1>11. loaded' = [i \in DOMAIN loaded' |-> AsLoaded(saved'[i])]
    <2>1. \A i \in 1 .. m : loaded[i] = AsLoaded(saved[i])
      BY <1>2, <1>3 DEF RoundTrip
    <2>2. \A i \in 1 .. k : i \in 1 .. m \/ i = k
      BY <1>3 DEF k
    <2>3. \A i \in 1 .. k : loaded'[i] = AsLoaded(saved[i])
      BY <1>10, <2>1, <2>2 DEF f
    <2>4. loaded' = [i \in 1 .. k |-> loaded'[i]]
      BY <1>10 DEF IsSeq
    <2>5. QED
      BY <1>1, <1>10, <2>3, <2>4
  <1>12. pos' = Len(Upto(w, k))
    <2>1. Upto(w, k) = Upto(w, m) \o w[k]
      BY <1>3, <1>5, UptoSteps
    <2>2. IsSeq(Upto(w, m)) /\ IsSeq(SaveFunction(f))
      BY <1>3, <1>4, <1>5, UptoSeq, FunctionWritten
    <2>3. Len(Upto(w, m) \o SaveFunction(f)) = Len(Upto(w, m)) + Len(SaveFunction(f))
      BY <2>2, JoinSeq
    <2>4. QED
      BY <1>1, <1>5, <1>6, <1>9, <2>1, <2>3
  <1>13. FileIsSaved'
    BY <1>1, <1>2 DEF FileIsSaved
  <1>14. RoundTrip'
    <2>1. FlattenSeq([i \in 1 .. k |-> SaveFunction(saved[i])]) = Upto(w, k)
      <3>1. k \in 0 .. Len(saved)
        BY <1>3
      <3>2. QED
        BY <1>2, <3>1, FirstBytes DEF w
    <2>2. pos' = Len(FlattenSeq([i \in DOMAIN loaded' |-> SaveFunction(saved'[i])]))
      BY <1>1, <1>10, <1>12, <2>1
    <2>3. QED
      BY <1>11, <2>2 DEF RoundTrip
  <1>15. QED
    BY <1>1, <1>2, <1>3, <1>10, <1>13, <1>14 DEF FilesInv

\* What has been saved is loaded as it was, one function after the other, whatever
\* the functions are: Function, Chunk and Value, Save and Load (RoundTrip).
THEOREM RoundTrips == Spec => []RoundTrip
  <1>1. ASSUME FilesInv, Next PROVE FilesInv'
    <2>1. CASE \E w \in Word, srcLine \in 1..2 : EmitWord(w, srcLine)
      BY <1>1, <2>1, EmitWordFiles
    <2>2. CASE \E v \in Const : AddConst(v)
      BY <1>1, <2>2, AddConstFiles
    <2>3. CASE \E i \in DOMAIN fn.code, w \in Word : PatchI32(i, w)
      BY <1>1, <2>3, PatchFiles
    <2>4. CASE SetLocalCount(1)
      BY <1>1, <2>4, SetLocalCountFiles
    <2>5. CASE \E name \in Name : Save(name, Len(name))
      BY <1>1, <2>5, SaveFiles
    <2>6. CASE Load
      BY <1>1, <2>6, LoadFiles
    <2>7. QED
      BY <1>1, <2>1, <2>2, <2>3, <2>4, <2>5, <2>6 DEF Next
  <1>2. ASSUME FilesInv, UNCHANGED vars PROVE FilesInv'
    <2>1. IsFn(fn') /\ UNCHANGED <<file, saved, pos, loaded>>
      BY <1>2 DEF vars, FilesInv
    <2>2. QED
      BY <1>2, <2>1, BuildFiles
  <1>3. FilesInv => RoundTrip
    BY DEF FilesInv
  <1>4. QED
    BY <1>1, <1>2, <1>3, InitFiles, PTL DEF Spec
=============================================================================
