----------------------------- MODULE DataLemmas -----------------------------
(***************************************************************************)
(* Induction over natural numbers, and sequences of anything: facts that the   *)
(* proofs about the VM and about its files share.                            *)
(***************************************************************************)
EXTENDS Integers, Sequences, FiniteSetTheorems, SequenceTheorems, TLAPS

-----------------------------------------------------------------------------
(* Natural numbers, by the well-foundedness of finite sets                   *)

LEMMA LeastNatural ==
  ASSUME NEW T \in SUBSET Nat, T # {}
  PROVE  \E n \in T : \A k \in T : n <= k
  <1> DEFINE Up == {0 .. n : n \in T}
  <1>1. Up # {} /\ Up \subseteq FiniteSubsetsOf(Nat)
    <2>1. \A n \in Nat : IsFiniteSet(0 .. n) /\ 0 .. n \subseteq Nat
      BY FS_Interval
    <2>2. QED
      BY <2>1 DEF FiniteSubsetsOf
  <1>2. PICK U \in Up : \A V \in Up : ~ (<<V, U>> \in StrictSubsetOrdering(Nat))
    <2>1. IsWellFoundedOn(StrictSubsetOrdering(Nat), FiniteSubsetsOf(Nat))
      BY FS_StrictSubsetOrderingWellFounded
    <2>2. QED
      BY <1>1, <2>1, WFMin
  <1>3. PICK n \in T : U = 0 .. n
    BY <1>2
  <1>4. ASSUME NEW k \in T, k < n
        PROVE  FALSE
    <2>1. 0 .. k \in Up /\ 0 .. k \subseteq 0 .. n /\ 0 .. k # 0 .. n
      BY <1>4
    <2>2. <<0 .. k, 0 .. n>> \in StrictSubsetOrdering(Nat)
      BY <2>1, <1>4 DEF StrictSubsetOrdering
    <2>3. QED
      BY <2>1, <2>2, <1>2, <1>3
  <1>5. QED
    BY <1>4

LEMMA Induction ==
  ASSUME NEW T, 0 \in T, \A n \in Nat : n \in T => n + 1 \in T
  PROVE  Nat \subseteq T
  <1>1. SUFFICES ASSUME Nat \ T # {} PROVE FALSE
    OBVIOUS
  <1>2. PICK n \in Nat \ T : \A k \in Nat \ T : n <= k
    BY <1>1, LeastNatural
  <1>3. n # 0 /\ n - 1 \in Nat /\ n - 1 \in T
    BY <1>2
  <1>4. QED
    BY <1>2, <1>3

-----------------------------------------------------------------------------
(* Sequences, whatever their elements                                       *)

IsSeq(s) == s \in Seq({s[i] : i \in DOMAIN s})

LEMMA SeqShape ==
  ASSUME NEW S, NEW s \in Seq(S)
  PROVE  IsSeq(s) /\ Len(s) \in Nat /\ DOMAIN s = 1 .. Len(s)
  <1>1. Len(s) \in Nat /\ DOMAIN s = 1 .. Len(s) /\ s \in [1 .. Len(s) -> S]
    BY LenProperties
  <1>2. s \in [1 .. Len(s) -> {s[i] : i \in DOMAIN s}]
    BY <1>1
  <1>3. QED
    BY <1>1, <1>2, SeqDef DEF IsSeq

LEMMA SeqLength ==
  ASSUME NEW s, IsSeq(s)
  PROVE  Len(s) \in Nat /\ DOMAIN s = 1 .. Len(s)
  BY SeqShape DEF IsSeq

\* A function on the first numbers.
LEMMA FunctionSeq ==
  ASSUME NEW n \in Nat, NEW S, NEW s \in [1 .. n -> S]
  PROVE  IsSeq(s) /\ Len(s) = n
  <1>1. s \in Seq(S)
    BY SeqDef
  <1>2. QED
    BY <1>1, SeqShape

LEMMA AppendSeq ==
  ASSUME NEW s, IsSeq(s), NEW v
  PROVE  /\ IsSeq(Append(s, v)) /\ Len(Append(s, v)) = Len(s) + 1
         /\ DOMAIN Append(s, v) = 1 .. Len(s) + 1
         /\ \A i \in 1 .. Len(s) : Append(s, v)[i] = s[i]
         /\ Append(s, v)[Len(s) + 1] = v
  <1> DEFINE T == {s[i] : i \in DOMAIN s} \cup {v}
  <1>1. s \in Seq(T) /\ v \in T
    BY SeqMonotonic DEF IsSeq
  <1> DEFINE t == Append(s, v)
  <1> HIDE DEF T
  <1>2. /\ t \in Seq(T) /\ Len(t) = Len(s) + 1
        /\ \A i \in 1 .. Len(s) : t[i] = s[i]
        /\ t[Len(s) + 1] = v
    BY <1>1, AppendProperties
  <1> HIDE DEF t
  <1>3. IsSeq(t) /\ DOMAIN t = 1 .. Len(s) + 1
    BY <1>2, SeqShape
  <1>4. QED
    BY <1>2, <1>3 DEF t

LEMMA FrontSeq ==
  ASSUME NEW s, IsSeq(s), NEW n \in 0 .. Len(s)
  PROVE  LET t == SubSeq(s, 1, n)
         IN  IsSeq(t) /\ Len(t) = n /\ DOMAIN t = 1 .. n /\ \A i \in 1 .. n : t[i] = s[i]
  <1> DEFINE T == {s[i] : i \in DOMAIN s}
             t == SubSeq(s, 1, n)
  <1>1. Len(s) \in Nat /\ DOMAIN s = 1 .. Len(s)
    BY SeqLength
  <1>2. /\ t \in Seq(T) /\ Len(t) = IF 1 <= n THEN n - 1 + 1 ELSE 0
        /\ \A i \in 1 .. n - 1 + 1 : t[i] = s[1 + i - 1]
    BY <1>1, SubSeqProperties
  <1> HIDE DEF t, T
  <1>3. IsSeq(t) /\ Len(t) = n /\ DOMAIN t = 1 .. n /\ \A i \in 1 .. n : t[i] = s[i]
    BY <1>1, <1>2, SeqShape
  <1>4. QED
    BY <1>3 DEF t

LEMMA BackSeq ==
  ASSUME NEW s, IsSeq(s), NEW n \in 0 .. Len(s)
  PROVE  LET t == SubSeq(s, Len(s) - n + 1, Len(s))
         IN  /\ IsSeq(t) /\ Len(t) = n /\ DOMAIN t = 1 .. n
             /\ \A i \in 1 .. n : t[i] = s[Len(s) - n + i]
  <1> DEFINE T == {s[i] : i \in DOMAIN s}
             m == Len(s) - n + 1
             t == SubSeq(s, m, Len(s))
  <1>1. Len(s) \in Nat /\ DOMAIN s = 1 .. Len(s) /\ m \in 1 .. Len(s) + 1
    BY SeqLength
  <1>2. /\ t \in Seq(T) /\ Len(t) = IF m <= Len(s) THEN Len(s) - m + 1 ELSE 0
        /\ \A i \in 1 .. Len(s) - m + 1 : t[i] = s[m + i - 1]
    BY <1>1, SubSeqProperties
  <1>3. IsSeq(t) /\ Len(t) = n /\ DOMAIN t = 1 .. n
    <2>1. Len(t) = n
      BY <1>1, <1>2
    <2> HIDE DEF t, T
    <2>2. QED
      BY <1>2, <2>1, SeqShape
  <1>4. ASSUME NEW i \in 1 .. n PROVE t[i] = s[Len(s) - n + i]
    <2>1. Len(s) - m + 1 = n /\ m + i - 1 = Len(s) - n + i
      BY <1>1
    <2> HIDE DEF t, m
    <2>2. QED
      BY <1>2, <2>1
  <1>5. QED
    BY <1>3, <1>4

LEMMA JoinSeq ==
  ASSUME NEW s, IsSeq(s), NEW t, IsSeq(t)
  PROVE  /\ IsSeq(s \o t) /\ Len(s \o t) = Len(s) + Len(t)
         /\ DOMAIN (s \o t) = 1 .. Len(s) + Len(t)
         /\ \A i \in 1 .. Len(s) : (s \o t)[i] = s[i]
         /\ \A i \in 1 .. Len(t) : (s \o t)[Len(s) + i] = t[i]
  <1> DEFINE T == {s[i] : i \in DOMAIN s} \cup {t[i] : i \in DOMAIN t}
             u == s \o t
  <1>1. s \in Seq(T) /\ t \in Seq(T)
    BY SeqMonotonic DEF IsSeq
  <1>2. Len(s) \in Nat /\ Len(t) \in Nat
    BY SeqLength
  <1> HIDE DEF T
  <1>3. /\ u \in Seq(T) /\ Len(u) = Len(s) + Len(t)
        /\ \A i \in 1 .. Len(s) + Len(t) : u[i] = IF i <= Len(s) THEN s[i] ELSE t[i - Len(s)]
    BY <1>1, ConcatProperties
  <1> HIDE DEF u
  <1>4. IsSeq(u) /\ DOMAIN u = 1 .. Len(s) + Len(t)
    BY <1>3, SeqShape
  <1>5. ASSUME NEW i \in 1 .. Len(s) PROVE u[i] = s[i]
    BY <1>2, <1>3
  <1>6. ASSUME NEW i \in 1 .. Len(t) PROVE u[Len(s) + i] = t[i]
    BY <1>2, <1>3
  <1>7. QED
    BY <1>3, <1>4, <1>5, <1>6 DEF u

LEMMA UpdateSeq ==
  ASSUME NEW s, IsSeq(s), NEW i, NEW v
  PROVE  LET t == [s EXCEPT ![i] = v]
         IN  IsSeq(t) /\ Len(t) = Len(s) /\ DOMAIN t = 1 .. Len(s)
  <1> DEFINE T == {s[k] : k \in DOMAIN s} \cup {v}
             t == [s EXCEPT ![i] = v]
  <1>1. Len(s) \in Nat /\ DOMAIN s = 1 .. Len(s) /\ s \in Seq(T)
    BY SeqLength, SeqMonotonic DEF IsSeq
  <1>2. t \in [1 .. Len(s) -> T]
    BY <1>1
  <1>3. QED
    BY <1>1, <1>2, FunctionSeq

LEMMA ShortSeq ==
  /\ IsSeq(<<>>) /\ Len(<<>>) = 0
  /\ \A v : IsSeq(<<v>>) /\ Len(<<v>>) = 1 /\ DOMAIN <<v>> = {1} /\ <<v>>[1] = v
  <1>1. IsSeq(<<>>) /\ Len(<<>>) = 0
    BY DEF IsSeq
  <1>2. ASSUME NEW v
        PROVE  IsSeq(<<v>>) /\ Len(<<v>>) = 1 /\ DOMAIN <<v>> = {1} /\ <<v>>[1] = v
    BY DEF IsSeq
  <1>3. QED
    BY <1>1, <1>2
=============================================================================
