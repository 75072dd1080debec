---------------------------- MODULE BudgetProofs ----------------------------
(***************************************************************************)
(* Proofs about Budget.tla, for any number of objects, of held objects, and   *)
(* any floors and thresholds.                                                *)
(***************************************************************************)
EXTENDS Budget, FiniteSetTheorems, TLAPS

-----------------------------------------------------------------------------
(* The inductive invariant                                                  *)

Object == [kind : Kind \cup {"plain", "dict"}, n : 0 .. MaxContents, cap : 0 .. 2 * MaxContents]

Types ==
  /\ linked \in SUBSET Obj /\ held \in SUBSET linked
  /\ obj \in [Obj -> Object]
  /\ heapBytes \in Nat /\ objectCount \in Nat /\ nextObjects \in Nat /\ nextBytes \in Nat
  /\ sweep \in [phase : {"idle", "automatic", "asked"}, todo : SUBSET linked]
  /\ survived \in [objects : Nat, bytes : Nat]
  /\ hosted \in BOOLEAN

CountExact == objectCount = Cardinality(linked)

FewHeld == Cardinality(held) <= MaxHeld

\* What a sweep has visited and not freed is held.
Swept == IF Running THEN sweep.todo = {} ELSE linked \ sweep.todo \subseteq held

\* Thresholds come from the last collection, or from the host.
ThresholdsSet ==
  /\ nextObjects <= ObjectLimit /\ nextBytes <= BytesLimit
  /\ ~hosted => /\ nextObjects = NextObjects(survived.objects)
                /\ nextBytes = NextBytes(survived.bytes)

\* A safepoint that does not collect leaves both counts below any threshold.
BelowLimits == Running => objectCount < ObjectLimit /\ heapBytes < BytesLimit

IInv ==
  /\ Types /\ BytesExact /\ BytesNeverWrap /\ HeapBounded
  /\ CountExact /\ FewHeld /\ Swept /\ ThresholdsSet /\ BelowLimits

-----------------------------------------------------------------------------
(* Numbers and sets                                                         *)

\* A finite set of numbers that is not empty has a greatest member.
LEMMA GreatestExists ==
  ASSUME NEW S \in SUBSET Nat, IsFiniteSet(S), S # {}
  PROVE  \E m \in S : \A x \in S : m >= x
  <1> DEFINE Without == {U \in SUBSET S : U # {} /\ ~ \E m \in U : \A x \in U : m >= x}
  <1>1. SUFFICES ASSUME S \in Without PROVE FALSE
    OBVIOUS
  <1>2. Without \subseteq FiniteSubsetsOf(S)
    BY FS_FiniteSubsetsOfFinite
  <1>3. IsWellFoundedOn(StrictSubsetOrdering(S), FiniteSubsetsOf(S))
    BY FS_StrictSubsetOrderingWellFounded
  <1>4. PICK U \in Without : \A V \in Without : ~ (<<V, U>> \in StrictSubsetOrdering(S))
    <2>1. Without # {}
      BY <1>1
    <2>2. QED
      BY <1>2, <1>3, <2>1, WFMin
  <1>5. PICK x \in U : TRUE
    OBVIOUS
  <1>6. U \ {x} \notin Without
    <2>1. U \ {x} \in SUBSET S /\ U \ {x} \subseteq U /\ U \ {x} # U
      BY <1>5
    <2>2. <<U \ {x}, U>> \in StrictSubsetOrdering(S)
      BY <2>1 DEF StrictSubsetOrdering
    <2>3. QED
      BY <1>4, <2>2
  <1>7. CASE U \ {x} = {}
    <2>1. U = {x} /\ x \in Nat
      BY <1>5, <1>7
    <2>2. QED
      BY <2>1
  <1>8. CASE U \ {x} # {}
    <2>1. PICK m \in U \ {x} : \A y \in U \ {x} : m >= y
      BY <1>6, <1>8
    <2>2. m \in U /\ m \in Nat /\ x \in Nat /\ \A y \in U : y \in Nat /\ (y = x \/ m >= y)
      BY <2>1
    <2>3. CASE m >= x
      BY <2>2, <2>3
    <2>4. CASE x >= m
      <3>1. \A y \in U : x >= y
        BY <2>2, <2>4
      <3>2. QED
        BY <1>5, <3>1
    <2>5. QED
      BY <2>2, <2>3, <2>4
  <1>9. QED
    BY <1>7, <1>8

LEMMA MaxIsGreatest ==
  ASSUME NEW S \in SUBSET Nat, IsFiniteSet(S), S # {}
  PROVE  Max(S) \in S /\ \A x \in S : Max(S) >= x
  BY GreatestExists DEF Max

\* The limits are what the configuration allows.
LEMMA Limits ==
  /\ ObjectLimit \in Nat /\ BytesLimit \in Nat
  /\ ObjectLimit >= ObjectFloor /\ ObjectLimit >= 2 * MaxHeld + ObjectSlack
  /\ BytesLimit >= BytesFloor /\ BytesLimit >= 2 * MaxHeld * MaxSize
  /\ \A t \in TestObjects : ObjectLimit >= t
  /\ \A t \in TestBytes : BytesLimit >= t
  <1>1. /\ MaxHeld \in Nat /\ ObjectSlack \in Nat /\ MaxSize \in Nat
        /\ 2 * MaxHeld + ObjectSlack \in Nat /\ ObjectFloor \in Nat
    BY BudgetAssumption DEF MaxSize
  <1>2. 2 * MaxHeld * MaxSize \in Nat /\ BytesFloor \in Nat
    BY <1>1, BudgetAssumption
  <1>3. ASSUME NEW T \in SUBSET Nat, IsFiniteSet(T), NEW a \in Nat, NEW b \in Nat
        PROVE  LET m == Max(T \cup {a, b})
               IN  m \in Nat /\ m >= a /\ m >= b /\ \A t \in T : m >= t
    <2>1. IsFiniteSet((T \cup {a}) \cup {b})
      BY <1>3, FS_AddElement
    <2>2. (T \cup {a}) \cup {b} = T \cup {a, b}
      OBVIOUS
    <2>3. QED
      BY <2>1, <2>2, MaxIsGreatest
  <1>4. QED
    BY <1>1, <1>2, <1>3, BudgetAssumption DEF ObjectLimit, BytesLimit

-----------------------------------------------------------------------------
(* Bytes                                                                    *)

LEMMA SizeType ==
  ASSUME NEW ob \in Object
  PROVE  SizeBytes(ob) \in 1 .. MaxSize
  BY BudgetAssumption DEF Object, SizeBytes, MaxSize

\* The bytes that Bytes counts.
Words(S, f) == UNION {{o} \X (1 .. SizeBytes(f[o])) : o \in S}

LEMMA WordsFinite ==
  ASSUME NEW S \in SUBSET Obj, NEW f, \A o \in S : f[o] \in Object
  PROVE  /\ IsFiniteSet(S) /\ IsFiniteSet(Words(S, f))
         /\ Bytes(S, f) = Cardinality(Words(S, f)) /\ Bytes(S, f) \in Nat
         /\ Bytes(S, f) <= Cardinality(S) * MaxSize
  <1>1. IsFiniteSet(S) /\ IsFiniteSet(1 .. MaxSize) /\ Cardinality(1 .. MaxSize) = MaxSize
    BY MemoryAssumption, BudgetAssumption, FS_Subset, FS_Interval DEF MaxSize
  <1>2. IsFiniteSet(S \X (1 .. MaxSize))
        /\ Cardinality(S \X (1 .. MaxSize)) = Cardinality(S) * MaxSize
    BY <1>1, FS_Product
  <1>3. Words(S, f) \in SUBSET (S \X (1 .. MaxSize))
    <2>1. \A o \in S : SizeBytes(f[o]) \in 1 .. MaxSize
      BY SizeType
    <2>2. MaxSize \in Nat
      BY BudgetAssumption DEF MaxSize
    <2>3. QED
      BY <2>1, <2>2 DEF Words
  <1>4. IsFiniteSet(Words(S, f)) /\ Cardinality(Words(S, f)) <= Cardinality(S) * MaxSize
    BY <1>2, <1>3, FS_Subset
  <1>5. QED
    BY <1>1, <1>4, FS_CardinalityType DEF Bytes, Words

\* There is always room: no sum of sizes wraps.
LEMMA BytesFit ==
  ASSUME NEW S \in SUBSET Obj, NEW f, \A o \in S : f[o] \in Object
  PROVE  Bytes(S, f) < Memory
  <1>1. Cardinality(S) \in Nat /\ Cardinality(Obj) \in Nat /\ Cardinality(S) <= Cardinality(Obj)
    BY MemoryAssumption, FS_Subset, FS_CardinalityType
  <1>2. MaxSize \in Nat
    BY BudgetAssumption DEF MaxSize
  <1>3. Cardinality(S) * MaxSize <= Cardinality(Obj) * MaxSize
    BY <1>1, <1>2
  <1>4. /\ Cardinality(S) * MaxSize \in Nat /\ Cardinality(Obj) * MaxSize \in Nat
        /\ Bytes(S, f) \in Nat /\ Bytes(S, f) <= Cardinality(S) * MaxSize
    BY <1>1, <1>2, WordsFinite
  <1>5. QED
    BY <1>3, <1>4, MemoryAssumption

LEMMA BytesSame ==
  ASSUME NEW S, NEW f, NEW g, \A o \in S : SizeBytes(f[o]) = SizeBytes(g[o])
  PROVE  Bytes(S, f) = Bytes(S, g)
  <1>1. Words(S, f) = Words(S, g)
    BY DEF Words
  <1>2. QED
    BY <1>1 DEF Bytes, Words

LEMMA BytesOfUnion ==
  ASSUME NEW S \in SUBSET Obj, NEW T \in SUBSET Obj, S \cap T = {},
         NEW f, \A o \in S \cup T : f[o] \in Object
  PROVE  Bytes(S \cup T, f) = Bytes(S, f) + Bytes(T, f)
  <1>1. Words(S \cup T, f) = Words(S, f) \cup Words(T, f)
    BY DEF Words
  <1>2. Words(S, f) \cap Words(T, f) = {}
    BY DEF Words
  <1>3. /\ IsFiniteSet(Words(S, f)) /\ IsFiniteSet(Words(T, f))
        /\ Bytes(S, f) = Cardinality(Words(S, f)) /\ Bytes(T, f) = Cardinality(Words(T, f))
        /\ Bytes(S, f) \in Nat /\ Bytes(T, f) \in Nat
    BY WordsFinite
  <1>4. Bytes(S \cup T, f) = Cardinality(Words(S \cup T, f))
    BY WordsFinite
  <1>5. Cardinality(Words(S, f) \cap Words(T, f)) = 0
    BY <1>2, FS_EmptySet
  <1>6. Cardinality(Words(S, f) \cup Words(T, f))
          = Cardinality(Words(S, f)) + Cardinality(Words(T, f))
              - Cardinality(Words(S, f) \cap Words(T, f))
    BY <1>3, FS_Union
  <1>7. Bytes(S \cup T, f) = Cardinality(Words(S, f) \cup Words(T, f))
    BY <1>1, <1>4
  <1>8. QED
    BY <1>3, <1>5, <1>6, <1>7

LEMMA BytesOfOne ==
  ASSUME NEW o \in Obj, NEW f, f[o] \in Object
  PROVE  Bytes({o}, f) = SizeBytes(f[o])
  <1>1. Words({o}, f) = {o} \X (1 .. SizeBytes(f[o]))
    BY DEF Words
  <1>2. SizeBytes(f[o]) \in 1 .. MaxSize /\ MaxSize \in Nat
    BY SizeType, BudgetAssumption DEF MaxSize
  <1>3. IsFiniteSet(1 .. SizeBytes(f[o])) /\ Cardinality(1 .. SizeBytes(f[o])) = SizeBytes(f[o])
    BY <1>2, FS_Interval
  <1>4. IsFiniteSet({o}) /\ Cardinality({o}) = 1
    BY FS_Singleton
  <1>5. Cardinality({o} \X (1 .. SizeBytes(f[o])))
          = Cardinality({o}) * Cardinality(1 .. SizeBytes(f[o]))
    BY <1>3, <1>4, FS_Product
  <1>6. Bytes({o}, f) = Cardinality({o} \X (1 .. SizeBytes(f[o])))
    BY <1>1 DEF Bytes, Words
  <1>7. Bytes({o}, f) = 1 * SizeBytes(f[o])
    BY <1>3, <1>4, <1>5, <1>6
  <1>8. QED
    BY <1>2, <1>7

LEMMA BytesWithout ==
  ASSUME NEW S \in SUBSET Obj, NEW f, \A x \in S : f[x] \in Object, NEW o \in S
  PROVE  /\ Bytes(S, f) = Bytes(S \ {o}, f) + SizeBytes(f[o])
         /\ Bytes(S \ {o}, f) \in Nat /\ SizeBytes(f[o]) \in 1 .. MaxSize
  <1>1. S = (S \ {o}) \cup {o}
    OBVIOUS
  <1>2. Bytes((S \ {o}) \cup {o}, f) = Bytes(S \ {o}, f) + Bytes({o}, f)
    BY BytesOfUnion
  <1>3. QED
    BY <1>1, <1>2, BytesOfOne, WordsFinite, SizeType

-----------------------------------------------------------------------------
(* Safepoints and allocation                                                *)

LEMMA SizeTSmall ==
  ASSUME NEW n \in Nat, n < Memory
  PROVE  SizeT(n) = n
  BY MemoryAssumption DEF SizeT

\* What a safepoint decides, in terms of the limits.
LEMMA SafePointLimits ==
  ASSUME Types, ThresholdsSet, NEW S, NEW objects \in Nat, NEW bytes \in Nat,
         NEW sp, sp = SafePoint(S, objects, bytes)
  PROVE  /\ sp = Idle \/ sp = [phase |-> "automatic", todo |-> S]
         /\ sp.phase = "idle" => objects < ObjectLimit /\ bytes < BytesLimit
  <1>1. CASE HitBudget(objects, bytes)
    BY <1>1 DEF SafePoint
  <1>2. CASE ~HitBudget(objects, bytes)
    <2>1. objects < nextObjects /\ bytes < nextBytes
      BY <1>2 DEF HitBudget, Types
    <2>2. objects < ObjectLimit /\ bytes < BytesLimit
      BY <2>1, Limits DEF Types, ThresholdsSet
    <2>3. QED
      BY <1>2, <2>2 DEF SafePoint
  <1>3. QED
    BY <1>1, <1>2

\* An instruction that ends at a safepoint, given what it did to heap and counts.
LEMMA SafePointInv ==
  ASSUME IInv, Running,
         linked' \in SUBSET Obj, held' \in SUBSET linked', obj' \in [Obj -> Object],
         heapBytes' \in Nat, objectCount' = Cardinality(linked'),
         Cardinality(held') <= MaxHeld,
         ~hosted => heapBytes' = Bytes(linked', obj'),
         heapBytes' <= Bytes(linked', obj'),
         objectCount' < ObjectLimit + Burst, heapBytes' < BytesLimit + MaxSize,
         sweep' = SafePoint(linked', objectCount', heapBytes'),
         UNCHANGED <<nextObjects, nextBytes, survived, hosted>>
  PROVE  IInv'
  <1>1. objectCount' \in Nat
    BY MemoryAssumption, FS_Subset, FS_CardinalityType
  <1>2. /\ sweep' = Idle \/ sweep' = [phase |-> "automatic", todo |-> linked']
        /\ sweep'.phase = "idle" => objectCount' < ObjectLimit /\ heapBytes' < BytesLimit
    BY <1>1, SafePointLimits DEF IInv
  <1>3. Types'
    BY <1>1, <1>2 DEF IInv, Types, Idle
  <1>4. Swept' /\ BelowLimits'
    BY <1>2 DEF Swept, BelowLimits, Running, Idle
  <1>5. ThresholdsSet'
    BY DEF IInv, ThresholdsSet, NextObjects, NextBytes
  <1>6. BytesExact' /\ BytesNeverWrap' /\ HeapBounded' /\ CountExact' /\ FewHeld'
    BY DEF BytesExact, BytesNeverWrap, HeapBounded, CountExact, FewHeld, Total
  <1>7. QED
    BY <1>3, <1>4, <1>5, <1>6 DEF IInv

LEMMA AllocatesInv ==
  ASSUME IInv, Running, UNCHANGED hosted,
         NEW obs, NEW kept, Allocates(obs, kept),
         DOMAIN obs \in SUBSET (Obj \ linked), \A o \in DOMAIN obs : obs[o] \in Object,
         kept \in SUBSET DOMAIN obs, Cardinality(held \cup kept) <= MaxHeld,
         Cardinality(DOMAIN obs) <= Burst, Bytes(DOMAIN obs, obs) <= MaxSize
  PROVE  IInv'
  <1> DEFINE D == DOMAIN obs
  <1> DEFINE after == [o \in Obj |-> IF o \in D THEN obs[o] ELSE obj[o]]
  <1>1. /\ linked' = linked \cup D /\ held' = held \cup kept /\ obj' = after
        /\ heapBytes' = SizeT(heapBytes + Bytes(D, obs))
        /\ objectCount' = objectCount + Cardinality(D)
        /\ sweep' = SafePoint(linked', objectCount', heapBytes')
        /\ UNCHANGED <<nextObjects, nextBytes, survived>>
    BY DEF Allocates
  <1>2. /\ linked \in SUBSET Obj /\ held \in SUBSET linked /\ obj \in [Obj -> Object]
        /\ heapBytes \in Nat /\ D \in SUBSET Obj /\ linked \cap D = {}
    BY DEF IInv, Types
  <1>3. after \in [Obj -> Object] /\ linked' \in SUBSET Obj /\ held' \in SUBSET linked'
    BY <1>1, <1>2
  <1>4. Bytes(linked', obj') = Total(linked) + Bytes(D, obs)
    <2>1. Bytes(linked \cup D, after) = Bytes(linked, after) + Bytes(D, after)
      <3>1. \A o \in linked \cup D : after[o] \in Object
        BY <1>2
      <3> HIDE DEF D, after
      <3>2. QED
        BY <1>2, <3>1, BytesOfUnion
    <2>2. Bytes(linked, after) = Total(linked)
      <3>1. \A o \in linked : SizeBytes(after[o]) = SizeBytes(obj[o])
        BY <1>2
      <3> HIDE DEF D, after
      <3>2. QED
        BY <3>1, BytesSame DEF Total
    <2>3. Bytes(D, after) = Bytes(D, obs)
      <3>1. \A o \in D : SizeBytes(after[o]) = SizeBytes(obs[o])
        BY <1>2
      <3> HIDE DEF D, after
      <3>2. QED
        BY <3>1, BytesSame
    <2> HIDE DEF D, after
    <2>4. QED
      BY <1>1, <2>1, <2>2, <2>3
  <1>5. /\ Bytes(D, obs) \in Nat /\ Total(linked) \in Nat /\ Bytes(linked', obj') < Memory
        /\ IsFiniteSet(linked) /\ IsFiniteSet(D)
    <2>1. Bytes(D, obs) \in Nat /\ IsFiniteSet(D)
      BY <1>2, WordsFinite
    <2>2. Total(linked) \in Nat /\ IsFiniteSet(linked)
      BY <1>2, WordsFinite DEF Total
    <2> HIDE DEF after
    <2>3. Bytes(linked', obj') < Memory
      BY <1>1, <1>3, BytesFit
    <2>4. QED
      BY <2>1, <2>2, <2>3
  <1> HIDE DEF after
  <1>6. heapBytes' = heapBytes + Bytes(D, obs)
    <2>1. heapBytes <= Total(linked)
      BY DEF IInv, BytesNeverWrap
    <2>2. heapBytes + Bytes(D, obs) \in Nat /\ heapBytes + Bytes(D, obs) < Memory
      BY <1>2, <1>4, <1>5, <2>1, MemoryAssumption
    <2>3. QED
      BY <1>1, <2>2, SizeTSmall
  <1>7. objectCount' = Cardinality(linked')
    <2>1. Cardinality(linked \cup D)
            = Cardinality(linked) + Cardinality(D) - Cardinality(linked \cap D)
      BY <1>5, FS_Union
    <2>2. Cardinality(linked \cap D) = 0
      BY <1>2, FS_EmptySet
    <2>3. Cardinality(linked) \in Nat /\ Cardinality(D) \in Nat
      BY <1>5, FS_CardinalityType
    <2>4. objectCount = Cardinality(linked)
      BY DEF IInv, CountExact
    <2> HIDE DEF D
    <2>5. Cardinality(linked') = Cardinality(linked \cup D)
      BY <1>1
    <2>6. QED
      BY <1>1, <2>1, <2>2, <2>3, <2>4, <2>5
  <1>8. heapBytes' \in Nat /\ heapBytes' <= Bytes(linked', obj')
        /\ (~hosted => heapBytes' = Bytes(linked', obj'))
    BY <1>2, <1>4, <1>5, <1>6 DEF IInv, BytesExact, BytesNeverWrap
  <1>9. objectCount' < ObjectLimit + Burst /\ heapBytes' < BytesLimit + MaxSize
    <2>1. objectCount < ObjectLimit /\ heapBytes < BytesLimit
      BY DEF IInv, BelowLimits
    <2>2. Cardinality(D) \in Nat /\ Burst \in Nat /\ objectCount \in Nat /\ MaxSize \in Nat
      BY <1>5, FS_CardinalityType, BudgetAssumption DEF Burst, IInv, Types, MaxSize
    <2>3. QED
      BY <1>1, <1>2, <1>5, <1>6, <2>1, <2>2, Limits
  <1>10. QED
    BY <1>1, <1>3, <1>7, <1>8, <1>9, SafePointInv

-----------------------------------------------------------------------------
(* Instructions that make objects                                           *)

LEMMA NewIsObject ==
  ASSUME NEW k \in Kind \cup {"plain", "dict"}
  PROVE  /\ NewOf(k) \in Object
         /\ SizeBytes(NewOf(k)) = IF k = "dict" THEN 2 ELSE 1
  BY BudgetAssumption DEF NewOf, New, Object, SizeBytes

\* One more object held is not too many.
LEMMA MayHoldOne ==
  ASSUME IInv, MayHold, NEW o
  PROVE  Cardinality(held \cup {o}) <= MaxHeld
  <1>1. IsFiniteSet(held)
    BY MemoryAssumption, FS_Subset DEF IInv, Types
  <1>2. Cardinality(held) \in Nat /\ Cardinality(held) < MaxHeld
    BY <1>1, FS_CardinalityType DEF MayHold
  <1>3. Cardinality(held \cup {o}) \in {Cardinality(held), Cardinality(held) + 1}
    BY <1>1, FS_AddElement
  <1>4. Cardinality(held \cup {o}) \in Nat
    BY <1>1, FS_AddElement, FS_CardinalityType
  <1>5. QED
    BY <1>2, <1>3, <1>4, BudgetAssumption

\* Instructions that make one object.
LEMMA AllocatesOneInv ==
  ASSUME IInv, UNCHANGED hosted, NEW o \in Obj \ linked, NEW ob \in Object,
         MayHold, Allocates([x \in {o} |-> ob], {o})
  PROVE  IInv'
  <1> DEFINE obs == [x \in {o} |-> ob]
  <1>1. DOMAIN obs = {o} /\ obs[o] = ob /\ Allocates(obs, {o})
    OBVIOUS
  <1> HIDE DEF obs
  <1>2. Cardinality({o}) = 1 /\ 1 <= Burst
    BY FS_Singleton DEF Burst
  <1>3. Bytes({o}, obs) <= MaxSize
    BY <1>1, BytesOfOne, SizeType
  <1>4. Cardinality(held \cup {o}) <= MaxHeld
    BY MayHoldOne
  <1>5. QED
    BY <1>1, <1>2, <1>3, <1>4, AllocatesInv DEF MayHold

LEMMA AllocateInv ==
  ASSUME IInv, UNCHANGED hosted, Allocate
  PROVE  IInv'
  <1>1. PICK o \in Obj \ linked, k \in Kind \ {"instance"} :
               MayHold /\ Allocates([x \in {o} |-> NewOf(k)], {o})
    BY DEF Allocate
  <1>2. QED
    BY <1>1, NewIsObject, AllocatesOneInv

LEMMA MakeBigDictInv ==
  ASSUME IInv, UNCHANGED hosted, MakeBigDict
  PROVE  IInv'
  <1>1. PICK o \in Obj \ linked :
               MayHold /\ Allocates([x \in {o} |-> New("dict", 2 * MaxContents)], {o})
    BY DEF MakeBigDict
  <1>2. New("dict", 2 * MaxContents) \in Object
    BY BudgetAssumption DEF New, Object
  <1>3. QED
    BY <1>1, <1>2, AllocatesOneInv

LEMMA ConstructInv ==
  ASSUME IInv, UNCHANGED hosted, Construct
  PROVE  IInv'
  <1>1. PICK i \in Obj \ linked, f \in Obj \ linked :
          /\ f # i
          /\ MayHold /\ "instance" \in Kind
          /\ Allocates([x \in {f, i} |-> NewOf(IF x = i THEN "instance" ELSE "dict")], {i})
    BY DEF Construct
  <1> DEFINE obs == [x \in {f, i} |-> NewOf(IF x = i THEN "instance" ELSE "dict")]
  <1>2. /\ DOMAIN obs = {f, i} /\ Allocates(obs, {i}) /\ f # i
        /\ obs[i] = NewOf("instance") /\ obs[f] = NewOf("dict")
    BY <1>1
  <1> HIDE DEF obs
  <1>3. /\ NewOf("instance") \in Object /\ SizeBytes(NewOf("instance")) = 1
        /\ NewOf("dict") \in Object /\ SizeBytes(NewOf("dict")) = 2
    BY <1>1, NewIsObject
  <1>4. Cardinality({f, i}) = 2 /\ Burst = 2
    <2>1. Cardinality({f}) = 1 /\ IsFiniteSet({f}) /\ {f, i} = {f} \cup {i}
      BY FS_Singleton
    <2>2. Cardinality({f} \cup {i}) = Cardinality({f}) + 1
      BY <1>2, <2>1, FS_AddElement
    <2>3. QED
      BY <1>1, <2>1, <2>2 DEF Burst
  <1>5. Bytes({f, i}, obs) = 3
    <2>1. Bytes({f}, obs) = 2 /\ Bytes({i}, obs) = 1
      BY <1>2, <1>3, BytesOfOne
    <2>2. Bytes({f} \cup {i}, obs) = Bytes({f}, obs) + Bytes({i}, obs)
      BY <1>2, <1>3, BytesOfUnion
    <2>3. {f, i} = {f} \cup {i}
      OBVIOUS
    <2>4. QED
      BY <2>1, <2>2, <2>3
  <1>6. 3 <= MaxSize
    BY BudgetAssumption DEF MaxSize
  <1>7. Cardinality(held \cup {i}) <= MaxHeld
    BY <1>1, MayHoldOne
  <1>8. QED
    BY <1>1, <1>2, <1>3, <1>4, <1>5, <1>6, <1>7, AllocatesInv DEF MayHold

-----------------------------------------------------------------------------
(* Instructions and callers that make an object grow                        *)

LEMMA GrownIsObject ==
  ASSUME NEW ob \in Object, ob.n < MaxContents
  PROVE  /\ Grown(ob) \in Object
         /\ SizeBytes(Grown(ob)) \in Nat /\ SizeBytes(ob) \in Nat
         /\ SizeBytes(ob) <= SizeBytes(Grown(ob)) /\ SizeBytes(Grown(ob)) <= MaxSize
         /\ ob.kind = "instance" => SizeBytes(Grown(ob)) = SizeBytes(ob)
  <1> DEFINE cap == IF ob.kind = "instance" \/ ob.n < ob.cap THEN ob.cap
                    ELSE IF ob.cap = 0 THEN 1 ELSE 2 * ob.cap
  <1>1. ob.n \in Nat /\ ob.n + 1 <= MaxContents /\ ob.cap \in Nat /\ ob.cap <= 2 * MaxContents
        /\ MaxContents \in Nat
    BY BudgetAssumption DEF Object
  <1>2. cap \in Nat /\ ob.cap <= cap /\ cap <= 2 * MaxContents
    BY <1>1
  <1>3. Grown(ob) = [kind |-> ob.kind, n |-> ob.n + 1, cap |-> cap]
    BY DEF Grown
  <1> HIDE DEF cap
  <1>4. Grown(ob) \in Object
    BY <1>1, <1>2, <1>3 DEF Object
  <1>5. SizeBytes(Grown(ob)) = 1 + cap + IF ob.kind = "dict" THEN ob.n + 1 ELSE 0
    BY <1>3 DEF SizeBytes
  <1>6. SizeBytes(ob) = 1 + ob.cap + IF ob.kind = "dict" THEN ob.n ELSE 0
    BY DEF SizeBytes
  <1>7. ob.kind = "instance" => cap = ob.cap
    BY DEF cap
  <1>8. QED
    BY <1>1, <1>2, <1>4, <1>5, <1>6, <1>7 DEF MaxSize

\* One object has become another.
LEMMA BytesUpdate ==
  ASSUME NEW S \in SUBSET Obj, NEW f \in [Obj -> Object], NEW o \in S, NEW ob \in Object
  PROVE  Bytes(S, [f EXCEPT ![o] = ob]) = Bytes(S, f) - SizeBytes(f[o]) + SizeBytes(ob)
  <1> DEFINE g == [f EXCEPT ![o] = ob]
  <1>1. g \in [Obj -> Object] /\ g[o] = ob /\ \A x \in S \ {o} : g[x] = f[x]
    OBVIOUS
  <1> HIDE DEF g
  <1>2. /\ Bytes(S, g) = Bytes(S \ {o}, g) + SizeBytes(g[o])
        /\ Bytes(S, f) = Bytes(S \ {o}, f) + SizeBytes(f[o])
        /\ Bytes(S \ {o}, f) \in Nat /\ SizeBytes(f[o]) \in Nat /\ SizeBytes(g[o]) \in Nat
    <2>1. MaxSize \in Nat
      BY BudgetAssumption DEF MaxSize
    <2>2. (\A x \in S : g[x] \in Object) /\ (\A x \in S : f[x] \in Object)
      BY <1>1
    <2>3. Bytes(S, g) = Bytes(S \ {o}, g) + SizeBytes(g[o]) /\ SizeBytes(g[o]) \in 1 .. MaxSize
      BY <2>2, BytesWithout
    <2>4. /\ Bytes(S, f) = Bytes(S \ {o}, f) + SizeBytes(f[o])
          /\ Bytes(S \ {o}, f) \in Nat /\ SizeBytes(f[o]) \in 1 .. MaxSize
      BY <2>2, BytesWithout
    <2>5. QED
      BY <2>1, <2>3, <2>4
  <1>3. Bytes(S \ {o}, g) = Bytes(S \ {o}, f)
    BY <1>1, BytesSame
  <1>4. Bytes(S, g) = Bytes(S, f) - SizeBytes(f[o]) + SizeBytes(ob)
    BY <1>1, <1>2, <1>3
  <1>5. QED
    BY <1>4 DEF g

\* What growth does to the sum of sizes.
LEMMA GrowthTotal ==
  ASSUME IInv, NEW o \in held, MayGrow(o), obj' = [obj EXCEPT ![o] = Grown(@)],
         linked' = linked
  PROVE  /\ obj' \in [Obj -> Object] /\ o \in linked
         /\ Bytes(linked', obj') = Total(linked) + SizeBytes(Grown(obj[o])) - SizeBytes(obj[o])
         /\ Bytes(linked', obj') \in Nat /\ Total(linked) \in Nat /\ Bytes(linked', obj') < Memory
  <1>1. /\ linked \in SUBSET Obj /\ o \in linked /\ obj \in [Obj -> Object] /\ o \in Obj
        /\ obj[o] \in Object
    BY DEF IInv, Types
  <1>2. Grown(obj[o]) \in Object /\ obj' = [obj EXCEPT ![o] = Grown(obj[o])]
    BY <1>1, GrownIsObject DEF MayGrow
  <1>3. Bytes(linked, obj') = Bytes(linked, obj) - SizeBytes(obj[o]) + SizeBytes(Grown(obj[o]))
    <2>1. Bytes(linked, [obj EXCEPT ![o] = Grown(obj[o])])
            = Bytes(linked, obj) - SizeBytes(obj[o]) + SizeBytes(Grown(obj[o]))
      BY <1>1, <1>2, BytesUpdate
    <2>2. QED
      BY <1>2, <2>1
  <1>4. obj' \in [Obj -> Object]
    BY <1>1, <1>2
  <1>5. Bytes(linked, obj') \in Nat /\ Bytes(linked, obj') < Memory /\ Bytes(linked, obj) \in Nat
    BY <1>1, <1>4, BytesFit, WordsFinite
  <1>6. SizeBytes(obj[o]) \in Nat /\ SizeBytes(Grown(obj[o])) \in Nat
    BY <1>1, GrownIsObject DEF MayGrow
  <1>7. QED
    BY <1>1, <1>3, <1>4, <1>5, <1>6 DEF Total

LEMMA GrowInv ==
  ASSUME IInv, UNCHANGED hosted, Grow
  PROVE  IInv'
  <1>1. PICK o \in held :
          /\ MayGrow(o) /\ obj' = [obj EXCEPT ![o] = Grown(@)]
          /\ heapBytes' = Reported(o)
          /\ sweep' = SafePoint(linked, objectCount, heapBytes')
          /\ UNCHANGED <<linked, held, objectCount, nextObjects, nextBytes, survived>>
    BY DEF Grow
  <1> DEFINE delta == SizeBytes(Grown(obj[o])) - SizeBytes(obj[o])
  <1>2. /\ obj' \in [Obj -> Object] /\ o \in linked
        /\ Bytes(linked', obj') = Total(linked) + SizeBytes(Grown(obj[o])) - SizeBytes(obj[o])
        /\ Bytes(linked', obj') \in Nat /\ Total(linked) \in Nat /\ Bytes(linked', obj') < Memory
    BY <1>1, GrowthTotal
  <1>3. /\ SizeBytes(Grown(obj[o])) \in Nat /\ SizeBytes(obj[o]) \in Nat
        /\ SizeBytes(obj[o]) <= SizeBytes(Grown(obj[o])) /\ SizeBytes(Grown(obj[o])) <= MaxSize
    <2>1. obj[o] \in Object /\ obj[o].n < MaxContents
      BY <1>1 DEF IInv, Types, MayGrow
    <2>2. QED
      BY <2>1, GrownIsObject
  <1>4. /\ delta \in Nat /\ delta <= MaxSize /\ MaxSize \in Nat
        /\ Bytes(linked', obj') = Total(linked) + delta
    BY <1>2, <1>3, BudgetAssumption DEF MaxSize
  <1>5. heapBytes \in Nat /\ heapBytes <= Total(linked) /\ (~hosted => heapBytes = Total(linked))
    BY DEF IInv, Types, BytesNeverWrap, BytesExact
  <1>6. heapBytes' = heapBytes + delta
    <2>1. heapBytes' = SizeT(heapBytes + delta)
      BY <1>1, <1>4 DEF Reported, AddHeapBytesDelta
    <2> HIDE DEF delta
    <2>2. heapBytes + delta \in Nat /\ heapBytes + delta < Memory
      BY <1>2, <1>4, <1>5, MemoryAssumption
    <2>3. QED
      BY <2>1, <2>2, SizeTSmall
  <1> HIDE DEF delta
  <1>7. /\ heapBytes' \in Nat /\ heapBytes' <= Bytes(linked', obj')
        /\ ~hosted => heapBytes' = Bytes(linked', obj')
    BY <1>2, <1>4, <1>5, <1>6
  <1>8. /\ linked' \in SUBSET Obj /\ held' \in SUBSET linked'
        /\ objectCount' = Cardinality(linked') /\ Cardinality(held') <= MaxHeld
    BY <1>1 DEF IInv, Types, CountExact, FewHeld
  <1>9. objectCount' < ObjectLimit + Burst /\ heapBytes' < BytesLimit + MaxSize
    <2>1. objectCount < ObjectLimit /\ heapBytes < BytesLimit /\ objectCount \in Nat
      BY <1>1 DEF IInv, BelowLimits, Types, MayGrow
    <2>2. Burst \in {1, 2}
      BY DEF Burst
    <2>3. QED
      BY <1>1, <1>4, <1>5, <1>6, <2>1, <2>2, Limits
  <1>10. Running /\ sweep' = SafePoint(linked', objectCount', heapBytes')
         /\ UNCHANGED <<nextObjects, nextBytes, survived, hosted>>
    <2>1. Running /\ linked' = linked /\ objectCount' = objectCount
      BY <1>1 DEF MayGrow
    <2>2. sweep' = SafePoint(linked, objectCount, heapBytes')
      BY <1>1
    <2>3. QED
      BY <1>1, <2>1, <2>2
  <1>11. QED
    BY <1>2, <1>7, <1>8, <1>9, <1>10, SafePointInv

\* Instructions that leave sweep and counts alone.
LEMMA QuietInv ==
  ASSUME IInv, Running, obj' \in [Obj -> Object], held' \in SUBSET linked,
         Cardinality(held') <= MaxHeld,
         Total(linked) <= Bytes(linked, obj'), ~hosted => Total(linked) = Bytes(linked, obj'),
         Total(linked) \in Nat, Bytes(linked, obj') \in Nat,
         UNCHANGED <<linked, counts, sweep, thresholds, survived, hosted>>
  PROVE  IInv'
  <1>1. Types'
    BY DEF IInv, Types, counts, thresholds
  <1>2. BytesExact' /\ BytesNeverWrap'
    BY DEF IInv, BytesExact, BytesNeverWrap, Total, Types, counts
  <1>3. /\ HeapBounded' /\ CountExact' /\ FewHeld' /\ BelowLimits' /\ ThresholdsSet'
        /\ Swept'
    BY DEF IInv, HeapBounded, CountExact, FewHeld, BelowLimits, ThresholdsSet, Swept, Running,
           NextObjects, NextBytes, counts, thresholds
  <1>4. QED
    BY <1>1, <1>2, <1>3 DEF IInv

LEMMA SetFieldInv ==
  ASSUME IInv, UNCHANGED hosted, SetField
  PROVE  IInv'
  <1>1. PICK o \in held :
          /\ MayGrow(o) /\ obj[o].kind = "instance"
          /\ obj' = [obj EXCEPT ![o] = Grown(@)]
          /\ UNCHANGED <<linked, held, counts, thresholds, sweep, survived>>
    BY DEF SetField
  <1>2. /\ obj' \in [Obj -> Object] /\ o \in linked
        /\ Bytes(linked', obj') = Total(linked) + SizeBytes(Grown(obj[o])) - SizeBytes(obj[o])
        /\ Bytes(linked', obj') \in Nat /\ Total(linked) \in Nat
    BY <1>1, GrowthTotal
  <1>3. SizeBytes(Grown(obj[o])) = SizeBytes(obj[o]) /\ SizeBytes(obj[o]) \in Nat
    <2>1. obj[o] \in Object /\ obj[o].n < MaxContents
      BY <1>1 DEF IInv, Types, MayGrow
    <2>2. QED
      BY <1>1, <2>1, GrownIsObject
  <1>4. Bytes(linked, obj') = Total(linked) /\ Bytes(linked, obj') \in Nat
    BY <1>1, <1>2, <1>3
  <1>5. Running /\ held' \in SUBSET linked /\ Cardinality(held') <= MaxHeld
    BY <1>1 DEF MayGrow, IInv, Types, FewHeld
  <1>6. QED
    BY <1>1, <1>2, <1>4, <1>5, QuietInv

LEMMA HostGrowInv ==
  ASSUME IInv, UNCHANGED hosted, HostGrow
  PROVE  IInv'
  <1>1. PICK o \in held :
          /\ hosted /\ MayGrow(o)
          /\ obj' = [obj EXCEPT ![o] = Grown(@)]
          /\ UNCHANGED <<linked, held, counts, thresholds, sweep, survived>>
    BY DEF HostGrow
  <1>2. /\ obj' \in [Obj -> Object] /\ o \in linked
        /\ Bytes(linked', obj') = Total(linked) + SizeBytes(Grown(obj[o])) - SizeBytes(obj[o])
        /\ Bytes(linked', obj') \in Nat /\ Total(linked) \in Nat
    BY <1>1, GrowthTotal
  <1>3. /\ SizeBytes(Grown(obj[o])) \in Nat /\ SizeBytes(obj[o]) \in Nat
        /\ SizeBytes(obj[o]) <= SizeBytes(Grown(obj[o]))
    <2>1. obj[o] \in Object /\ obj[o].n < MaxContents
      BY <1>1 DEF IInv, Types, MayGrow
    <2>2. QED
      BY <2>1, GrownIsObject
  <1>4. Total(linked) <= Bytes(linked, obj') /\ Bytes(linked, obj') \in Nat
    BY <1>1, <1>2, <1>3
  <1>5. Running /\ held' \in SUBSET linked /\ Cardinality(held') <= MaxHeld
    BY <1>1 DEF MayGrow, IInv, Types, FewHeld
  <1>6. QED
    BY <1>1, <1>2, <1>4, <1>5, QuietInv

-----------------------------------------------------------------------------
(* The other instructions                                                   *)

\* The sum of sizes is a number.
LEMMA TotalType ==
  ASSUME Types
  PROVE  /\ Total(linked) \in Nat /\ IsFiniteSet(linked) /\ IsFiniteSet(held)
         /\ Total(linked) <= Cardinality(linked) * MaxSize
  <1>1. linked \in SUBSET Obj /\ \A o \in linked : obj[o] \in Object
    BY DEF Types
  <1>2. QED
    BY <1>1, WordsFinite, FS_Subset DEF Total, Types

LEMMA DropInv ==
  ASSUME IInv, UNCHANGED hosted, Drop
  PROVE  IInv'
  <1>1. PICK o \in held :
          /\ Running /\ held' = held \ {o}
          /\ UNCHANGED <<linked, obj, counts, thresholds, sweep, survived>>
    BY DEF Drop
  <1>2. Total(linked) \in Nat /\ IsFiniteSet(held)
    BY TotalType DEF IInv
  <1>3. Cardinality(held') <= MaxHeld
    <2>1. held' \in SUBSET held
      BY <1>1
    <2>2. Cardinality(held') <= Cardinality(held) /\ IsFiniteSet(held')
      BY <1>2, <2>1, FS_Subset
    <2>3. Cardinality(held') \in Nat /\ Cardinality(held) \in Nat
      BY <1>2, <2>2, FS_CardinalityType
    <2>4. QED
      BY <2>2, <2>3, BudgetAssumption DEF IInv, FewHeld
  <1>4. obj' \in [Obj -> Object] /\ held' \in SUBSET linked /\ Bytes(linked, obj') = Total(linked)
    BY <1>1 DEF IInv, Types, Total
  <1>5. QED
    BY <1>1, <1>2, <1>3, <1>4, QuietInv

LEMMA SetThresholdInv ==
  ASSUME IInv, UNCHANGED hosted, SetThreshold
  PROVE  IInv'
  <1>1. /\ Running /\ hosted
        /\ UNCHANGED <<linked, obj, held, counts, sweep, survived>>
        /\ nextObjects' \in TestObjects \cup {nextObjects}
        /\ nextBytes' \in TestBytes \cup {nextBytes}
    BY DEF SetThreshold
  <1>2. /\ nextObjects' \in Nat /\ nextObjects' <= ObjectLimit
        /\ nextBytes' \in Nat /\ nextBytes' <= BytesLimit
    BY <1>1, Limits, BudgetAssumption DEF IInv, Types, ThresholdsSet
  <1>3. Types' /\ ThresholdsSet'
    BY <1>1, <1>2 DEF IInv, Types, ThresholdsSet, counts
  <1>4. /\ BytesExact' /\ BytesNeverWrap' /\ HeapBounded' /\ CountExact' /\ FewHeld'
        /\ Swept' /\ BelowLimits'
    BY <1>1 DEF IInv, BytesExact, BytesNeverWrap, Total, HeapBounded, CountExact, FewHeld,
                Swept, BelowLimits, Running, counts
  <1>5. QED
    BY <1>3, <1>4 DEF IInv

LEMMA CallInv ==
  ASSUME IInv, UNCHANGED hosted, Call
  PROVE  IInv'
  <1>1. /\ Running /\ sweep' = SafePoint(linked, objectCount, heapBytes)
        /\ UNCHANGED <<linked, obj, held, heapBytes, objectCount, nextObjects, nextBytes, survived>>
    BY DEF Call, counts, thresholds
  <1>2. sweep' = SafePoint(linked', objectCount', heapBytes')
    <2>1. linked' = linked /\ objectCount' = objectCount /\ heapBytes' = heapBytes
      BY <1>1
    <2>2. QED
      BY <1>1, <2>1
  <1>3. /\ linked' \in SUBSET Obj /\ held' \in SUBSET linked' /\ obj' \in [Obj -> Object]
        /\ heapBytes' \in Nat /\ objectCount' = Cardinality(linked')
        /\ Cardinality(held') <= MaxHeld
        /\ ~hosted => heapBytes' = Bytes(linked', obj')
        /\ heapBytes' <= Bytes(linked', obj')
    BY <1>1 DEF IInv, Types, CountExact, FewHeld, BytesExact, BytesNeverWrap, Total
  <1>4. objectCount' < ObjectLimit + Burst /\ heapBytes' < BytesLimit + MaxSize
    BY <1>1 DEF IInv, HeapBounded
  <1>5. QED
    BY <1>1, <1>2, <1>3, <1>4, SafePointInv

LEMMA GcCollectInv ==
  ASSUME IInv, UNCHANGED hosted, GcCollect
  PROVE  IInv'
  <1>1. /\ Running /\ sweep' = [phase |-> "asked", todo |-> linked]
        /\ UNCHANGED <<linked, obj, held, heapBytes, objectCount, nextObjects, nextBytes, survived>>
    BY DEF GcCollect, counts, thresholds
  <1>2. Types' /\ Swept' /\ BelowLimits'
    BY <1>1 DEF IInv, Types, Swept, BelowLimits, Running
  <1>3. ThresholdsSet' /\ BytesExact' /\ BytesNeverWrap' /\ CountExact' /\ FewHeld' /\ HeapBounded'
    BY <1>1 DEF IInv, ThresholdsSet, NextObjects, NextBytes, BytesExact, BytesNeverWrap, Total,
                CountExact, FewHeld, HeapBounded
  <1>4. QED
    BY <1>2, <1>3 DEF IInv

LEMMA PlainObjects == [o \in Obj |-> NewOf("plain")] \in [Obj -> Object]
  BY NewIsObject

LEMMA FreeAllInv ==
  ASSUME IInv, UNCHANGED hosted, FreeAll
  PROVE  IInv'
  <1>1. /\ Running /\ held = {} /\ linked' = {} /\ obj' = [o \in Obj |-> NewOf("plain")]
        /\ heapBytes' = 0 /\ objectCount' = 0
        /\ UNCHANGED <<held, nextObjects, nextBytes, sweep, survived>>
    BY DEF FreeAll, thresholds
  <1>2. Types'
    BY <1>1, PlainObjects DEF IInv, Types, Swept
  <1>3. Bytes({}, obj') = 0 /\ Cardinality({}) = 0
    <2>1. Words({}, obj') = {}
      BY DEF Words
    <2>2. QED
      BY <2>1, FS_EmptySet DEF Bytes, Words
  <1>4. BytesExact' /\ BytesNeverWrap' /\ CountExact'
    BY <1>1, <1>3 DEF BytesExact, BytesNeverWrap, Total, CountExact
  <1>5. /\ 0 < ObjectLimit /\ 0 < BytesLimit /\ 0 < ObjectLimit + Burst
        /\ 0 < BytesLimit + MaxSize
    BY Limits, BudgetAssumption DEF Burst, MaxSize
  <1>6. HeapBounded' /\ BelowLimits'
    BY <1>1, <1>5 DEF HeapBounded, BelowLimits
  <1>7. FewHeld' /\ Swept' /\ ThresholdsSet'
    BY <1>1 DEF IInv, FewHeld, Swept, Running, ThresholdsSet, NextObjects, NextBytes
  <1>8. QED
    BY <1>2, <1>4, <1>6, <1>7 DEF IInv

-----------------------------------------------------------------------------
(* The sweep                                                                *)

LEMMA SweepKeepInv ==
  ASSUME IInv, UNCHANGED hosted, SweepKeep
  PROVE  IInv'
  <1>1. PICK o \in sweep.todo \cap held :
          /\ sweep' = [sweep EXCEPT !.todo = @ \ {o}]
          /\ UNCHANGED <<linked, obj, held, heapBytes, objectCount, nextObjects, nextBytes, survived>>
    BY DEF SweepKeep, counts, thresholds
  <1>2. ~Running
    BY <1>1 DEF IInv, Swept
  <1>3. sweep'.phase = sweep.phase /\ sweep'.todo = sweep.todo \ {o} /\ Types'
    BY <1>1 DEF IInv, Types
  <1>4. Swept' /\ BelowLimits' /\ HeapBounded'
    BY <1>1, <1>2, <1>3 DEF IInv, Swept, BelowLimits, HeapBounded, Running
  <1>5. ThresholdsSet' /\ BytesExact' /\ BytesNeverWrap' /\ CountExact' /\ FewHeld'
    BY <1>1 DEF IInv, ThresholdsSet, NextObjects, NextBytes, BytesExact, BytesNeverWrap, Total,
                CountExact, FewHeld
  <1>6. QED
    BY <1>3, <1>4, <1>5 DEF IInv

\* What the counter of bytes is once an object of the given size is taken off, size
\* being part of the sum of which the counter is no more than.
LEMMA TakenOff ==
  ASSUME NEW bytes \in Nat, NEW size \in Nat, NEW rest \in Nat,
         bytes <= rest + size, rest + size < Memory
  PROVE  LET left == AddHeapBytesDelta(bytes, -size, rest)
         IN  /\ left \in Nat /\ left <= rest
             /\ bytes = rest + size => left = rest
             /\ bytes = rest + size => left <= bytes
  <1>1. CASE bytes >= size
    <2>1. bytes - size \in Nat /\ bytes - size < Memory /\ bytes - size <= rest
      BY <1>1, MemoryAssumption
    <2>2. AddHeapBytesDelta(bytes, -size, rest) = SizeT(bytes + (-size))
      BY <1>1 DEF AddHeapBytesDelta
    <2>3. SizeT(bytes - size) = bytes - size
      BY <2>1, SizeTSmall
    <2>4. QED
      BY <2>1, <2>2, <2>3
  <1>2. CASE ~(bytes >= size) /\ rest >= size
    <2>1. rest - size \in Nat /\ rest - size < Memory
      BY <1>2, MemoryAssumption
    <2>2. AddHeapBytesDelta(bytes, -size, rest) = SizeT(rest + (-size))
      BY <1>2 DEF AddHeapBytesDelta
    <2>3. SizeT(rest - size) = rest - size
      BY <2>1, SizeTSmall
    <2>4. QED
      BY <1>2, <2>1, <2>2, <2>3
  <1>3. CASE ~(bytes >= size) /\ ~(rest >= size)
    <2>1. AddHeapBytesDelta(bytes, -size, rest) = 0
      BY <1>3 DEF AddHeapBytesDelta
    <2>2. QED
      BY <1>3, <2>1
  <1>4. QED
    BY <1>1, <1>2, <1>3

LEMMA SweepFreeInv ==
  ASSUME IInv, UNCHANGED hosted, NEW o \in Obj, SweepFree(o)
  PROVE  IInv'
  <1>1. /\ o \in sweep.todo /\ o \notin held /\ linked' = linked \ {o}
        /\ obj' = [obj EXCEPT ![o] = NewOf("plain")]
        /\ heapBytes' = AddHeapBytesDelta(heapBytes, -SizeBytes(obj[o]), Total(linked \ {o}))
        /\ objectCount' = objectCount - 1
        /\ sweep' = [sweep EXCEPT !.todo = @ \ {o}]
        /\ UNCHANGED <<held, nextObjects, nextBytes, survived>>
    BY DEF SweepFree, thresholds
  <1>2. /\ o \in linked /\ linked \in SUBSET Obj /\ obj \in [Obj -> Object]
        /\ \A x \in linked : obj[x] \in Object
    BY <1>1 DEF IInv, Types
  <1>3. ~Running
    BY <1>1 DEF IInv, Swept
  <1>4. /\ Total(linked) = Total(linked \ {o}) + SizeBytes(obj[o])
        /\ Total(linked \ {o}) \in Nat /\ SizeBytes(obj[o]) \in Nat
        /\ Total(linked) < Memory
    <2>1. MaxSize \in Nat
      BY BudgetAssumption DEF MaxSize
    <2>2. /\ Bytes(linked, obj) = Bytes(linked \ {o}, obj) + SizeBytes(obj[o])
          /\ Bytes(linked \ {o}, obj) \in Nat /\ SizeBytes(obj[o]) \in 1 .. MaxSize
      BY <1>2, BytesWithout
    <2>3. Bytes(linked, obj) < Memory
      BY <1>2, BytesFit
    <2>4. QED
      BY <2>1, <2>2, <2>3 DEF Total
  <1>5. Bytes(linked', obj') = Total(linked \ {o})
    <2>1. \A x \in linked \ {o} : obj'[x] = obj[x]
      BY <1>1, <1>2
    <2>2. Bytes(linked \ {o}, obj') = Bytes(linked \ {o}, obj)
      BY <2>1, BytesSame
    <2>3. QED
      BY <1>1, <2>2 DEF Total
  <1>6. /\ heapBytes' \in Nat /\ heapBytes' <= Total(linked \ {o})
        /\ ~hosted => heapBytes' = Total(linked \ {o}) /\ heapBytes' <= heapBytes
    <2>1. heapBytes \in Nat /\ heapBytes <= Total(linked) /\ (~hosted => heapBytes = Total(linked))
      BY DEF IInv, Types, BytesNeverWrap, BytesExact
    <2>2. heapBytes <= Total(linked \ {o}) + SizeBytes(obj[o])
          /\ Total(linked \ {o}) + SizeBytes(obj[o]) < Memory
      BY <1>4, <2>1
    <2>3. LET left == AddHeapBytesDelta(heapBytes, -SizeBytes(obj[o]), Total(linked \ {o}))
          IN  /\ left \in Nat /\ left <= Total(linked \ {o})
              /\ heapBytes = Total(linked \ {o}) + SizeBytes(obj[o]) =>
                   left = Total(linked \ {o}) /\ left <= heapBytes
      BY <1>4, <2>1, <2>2, TakenOff
    <2>4. QED
      BY <1>1, <1>4, <2>1, <2>3
  <1>7. objectCount' = Cardinality(linked') /\ objectCount' \in Nat
    <2>1. IsFiniteSet(linked) /\ objectCount = Cardinality(linked)
      BY TotalType DEF IInv, CountExact
    <2>2. Cardinality(linked \ {o}) = Cardinality(linked) - 1 /\ IsFiniteSet(linked \ {o})
      BY <1>2, <2>1, FS_RemoveElement
    <2>3. Cardinality(linked \ {o}) \in Nat
      BY <2>2, FS_CardinalityType
    <2>4. QED
      BY <1>1, <2>1, <2>2, <2>3
  <1>8. sweep'.phase = sweep.phase /\ sweep'.todo = sweep.todo \ {o}
    BY <1>1 DEF IInv, Types
  <1>9. Types'
    <2>1. obj' \in [Obj -> Object]
      BY <1>1, <1>2, NewIsObject
    <2>2. linked' \in SUBSET Obj /\ held' \in SUBSET linked'
      BY <1>1 DEF IInv, Types
    <2>3. sweep' \in [phase : {"idle", "automatic", "asked"}, todo : SUBSET linked']
      BY <1>1, <1>2 DEF IInv, Types
    <2>4. QED
      BY <1>1, <1>6, <1>7, <2>1, <2>2, <2>3 DEF IInv, Types
  <1>10. BytesExact' /\ BytesNeverWrap' /\ CountExact'
    BY <1>5, <1>6, <1>7 DEF BytesExact, BytesNeverWrap, CountExact, Total
  <1>11. Swept' /\ BelowLimits' /\ FewHeld'
    BY <1>1, <1>3, <1>8 DEF IInv, Swept, BelowLimits, Running, FewHeld
  <1>12. HeapBounded'
    <2>1. ~Running'
      BY <1>3, <1>8 DEF Running
    <2>2. objectCount < ObjectLimit + Burst /\ (~hosted => heapBytes < BytesLimit + MaxSize)
      BY DEF IInv, HeapBounded
    <2>3. /\ Burst \in {1, 2} /\ MaxSize \in Nat /\ heapBytes \in Nat /\ heapBytes' \in Nat
          /\ objectCount \in Nat
      BY <1>6, BudgetAssumption DEF Burst, MaxSize, IInv, Types
    <2>4. objectCount' < ObjectLimit + Burst
      BY <1>1, <2>2, <2>3, Limits
    <2>5. ~hosted => heapBytes' < BytesLimit + MaxSize
      BY <1>6, <2>2, <2>3, Limits
    <2>6. QED
      BY <2>1, <2>4, <2>5 DEF HeapBounded
  <1>13. ThresholdsSet'
    BY <1>1 DEF IInv, ThresholdsSet, NextObjects, NextBytes
  <1>14. QED
    BY <1>9, <1>10, <1>11, <1>12, <1>13 DEF IInv

\* What a swept heap keeps is held, and so the next thresholds are within limits.
LEMMA SurvivorsFew ==
  ASSUME IInv, ~Running, sweep.todo = {}
  PROVE  /\ objectCount <= MaxHeld /\ heapBytes <= MaxHeld * MaxSize
         /\ NextObjects(objectCount) \in Nat /\ NextObjects(objectCount) <= ObjectLimit
         /\ NextBytes(heapBytes) \in Nat /\ NextBytes(heapBytes) <= BytesLimit
         /\ objectCount < ObjectLimit /\ heapBytes < BytesLimit
  <1>1. linked \in SUBSET held /\ IsFiniteSet(held)
    BY TotalType DEF IInv, Swept
  <1>2. Cardinality(linked) <= Cardinality(held) /\ IsFiniteSet(linked)
    BY <1>1, FS_Subset
  <1>3. Cardinality(linked) \in Nat /\ Cardinality(held) \in Nat /\ Cardinality(held) <= MaxHeld
    BY <1>1, <1>2, FS_CardinalityType DEF IInv, FewHeld
  <1>4. /\ MaxHeld \in Nat /\ MaxSize \in Nat \ {0} /\ ObjectSlack \in Nat \ {0}
        /\ ObjectFloor \in Nat /\ BytesFloor \in Nat \ {0}
    BY BudgetAssumption DEF MaxSize
  <1>5. objectCount <= MaxHeld /\ objectCount \in Nat
    BY <1>2, <1>3, <1>4 DEF IInv, CountExact
  <1>6. heapBytes <= MaxHeld * MaxSize /\ heapBytes \in Nat
    <2>1. heapBytes \in Nat /\ heapBytes <= Total(linked)
      BY DEF IInv, Types, BytesNeverWrap
    <2>2. Total(linked) \in Nat /\ Total(linked) <= Cardinality(linked) * MaxSize
      BY TotalType DEF IInv
    <2>3. Cardinality(linked) * MaxSize <= MaxHeld * MaxSize
      BY <1>2, <1>3, <1>4
    <2>4. Cardinality(linked) * MaxSize \in Nat /\ MaxHeld * MaxSize \in Nat
      BY <1>3, <1>4
    <2>5. QED
      BY <2>1, <2>2, <2>3, <2>4
  <1>7. /\ NextObjects(objectCount) \in Nat /\ NextObjects(objectCount) <= ObjectLimit
        /\ objectCount < ObjectLimit
    BY <1>4, <1>5, Limits DEF NextObjects, Larger
  <1>8. /\ NextBytes(heapBytes) \in Nat /\ NextBytes(heapBytes) <= BytesLimit
        /\ heapBytes < BytesLimit
    <2>1. /\ MaxHeld * MaxSize \in Nat /\ 2 * MaxHeld * MaxSize = 2 * (MaxHeld * MaxSize)
      BY <1>4
    <2>2. 2 * heapBytes <= BytesLimit
      BY <1>6, <2>1, Limits
    <2>3. heapBytes < BytesLimit
      BY <1>4, <1>6, <2>2, Limits
    <2>4. QED
      BY <1>4, <1>6, <2>2, <2>3, Limits DEF NextBytes, Larger
  <1>9. QED
    BY <1>5, <1>6, <1>7, <1>8

LEMMA EndSweepInv ==
  ASSUME IInv, UNCHANGED hosted, EndSweep
  PROVE  IInv'
  <1>1. /\ ~Running /\ sweep.todo = {}
        /\ UNCHANGED <<linked, obj, held, heapBytes, objectCount>>
    BY DEF EndSweep, counts
  <1>2. /\ NextObjects(objectCount) \in Nat /\ NextObjects(objectCount) <= ObjectLimit
        /\ NextBytes(heapBytes) \in Nat /\ NextBytes(heapBytes) <= BytesLimit
        /\ objectCount < ObjectLimit /\ heapBytes < BytesLimit
    BY <1>1, SurvivorsFew
  <1>3. heapBytes \in Nat /\ objectCount \in Nat /\ MaxSize \in Nat /\ Burst \in {1, 2}
    BY BudgetAssumption DEF IInv, Types, MaxSize, Burst
  <1>4. BytesExact' /\ BytesNeverWrap' /\ CountExact' /\ FewHeld' /\ HeapBounded'
    BY <1>1, <1>2, <1>3, Limits
      DEF IInv, BytesExact, BytesNeverWrap, Total, CountExact, FewHeld, HeapBounded
  <1>5. CASE sweep.phase = "automatic"
    <2>1. /\ nextObjects' = NextObjects(objectCount) /\ nextBytes' = NextBytes(heapBytes)
          /\ survived' = [objects |-> objectCount, bytes |-> heapBytes]
          /\ sweep' = Idle
      BY <1>5 DEF EndSweep
    <2>2. Types'
      BY <1>1, <1>2, <1>3, <2>1 DEF IInv, Types, Idle
    <2>3. Swept' /\ BelowLimits'
      BY <1>1, <1>2, <2>1 DEF Swept, BelowLimits, Running, Idle
    <2>4. ThresholdsSet'
      BY <1>2, <2>1 DEF ThresholdsSet, NextObjects, NextBytes
    <2>5. QED
      BY <1>4, <2>2, <2>3, <2>4 DEF IInv
  <1>6. CASE sweep.phase # "automatic"
    <2>1. /\ sweep' = SafePoint(linked, objectCount, heapBytes)
          /\ UNCHANGED <<nextObjects, nextBytes, survived>>
      BY <1>6 DEF EndSweep, thresholds
    <2>2. /\ sweep' = Idle \/ sweep' = [phase |-> "automatic", todo |-> linked]
          /\ sweep'.phase = "idle" => objectCount < ObjectLimit /\ heapBytes < BytesLimit
      BY <1>3, <2>1, SafePointLimits DEF IInv
    <2>3. Types'
      BY <1>1, <2>1, <2>2 DEF IInv, Types, Idle
    <2>4. Swept' /\ BelowLimits'
      BY <1>1, <2>2 DEF Swept, BelowLimits, Running, Idle
    <2>5. ThresholdsSet'
      BY <2>1 DEF IInv, ThresholdsSet, NextObjects, NextBytes
    <2>6. QED
      BY <1>4, <2>3, <2>4, <2>5 DEF IInv
  <1>7. QED
    BY <1>5, <1>6

-----------------------------------------------------------------------------
(* The theorems                                                             *)

LEMMA InitInv ==
  ASSUME Init
  PROVE  IInv
  <1>1. /\ hosted \in BOOLEAN /\ linked \in SUBSET Obj /\ Cardinality(linked) <= MaxHeld
        /\ held = linked /\ obj = [o \in Obj |-> NewOf("plain")]
        /\ heapBytes = Total(linked) /\ objectCount = Cardinality(linked)
        /\ nextObjects = ObjectFloor /\ nextBytes = BytesFloor
        /\ sweep = Idle /\ survived = [objects |-> 0, bytes |-> 0]
    BY BudgetAssumption DEF Init
  <1>2. obj \in [Obj -> Object] /\ \A o \in linked : SizeBytes(obj[o]) = 1
    BY <1>1, NewIsObject
  <1>3. Total(linked) = Cardinality(linked) /\ Total(linked) \in Nat
    <2>1. Words(linked, obj) = linked \X {1}
      <3>1. 1 .. 1 = {1}
        OBVIOUS
      <3>2. QED
        BY <1>2, <3>1 DEF Words
    <2>2. IsFiniteSet(linked) /\ IsFiniteSet({1}) /\ Cardinality({1}) = 1
      BY <1>1, MemoryAssumption, FS_Subset, FS_Singleton
    <2>3. Cardinality(linked \X {1}) = Cardinality(linked) * Cardinality({1})
      BY <2>2, FS_Product
    <2>4. Cardinality(linked) \in Nat
      BY <2>2, FS_CardinalityType
    <2>5. Total(linked) = Cardinality(linked \X {1})
      BY <2>1 DEF Total, Bytes, Words
    <2>6. QED
      BY <2>2, <2>3, <2>4, <2>5
  <1>4. Types
    BY <1>1, <1>2, <1>3, BudgetAssumption DEF Types, Idle
  <1>5. objectCount < ObjectLimit /\ heapBytes < BytesLimit
    <2>1. /\ objectCount \in Nat /\ objectCount <= MaxHeld /\ heapBytes = objectCount
          /\ MaxHeld \in Nat /\ ObjectSlack \in Nat \ {0} /\ BytesFloor \in Nat \ {0}
          /\ MaxSize \in Nat \ {0}
      BY <1>1, <1>3, BudgetAssumption DEF MaxSize
    <2>2. MaxHeld * MaxSize >= MaxHeld /\ 2 * MaxHeld * MaxSize = 2 * (MaxHeld * MaxSize)
      BY <2>1
    <2>3. MaxHeld * MaxSize \in Nat
      BY <2>1
    <2>4. QED
      BY <2>1, <2>2, <2>3, Limits
  <1>6. MaxSize \in Nat /\ Burst \in {1, 2}
    BY BudgetAssumption DEF MaxSize, Burst
  <1>7. HeapBounded /\ BelowLimits
    BY <1>4, <1>5, <1>6, Limits DEF HeapBounded, BelowLimits, Types
  <1>8. BytesExact /\ BytesNeverWrap /\ CountExact /\ FewHeld /\ Swept
    BY <1>1, <1>3 DEF BytesExact, BytesNeverWrap, CountExact, FewHeld, Swept, Running, Idle
  <1>9. ThresholdsSet
    BY <1>1, Limits, BudgetAssumption DEF ThresholdsSet, NextObjects, NextBytes, Larger
  <1>10. QED
    BY <1>4, <1>7, <1>8, <1>9 DEF IInv

LEMMA NextInv ==
  ASSUME IInv, [Next]_vars
  PROVE  IInv'
  <1>1. CASE UNCHANGED vars
    BY <1>1 DEF vars, IInv, Types, BytesExact, BytesNeverWrap, Total, HeapBounded, CountExact,
                FewHeld, Swept, Running, ThresholdsSet, NextObjects, NextBytes, BelowLimits
  <1>2. CASE Program /\ UNCHANGED hosted
    BY <1>2, AllocateInv, MakeBigDictInv, ConstructInv, GrowInv, SetFieldInv, HostGrowInv,
       DropInv, CallInv, GcCollectInv, SetThresholdInv, FreeAllInv DEF Program
  <1>3. CASE Sweep /\ UNCHANGED hosted
    BY <1>3, SweepKeepInv, SweepFreeInv, EndSweepInv DEF Sweep
  <1>4. QED
    BY <1>1, <1>2, <1>3 DEF Next

\* The invariant holds in every state (vm.cc MaybeCollectGarbage_ and the opcodes
\* that report growth; gc.cc AddHeapBytesDelta and Sweep).
THEOREM Invariance == Spec => []IInv
  <1>1. Init => IInv
    BY InitInv
  <1>2. IInv /\ [Next]_vars => IInv'
    BY NextInv
  <1>3. QED
    BY <1>1, <1>2, PTL DEF Spec

\* Counts and thresholds are numbers, a sweep visits linked objects only, and the
\* program holds what is linked.
THEOREM TypeCorrect == Spec => []TypeOK
  <1>1. IInv => TypeOK
    BY DEF IInv, Types, TypeOK, Object
  <1>2. QED
    BY <1>1, Invariance, PTL

\* heap_bytes_ is the sum of all sizes, at every object of a sweep as well, for a
\* program without C++ code beside it (gc.h New, gc.cc AddHeapBytesDelta, Sweep).
THEOREM ExactBytes == Spec => []BytesExact
  <1>1. IInv => BytesExact
    BY DEF IInv
  <1>2. QED
    BY <1>1, Invariance, PTL

\* heap_bytes_ never exceeds the sum of all sizes, hence never wraps below 0,
\* whatever growth went unreported (gc.cc AddHeapBytesDelta).
THEOREM NoWrap == Spec => []BytesNeverWrap
  <1>1. IInv => BytesNeverWrap
    BY DEF IInv
  <1>2. QED
    BY <1>1, Invariance, PTL

\* The heap stays within a multiple of what the program holds (vm.cc
\* MaybeCollectGarbage_, GcSafePoint_).
THEOREM Boundedness == Spec => []HeapBounded
  <1>1. IInv => HeapBounded
    BY DEF IInv
  <1>2. QED
    BY <1>1, Invariance, PTL

\* Automatic collections are as far apart as the heap was large (vm.cc
\* MaybeCollectGarbage_, "avoid thrashing").
THEOREM FewCollections == Spec => Amortised
  <1> DEFINE Earned ==
        ~hosted /\ sweep'.phase = "automatic" /\ Running =>
          \/ objectCount' >= 2 * survived.objects + ObjectSlack /\ objectCount' >= ObjectFloor
          \/ heapBytes' >= 2 * survived.bytes /\ heapBytes' >= BytesFloor
  <1>1. IInv /\ IInv' /\ [Next]_vars => Earned
    <2>1. SUFFICES ASSUME IInv, IInv', [Next]_vars,
                          ~hosted, sweep'.phase = "automatic", Running
                   PROVE  \/ /\ objectCount' >= 2 * survived.objects + ObjectSlack
                             /\ objectCount' >= ObjectFloor
                          \/ heapBytes' >= 2 * survived.bytes /\ heapBytes' >= BytesFloor
      OBVIOUS
    <2>2. sweep' # sweep /\ sweep'.phase # "asked" /\ sweep.phase = "idle"
      BY <2>1 DEF Running
    <2>3. \E S : sweep' = SafePoint(S, objectCount', heapBytes')
      <3>1. CASE Allocate \/ MakeBigDict \/ Construct
        BY <3>1 DEF Allocate, MakeBigDict, Construct, Allocates
      <3>2. CASE Grow
        BY <3>2 DEF Grow
      <3>3. CASE Call
        BY <3>3 DEF Call, counts
      <3>4. CASE GcCollect
        BY <2>2, <3>4 DEF GcCollect
      <3>5. CASE SetField \/ HostGrow \/ Drop \/ SetThreshold \/ FreeAll \/ UNCHANGED vars
        BY <2>2, <3>5 DEF SetField, HostGrow, Drop, SetThreshold, FreeAll, vars
      <3>6. CASE Sweep
        <4>1. ~SweepKeep /\ \A o \in Obj : ~SweepFree(o)
          BY <2>1 DEF SweepKeep, SweepFree, IInv, Swept
        <4>2. ~EndSweep
          BY <2>1 DEF EndSweep
        <4>3. QED
          BY <3>6, <4>1, <4>2 DEF Sweep
      <3>7. QED
        BY <2>1, <3>1, <3>2, <3>3, <3>4, <3>5, <3>6 DEF Next, Program
    <2>4. HitBudget(objectCount', heapBytes')
      <3>1. PICK S : sweep' = SafePoint(S, objectCount', heapBytes')
        BY <2>3
      <3>2. QED
        BY <2>1, <3>1 DEF SafePoint, Idle
    <2>5. /\ nextObjects = NextObjects(survived.objects) /\ nextBytes = NextBytes(survived.bytes)
          /\ survived.objects \in Nat /\ survived.bytes \in Nat
          /\ objectCount' \in Nat /\ heapBytes' \in Nat
      BY <2>1 DEF IInv, ThresholdsSet, Types
    <2>6. /\ nextObjects >= 2 * survived.objects + ObjectSlack /\ nextObjects >= ObjectFloor
          /\ nextBytes >= 2 * survived.bytes /\ nextBytes >= BytesFloor
          /\ nextObjects \in Nat /\ nextBytes \in Nat
      BY <2>1, <2>5, BudgetAssumption DEF NextObjects, NextBytes, Larger, IInv, Types
    <2>7. CASE objectCount' >= nextObjects
      BY <2>5, <2>6, <2>7, BudgetAssumption
    <2>8. CASE heapBytes' >= nextBytes
      BY <2>5, <2>6, <2>8, BudgetAssumption
    <2>9. QED
      BY <2>4, <2>7, <2>8 DEF HitBudget
  <1>2. Spec => [][Earned]_vars
    BY <1>1, Invariance, PTL DEF Spec
  <1>3. QED
    BY <1>2 DEF Amortised
=============================================================================
