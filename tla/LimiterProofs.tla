--------------------------- MODULE LimiterProofs ---------------------------
(***************************************************************************)
(* The limiter keeps its counts and its limit, for any number of requests  *)
(* and keys and any limit.  The two go together: that no more than Allowed *)
(* are inside follows from the count when the last one was let in, and     *)
(* that is the number of requests only because every one of them takes     *)
(* itself out exactly once.                                                *)
(***************************************************************************)
EXTENDS Limiter, FiniteSetTheorems, TLAPS

\* The assumption is a hypothesis of every lemma and is used with its definition.
USE DEF LimiterAssumption

LimiterInv == LimiterTypeOK /\ SlotsAccounted /\ AtMostAllowed

\* The requests of a key are finitely many, those inside some of them.
LEMMA CountedFinite ==
  ASSUME LimiterAssumption, NEW k \in LimitKey
  PROVE  /\ IsFiniteSet(Counted(k)) /\ Cardinality(Counted(k)) \in Nat
         /\ IsFiniteSet(Inside(k)) /\ Cardinality(Inside(k)) \in Nat
         /\ Cardinality(Inside(k)) <= Cardinality(Counted(k))
<1>1. IsFiniteSet(Counted(k))
  BY LimiterAssumption, Counted(k) \in SUBSET Request, FS_Subset DEF Counted
<1>2. IsFiniteSet(Inside(k)) /\ Cardinality(Inside(k)) <= Cardinality(Counted(k))
  BY <1>1, Inside(k) \in SUBSET Counted(k), FS_Subset DEF Inside
<1> QED
  BY <1>1, <1>2, FS_CardinalityType

\* The same for the sets after a step: they depend on the value of slot only.
LEMMA CountedFiniteNext ==
  ASSUME LimiterAssumption, NEW k \in LimitKey
  PROVE  IsFiniteSet(Counted(k)') /\ IsFiniteSet(Inside(k)')
<1>1. IsFiniteSet(Counted(k)')
  BY LimiterAssumption, Counted(k)' \in SUBSET Request, FS_Subset DEF Counted
<1> QED
  BY <1>1, Inside(k)' \in SUBSET Counted(k)', FS_Subset DEF Inside

\* At first nobody is counted.
LEMMA InitLimiter ==
  ASSUME LimiterAssumption
  PROVE  LimiterInit => LimiterInv
<1> SUFFICES ASSUME LimiterInit PROVE LimiterInv
  OBVIOUS
<1>1. LimiterTypeOK
  BY DEF LimiterInit, LimiterTypeOK
<1>2. \A k \in LimitKey : Counted(k) = {} /\ Inside(k) = {}
  BY DEF LimiterInit, Counted, Inside
<1>3. SlotsAccounted
  BY <1>2, FS_EmptySet DEF LimiterInit, SlotsAccounted
<1>4. AtMostAllowed
  BY <1>2, FS_EmptySet, LimiterAssumption DEF AtMostAllowed
<1> QED
  BY <1>1, <1>3, <1>4 DEF LimiterInv

\* A request counts itself: one more under its key, nobody more inside.
LEMMA IncrementKeeps ==
  ASSUME LimiterAssumption, LimiterInv, NEW r \in Request, NEW k \in LimitKey, Increment(r, k)
  PROVE  LimiterInv'
<1>1. slot' \in [Request -> Slot \cup {None}] /\ slot'[r].key = k
      /\ slot'[r] # None /\ slot'[r].phase = "counted"
      /\ \A q \in Request \ {r} : slot'[q] = slot[q]
  BY LimiterAssumption DEF LimiterInv, LimiterTypeOK, Increment, Slot
<1>2. LimiterTypeOK'
  BY <1>1 DEF LimiterInv, LimiterTypeOK, Increment
<1>3. /\ r \notin Counted(k)
      /\ Counted(k)' = Counted(k) \cup {r}
      /\ \A j \in LimitKey \ {k} : Counted(j)' = Counted(j)
      /\ \A j \in LimitKey : Inside(j)' = Inside(j)
  BY <1>1 DEF Increment, Counted, Inside
<1>4. Cardinality(Counted(k)') = Cardinality(Counted(k)) + 1
  BY <1>3, CountedFinite, FS_AddElement
<1>5. SlotsAccounted'
  <2> SUFFICES ASSUME NEW j \in LimitKey
               PROVE  limits'[j] = Cardinality(Counted(j)') + leaked'[j]
    BY DEF SlotsAccounted
  <2>1. limits[j] = Cardinality(Counted(j)) + leaked[j]
    BY DEF LimiterInv, SlotsAccounted
  <2>2. CASE j = k
    BY <1>4, <2>1, <2>2, CountedFinite DEF Increment, LimiterInv, LimiterTypeOK
  <2>3. CASE j # k
    BY <1>3, <2>1, <2>3 DEF Increment, LimiterInv, LimiterTypeOK
  <2> QED
    BY <2>2, <2>3
<1>6. AtMostAllowed'
  BY <1>3 DEF LimiterInv, AtMostAllowed
<1> QED
  BY <1>2, <1>5, <1>6 DEF LimiterInv

\* A request that is let in finds everybody inside, itself included, in a count
\* that is at most Allowed.
LEMMA AdmitKeeps ==
  ASSUME LimiterAssumption, LimiterInv, NEW r \in Request, Admit(r)
  PROVE  LimiterInv'
<1>0. PICK k \in LimitKey : slot[r].key = k
  BY DEF LimiterInv, LimiterTypeOK, Admit, In, Slot
<1>1. slot[r] \in Slot
  BY DEF LimiterInv, LimiterTypeOK, Admit, In
<1>2. slot' \in [Request -> Slot \cup {None}] /\ slot'[r] # None
      /\ slot'[r].key = k /\ slot'[r].phase = "inside"
      /\ \A q \in Request \ {r} : slot'[q] = slot[q]
  BY <1>0, <1>1, LimiterAssumption DEF LimiterInv, LimiterTypeOK, Admit, MoveTo, Slot
<1>3. LimiterTypeOK'
  BY <1>2 DEF LimiterInv, LimiterTypeOK, Admit
<1>4. /\ \A j \in LimitKey : Counted(j)' = Counted(j)
      /\ \A j \in LimitKey \ {k} : Inside(j)' = Inside(j)
      /\ Inside(k)' \in SUBSET Counted(k)
  BY <1>0, <1>1, <1>2 DEF Admit, In, Counted, Inside
<1>5. SlotsAccounted'
  BY <1>4 DEF LimiterInv, SlotsAccounted, Admit
<1>6. Cardinality(Inside(k)') <= Allowed
  <2>1. Cardinality(Inside(k)') <= Cardinality(Counted(k))
    BY <1>1, <1>4, CountedFinite, FS_Subset
  <2>2. limits[k] = Cardinality(Counted(k)) + leaked[k] /\ limits[k] <= Allowed
    BY <1>0 DEF LimiterInv, SlotsAccounted, Admit
  <2>3. Cardinality(Counted(k)) \in Nat /\ leaked[k] \in Nat
    BY <1>1, CountedFinite DEF LimiterInv, LimiterTypeOK
  <2>4. Cardinality(Inside(k)') \in Nat
    BY <1>1, CountedFiniteNext, FS_CardinalityType
  <2> QED
    BY <2>1, <2>2, <2>3, <2>4, LimiterAssumption
<1>7. AtMostAllowed'
  BY <1>4, <1>6 DEF LimiterInv, AtMostAllowed
<1> QED
  BY <1>3, <1>5, <1>7 DEF LimiterInv

\* A request that is turned away stays counted and is not inside.
LEMMA RefuseKeeps ==
  ASSUME LimiterAssumption, LimiterInv, NEW r \in Request, Refuse(r)
  PROVE  LimiterInv'
<1>1. slot[r] \in Slot
  BY DEF LimiterInv, LimiterTypeOK, Refuse, In
<1>2. slot' \in [Request -> Slot \cup {None}] /\ slot'[r] # None
      /\ slot'[r].key = slot[r].key /\ slot'[r].phase = "refused"
      /\ \A q \in Request \ {r} : slot'[q] = slot[q]
  BY <1>1, LimiterAssumption DEF LimiterInv, LimiterTypeOK, Refuse, MoveTo, Slot
<1>3. LimiterTypeOK'
  BY <1>2 DEF LimiterInv, LimiterTypeOK, Refuse
<1>4. \A j \in LimitKey : Counted(j)' = Counted(j) /\ Inside(j)' = Inside(j)
  BY <1>1, <1>2 DEF Refuse, In, Counted, Inside
<1> QED
  BY <1>3, <1>4 DEF LimiterInv, SlotsAccounted, AtMostAllowed, Refuse

\* The sets of the keys after r has left.
LEMMA Left ==
  ASSUME LimiterAssumption, LimiterInv, NEW r \in Request, NEW k \in LimitKey,
         slot[r] # None, slot[r].key = k, Leave(r)
  PROVE  /\ slot' \in [Request -> Slot \cup {None}]
         /\ Cardinality(Counted(k)') = Cardinality(Counted(k)) - 1
         /\ Cardinality(Counted(k)) \in Nat \ {0}
         /\ \A j \in LimitKey \ {k} : Counted(j)' = Counted(j)
         /\ \A j \in LimitKey : Inside(j)' \in SUBSET Inside(j)
<1>2. slot' \in [Request -> Slot \cup {None}] /\ slot'[r] = None
      /\ \A q \in Request \ {r} : slot'[q] = slot[q]
  BY DEF LimiterInv, LimiterTypeOK, Leave
<1>3. /\ r \in Counted(k)
      /\ Counted(k)' = Counted(k) \ {r}
      /\ \A j \in LimitKey \ {k} : Counted(j)' = Counted(j)
      /\ \A j \in LimitKey : Inside(j)' \in SUBSET Inside(j)
  BY <1>2 DEF Counted, Inside
<1>4. Cardinality(Counted(k)') = Cardinality(Counted(k)) - 1
  <2>1. IsFiniteSet(Counted(k))
    BY CountedFinite
  <2>2. Cardinality(Counted(k) \ {r}) = Cardinality(Counted(k)) - 1
    <3> DEFINE C == Counted(k)
    <3>1. r \in C /\ IsFiniteSet(C)
      BY <1>3, <2>1
    <3> HIDE DEF C
    <3>2. Cardinality(C \ {r}) = Cardinality(C) - 1
      BY <3>1, FS_RemoveElement
    <3> QED
      BY <3>2 DEF C
  <2> QED
    BY <2>2, <1>3
<1>5. Cardinality(Counted(k)) \in Nat \ {0}
  BY <1>3, CountedFinite, FS_EmptySet
<1> QED
  BY <1>2, <1>3, <1>4, <1>5

\* Nobody gets inside when somebody leaves.
LEMMA FewerInside ==
  ASSUME LimiterAssumption, AtMostAllowed, \A j \in LimitKey : Inside(j)' \in SUBSET Inside(j)
  PROVE  AtMostAllowed'
<1> SUFFICES ASSUME NEW j \in LimitKey PROVE Cardinality(Inside(j)') <= Allowed
  BY DEF AtMostAllowed
<1>1. Cardinality(Inside(j)') <= Cardinality(Inside(j))
  BY CountedFinite, FS_Subset
<1>2. Cardinality(Inside(j)') \in Nat /\ Cardinality(Inside(j)) \in Nat
  BY CountedFinite, CountedFiniteNext, FS_CardinalityType
<1> QED
  BY <1>1, <1>2, LimiterAssumption DEF AtMostAllowed

\* A request that takes itself out was counted, so the count was not 0.
LEMMA DecrementKeeps ==
  ASSUME LimiterAssumption, LimiterInv, NEW r \in Request, Decrement(r)
  PROVE  LimiterInv'
<1>1. slot[r] # None /\ Leave(r)
  BY DEF Decrement, In
<1>0. PICK k \in LimitKey : slot[r].key = k
  BY <1>1 DEF LimiterInv, LimiterTypeOK, Slot
<1>2. LimiterTypeOK'
  <2>1. limits[k] \in Nat \ {0}
    BY <1>0, <1>1, Left DEF LimiterInv, LimiterTypeOK, SlotsAccounted
  <2> QED
    BY <1>0, <1>1, <2>1, Left DEF LimiterInv, LimiterTypeOK, Decrement
<1>3. SlotsAccounted'
  <2> SUFFICES ASSUME NEW j \in LimitKey
               PROVE  limits'[j] = Cardinality(Counted(j)') + leaked'[j]
    BY DEF SlotsAccounted
  <2>1. limits[j] = Cardinality(Counted(j)) + leaked[j] /\ leaked[j] \in Nat
    BY DEF LimiterInv, LimiterTypeOK, SlotsAccounted
  <2>2. CASE j = k
    <3>1. limits'[j] = limits[j] - 1 /\ leaked' = leaked
      BY <1>0, <2>2 DEF Decrement, LimiterInv, LimiterTypeOK
    <3> QED
      BY <1>0, <1>1, <2>1, <2>2, <3>1, Left
  <2>3. CASE j # k
    <3>1. limits'[j] = limits[j] /\ leaked' = leaked
      BY <1>0, <2>3 DEF Decrement, LimiterInv, LimiterTypeOK
    <3> QED
      BY <1>0, <1>1, <2>1, <2>3, <3>1, Left
  <2> QED
    BY <2>2, <2>3
<1>4. AtMostAllowed'
  BY <1>0, <1>1, Left, FewerInside DEF LimiterInv
<1> QED
  BY <1>2, <1>3, <1>4 DEF LimiterInv

\* After a panic the count stays, and the leaked slot accounts for it.
LEMMA PanicKeeps ==
  ASSUME LimiterAssumption, LimiterInv, NEW r \in Request, Panic(r)
  PROVE  LimiterInv'
<1>1. slot[r] # None /\ Leave(r)
  BY DEF Panic, In
<1>0. PICK k \in LimitKey : slot[r].key = k
  BY <1>1 DEF LimiterInv, LimiterTypeOK, Slot
<1>2. LimiterTypeOK'
  BY <1>0, <1>1, Left DEF LimiterInv, LimiterTypeOK, Panic
<1>3. SlotsAccounted'
  <2> SUFFICES ASSUME NEW j \in LimitKey
               PROVE  limits'[j] = Cardinality(Counted(j)') + leaked'[j]
    BY DEF SlotsAccounted
  <2>1. limits[j] = Cardinality(Counted(j)) + leaked[j] /\ leaked[j] \in Nat
    BY DEF LimiterInv, LimiterTypeOK, SlotsAccounted
  <2>2. CASE j = k
    <3>1. limits' = limits /\ leaked'[j] = leaked[j] + 1
      BY <1>0, <2>2 DEF Panic, LimiterInv, LimiterTypeOK
    <3> QED
      BY <1>0, <1>1, <2>1, <2>2, <3>1, Left
  <2>3. CASE j # k
    <3>1. limits' = limits /\ leaked'[j] = leaked[j]
      BY <1>0, <2>3 DEF Panic, LimiterInv, LimiterTypeOK
    <3> QED
      BY <1>0, <1>1, <2>1, <2>3, <3>1, Left
  <2> QED
    BY <2>2, <2>3
<1>4. AtMostAllowed'
  BY <1>0, <1>1, Left, FewerInside DEF LimiterInv
<1> QED
  BY <1>2, <1>3, <1>4 DEF LimiterInv

\* Every step keeps the invariant.
LEMMA LimiterStep ==
  ASSUME LimiterAssumption
  PROVE  LimiterInv /\ [LimiterNext]_limiterVars => LimiterInv'
<1> SUFFICES ASSUME LimiterInv, [LimiterNext]_limiterVars PROVE LimiterInv'
  OBVIOUS
<1>1. ASSUME NEW r \in Request, NEW k \in LimitKey, Increment(r, k)
      PROVE  LimiterInv'
  BY <1>1, IncrementKeeps
<1>2. ASSUME NEW r \in Request, Admit(r) PROVE LimiterInv'
  BY <1>2, AdmitKeeps
<1>3. ASSUME NEW r \in Request, Refuse(r) PROVE LimiterInv'
  BY <1>3, RefuseKeeps
<1>4. ASSUME NEW r \in Request, Decrement(r) PROVE LimiterInv'
  BY <1>4, DecrementKeeps
<1>5. ASSUME NEW r \in Request, Panic(r) PROVE LimiterInv'
  BY <1>5, PanicKeeps
<1>6. CASE UNCHANGED limiterVars
  BY <1>6 DEF limiterVars, LimiterInv, LimiterTypeOK, SlotsAccounted, AtMostAllowed,
              Counted, Inside
<1> QED
  BY <1>1, <1>2, <1>3, <1>4, <1>5, <1>6 DEF LimiterNext

\* The variables of the limiter always have their types.
THEOREM LimiterTypes ==
  ASSUME LimiterAssumption
  PROVE  LimiterSpec => []LimiterTypeOK
<1>1. LimiterInv => LimiterTypeOK
  BY DEF LimiterInv
<1> QED
  BY <1>1, InitLimiter, LimiterStep, PTL DEF LimiterSpec

\* Counts are exact: no interleaving of the increments, the comparisons and the
\* decrements loses a slot or gives one twice; only a panic keeps one.
THEOREM CountsAreExact ==
  ASSUME LimiterAssumption
  PROVE  LimiterSpec => []SlotsAccounted
<1>1. LimiterInv => SlotsAccounted
  BY DEF LimiterInv
<1> QED
  BY <1>1, InitLimiter, LimiterStep, PTL DEF LimiterSpec

\* At most Allowed handlers of a key are at work at a time.
THEOREM LimitHolds ==
  ASSUME LimiterAssumption
  PROVE  LimiterSpec => []AtMostAllowed
<1>1. LimiterInv => AtMostAllowed
  BY DEF LimiterInv
<1> QED
  BY <1>1, InitLimiter, LimiterStep, PTL DEF LimiterSpec

\* Who is turned away was in a crowd: Allowed others were there at that time, or
\* have panicked.
THEOREM RefusalIsJust ==
  ASSUME LimiterAssumption
  PROVE  LimiterSpec => RefusedOnlyWhenCrowded
<1> DEFINE Just == \A r \in Request :
                     In(r, {"counted"}) /\ In(r, {"refused"})' =>
                       LET k == slot[r].key
                       IN  Cardinality(Counted(k) \ {r}) + leaked[k] >= Allowed
<1>1. LimiterInv /\ [LimiterNext]_limiterVars => [Just]_limiterVars
  <2> SUFFICES ASSUME LimiterInv, [LimiterNext]_limiterVars,
                      NEW r \in Request, In(r, {"counted"}), In(r, {"refused"})'
               PROVE  LET k == slot[r].key
                      IN  Cardinality(Counted(k) \ {r}) + leaked[k] >= Allowed
    OBVIOUS
  <2> DEFINE k == slot[r].key
  <2>1. slot[r] \in Slot /\ k \in LimitKey /\ r \in Counted(k)
    BY DEF LimiterInv, LimiterTypeOK, In, Slot, Counted
  <2>2. limits[k] > Allowed
    <3>1. \A q \in Request : slot[q] # None => slot[q] \in Slot
      BY DEF LimiterInv, LimiterTypeOK
    <3>2. ASSUME NEW q \in Request, NEW j \in LimitKey, Increment(q, j) PROVE FALSE
      <4>1. q # r
        BY <3>2 DEF Increment, In
      <4>2. slot'[r] = slot[r]
        BY <3>2, <4>1 DEF Increment, LimiterInv, LimiterTypeOK
      <4> QED
        BY <4>2 DEF In
    <3>3. ASSUME NEW q \in Request, Leave(q) PROVE FALSE
      <4>1. slot'[r] = None \/ slot'[r] = slot[r]
        BY <3>3 DEF Leave, LimiterInv, LimiterTypeOK
      <4> QED
        BY <4>1 DEF In
    <3>4. ASSUME NEW q \in Request, Admit(q) PROVE FALSE
      <4>1. slot'[r] = [slot[r] EXCEPT !.phase = "inside"] \/ slot'[r] = slot[r]
        BY <3>4 DEF Admit, MoveTo, LimiterInv, LimiterTypeOK
      <4> QED
        BY <2>1, <4>1 DEF In, Slot
    <3>5. ASSUME NEW q \in Request, Refuse(q) PROVE limits[k] > Allowed
      <4>1. q = r \/ slot'[r] = slot[r]
        BY <3>5 DEF Refuse, MoveTo, LimiterInv, LimiterTypeOK
      <4> QED
        BY <3>5, <4>1 DEF Refuse, In
    <3>6. ~ UNCHANGED limiterVars
      BY DEF limiterVars, In
    <3> QED
      BY <3>2, <3>3, <3>4, <3>5, <3>6 DEF LimiterNext, Decrement, Panic
  <2>3. Cardinality(Counted(k) \ {r}) = Cardinality(Counted(k)) - 1
    BY <2>1, CountedFinite, FS_RemoveElement
  <2>4. limits[k] = Cardinality(Counted(k)) + leaked[k]
        /\ Cardinality(Counted(k)) \in Nat /\ leaked[k] \in Nat
    BY <2>1, CountedFinite DEF LimiterInv, LimiterTypeOK, SlotsAccounted
  <2> QED
    BY <2>2, <2>3, <2>4, LimiterAssumption
<1>2. LimiterInv /\ [LimiterNext]_limiterVars => LimiterInv'
  BY LimiterStep
<1> QED
  BY <1>1, <1>2, InitLimiter, PTL DEF LimiterSpec, RefusedOnlyWhenCrowded
=============================================================================
