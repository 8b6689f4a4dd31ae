------------------------- MODULE RateLimiterProofs -------------------------
(***************************************************************************)
(* Proofs about RateLimiter, for any callers, limit, window and skew, and  *)
(* whatever the bounds on the clock and on the calls granted.              *)
(***************************************************************************)
EXTENDS RateLimiter, FiniteSetTheorems, TLAPS

\* Calls granted are finitely many, and numbered up to their number: the next
\* one is new.
Numbered ==
    /\ IsFiniteSet(granted)
    /\ \A g \in granted : g.id <= Cardinality(granted)

\* A caller that waits for the lock holds an instant at most MaxSkew old, so a
\* call is recorded with an instant at most MaxSkew before it is granted.
SkewBounded ==
    /\ \A c \in arrived : now[c] <= clock /\ clock <= now[c] + MaxSkew
    /\ \A g \in granted : g.at <= clock /\ g.at <= g.stamp + MaxSkew

\* What has been pruned was granted at least a window less the skew ago.
PrunedIsOld ==
    \A g \in granted \ timestamps : g.at + Window <= clock + MaxSkew

IInv ==
    /\ TypeOK
    /\ Numbered
    /\ SkewBounded
    /\ PrunedIsOld
    /\ BoundedMemory

LEMMA RetainedIsSubset ==
    ASSUME TypeOK, Numbered, NEW n \in Times
    PROVE  /\ Retained(n) \subseteq timestamps
           /\ Retained(n) \subseteq granted
           /\ IsFiniteSet(Retained(n))
           /\ Cardinality(Retained(n)) \in Nat
           /\ IsFiniteSet(timestamps)
           /\ Cardinality(timestamps) \in Nat
           /\ Cardinality(Retained(n)) <= Cardinality(timestamps)
<1>1. Retained(n) \subseteq timestamps /\ Retained(n) \subseteq granted
  BY DEF Retained, TypeOK
<1>2. IsFiniteSet(timestamps) /\ IsFiniteSet(Retained(n))
  BY <1>1, FS_Subset DEF TypeOK, Numbered
<1>3. Cardinality(Retained(n)) <= Cardinality(timestamps)
  BY <1>1, <1>2, FS_Subset
<1>4. QED
  BY <1>1, <1>2, <1>3, FS_CardinalityType

\* Pruning with an instant at most MaxSkew old, and no younger than the clock,
\* drops only what is old enough.
LEMMA PruningKeepsRecent ==
    ASSUME TypeOK, SkewBounded, PrunedIsOld, NEW c \in arrived
    PROVE  \A g \in granted \ Retained(now[c]) : g.at + Window <= clock + MaxSkew
<1> SUFFICES ASSUME NEW g \in granted, g \notin Retained(now[c])
             PROVE  g.at + Window <= clock + MaxSkew
  OBVIOUS
<1>1. g.stamp \in Nat /\ g.at \in Nat /\ clock \in Nat /\ now[c] \in Nat
  BY LimiterAssumption DEF TypeOK, Grant, Times
<1>2. CASE g \notin timestamps
  BY <1>2 DEF PrunedIsOld
<1>3. CASE g \in timestamps
  <2>1. DurationSince(now[c], g.stamp) >= Window
    BY <1>1, <1>3, LimiterAssumption DEF Retained, DurationSince
  <2>2. now[c] >= g.stamp + Window
    BY <1>1, <2>1, LimiterAssumption DEF DurationSince
  <2>3. now[c] <= clock /\ g.at <= g.stamp + MaxSkew
    BY DEF SkewBounded
  <2>4. QED
    BY <1>1, <2>2, <2>3, LimiterAssumption
<1>4. QED
  BY <1>2, <1>3

LEMMA InitIInv == Init => IInv
<1> SUFFICES ASSUME Init PROVE IInv
  OBVIOUS
<1>1. IsFiniteSet({}) /\ Cardinality({}) = 0
  BY FS_EmptySet
<1>2. QED
  BY <1>1, LimiterAssumption
  DEF Init, IInv, TypeOK, Times, Numbered, SkewBounded, PrunedIsOld, BoundedMemory

LEMMA ArriveKeepsIInv ==
    ASSUME IInv, NEW c \in Callers, Arrive(c)
    PROVE  IInv'
<1> USE DEF IInv
<1>1. TypeOK'
  BY DEF TypeOK, Arrive
<1>2. SkewBounded'
  BY LimiterAssumption DEF SkewBounded, Arrive, TypeOK, Times
<1>3. QED
  BY <1>1, <1>2 DEF Arrive, Numbered, PrunedIsOld, BoundedMemory

LEMMA GrantsKeepsIInv ==
    ASSUME IInv, NEW c \in Callers, Grants(c)
    PROVE  IInv'
<1> USE DEF IInv
<1> DEFINE g == [id |-> Cardinality(granted) + 1, stamp |-> now[c], at |-> clock]
           kept == Retained(now[c])
<1>1. /\ c \in arrived
      /\ now[c] \in Times
      /\ clock' = clock /\ now' = now
      /\ arrived' = arrived \ {c}
      /\ timestamps' = kept \cup {g}
      /\ granted' = granted \cup {g}
  BY DEF Grants, TypeOK
<1>2. /\ kept \subseteq granted
      /\ IsFiniteSet(kept)
      /\ Cardinality(kept) \in Nat
  BY <1>1, RetainedIsSubset
<1>3. Cardinality(granted) \in Nat /\ Cardinality(granted) < MaxGrants
  BY FS_CardinalityType DEF Numbered, Grants
<1>4. g \in Grant
  BY <1>1, <1>3, LimiterAssumption DEF Grant, TypeOK, Times
<1>5. g \notin granted
  BY <1>3 DEF Numbered
<1>6. TypeOK'
  BY <1>1, <1>2, <1>4 DEF TypeOK
<1>7. Numbered'
  <2>1. IsFiniteSet(granted') /\ Cardinality(granted') = Cardinality(granted) + 1
    BY <1>1, <1>5, FS_AddElement DEF Numbered
  <2>2. \A h \in granted : h.id \in Nat
    BY DEF TypeOK, Grant
  <2>3. QED
    BY <1>1, <1>3, <2>1, <2>2 DEF Numbered
<1>8. SkewBounded'
  <2>1. \A d \in arrived' : now'[d] <= clock' /\ clock' <= now'[d] + MaxSkew
    BY <1>1 DEF SkewBounded
  <2>2. g.at <= clock' /\ g.at <= g.stamp + MaxSkew
    BY <1>1, LimiterAssumption DEF SkewBounded, TypeOK, Times
  <2>3. QED
    BY <1>1, <2>1, <2>2 DEF SkewBounded
<1>9. PrunedIsOld'
  BY <1>1, PruningKeepsRecent DEF PrunedIsOld
<1>10. BoundedMemory'
  <2>1. Cardinality(kept) < Limit
    BY <1>2, LimiterAssumption DEF Grants, Full
  <2>2. Cardinality(timestamps') <= Cardinality(kept) + 1
    <3> HIDE DEF g, kept
    <3>1. Cardinality(kept \cup {g})
            = IF g \in kept THEN Cardinality(kept) ELSE Cardinality(kept) + 1
      BY <1>2, FS_AddElement
    <3>2. QED
      BY <1>1, <1>2, <3>1
  <2>3. Cardinality(timestamps') \in Nat
    BY <1>1, <1>2, FS_AddElement, FS_CardinalityType
  <2>4. QED
    BY <1>2, <2>1, <2>2, <2>3, LimiterAssumption DEF BoundedMemory
<1>11. QED
  BY <1>6, <1>7, <1>8, <1>9, <1>10

LEMMA ExceededKeepsIInv ==
    ASSUME IInv, NEW c \in Callers, Exceeded(c)
    PROVE  IInv'
<1> USE DEF IInv
<1>1. /\ c \in arrived
      /\ now[c] \in Times
      /\ clock' = clock /\ now' = now /\ granted' = granted
      /\ arrived' = arrived \ {c}
      /\ timestamps' = Retained(now[c])
  BY DEF Exceeded, TypeOK
<1>2. TypeOK'
  BY <1>1, RetainedIsSubset DEF TypeOK
<1>3. Numbered' /\ SkewBounded'
  BY <1>1 DEF Numbered, SkewBounded
<1>4. PrunedIsOld'
  BY <1>1, PruningKeepsRecent DEF PrunedIsOld
<1>5. BoundedMemory'
  BY <1>1, RetainedIsSubset, LimiterAssumption DEF BoundedMemory
<1>6. QED
  BY <1>2, <1>3, <1>4, <1>5

LEMMA TickKeepsIInv ==
    ASSUME IInv, Tick
    PROVE  IInv'
<1> USE DEF IInv
<1>1. TypeOK'
  BY LimiterAssumption DEF TypeOK, Tick, Times
<1>2. SkewBounded'
  BY LimiterAssumption DEF SkewBounded, Tick, TypeOK, Times, Grant
<1>3. PrunedIsOld'
  BY LimiterAssumption DEF PrunedIsOld, Tick, TypeOK, Times, Grant
<1>4. QED
  BY <1>1, <1>2, <1>3 DEF Tick, Numbered, BoundedMemory

LEMMA NextKeepsIInv == IInv /\ [Next]_vars => IInv'
<1> SUFFICES ASSUME IInv, [Next]_vars PROVE IInv'
  OBVIOUS
<1>1. CASE Tick
  BY <1>1, TickKeepsIInv
<1>2. ASSUME NEW c \in Callers, Arrive(c) PROVE IInv'
  BY <1>2, ArriveKeepsIInv
<1>3. ASSUME NEW c \in Callers, Grants(c) PROVE IInv'
  BY <1>3, GrantsKeepsIInv
<1>4. ASSUME NEW c \in Callers, Exceeded(c) PROVE IInv'
  BY <1>4, ExceededKeepsIInv
<1>5. CASE UNCHANGED vars
  BY <1>5 DEF vars, IInv, TypeOK, Numbered, SkewBounded, PrunedIsOld, BoundedMemory
<1>6. QED
  BY <1>1, <1>2, <1>3, <1>4, <1>5 DEF Next

LEMMA Inductive == Spec => []IInv
BY InitIInv, NextKeepsIInv, PTL DEF Spec

\* The variables keep their types.
THEOREM TypeCorrect == Spec => []TypeOK
BY Inductive, PTL DEF IInv

\* The timestamps kept never outnumber the limit.
THEOREM MemoryIsBounded == Spec => []BoundedMemory
BY Inductive, PTL DEF IInv

LEMMA RecentIsKept ==
    ASSUME IInv
    PROVE  LimitPerUnskewedWindow
<1>1. GrantedDuring(Window - MaxSkew) \subseteq timestamps
  BY LimiterAssumption DEF IInv, GrantedDuring, PrunedIsOld, TypeOK, Grant, Times
<1>2. IsFiniteSet(timestamps)
  BY FS_Subset DEF IInv, TypeOK, Numbered
<1>3. /\ IsFiniteSet(GrantedDuring(Window - MaxSkew))
      /\ Cardinality(GrantedDuring(Window - MaxSkew)) <= Cardinality(timestamps)
  BY <1>1, <1>2, FS_Subset
<1>4. /\ Cardinality(GrantedDuring(Window - MaxSkew)) \in Nat
      /\ Cardinality(timestamps) \in Nat
  BY <1>2, <1>3, FS_CardinalityType
<1>5. QED
  BY <1>3, <1>4, LimiterAssumption DEF IInv, BoundedMemory, LimitPerUnskewedWindow

\* At most `limit` calls are granted in any span of a window less the time a
\* caller waits for the lock: in any window, when none waits (MaxSkew = 0).
THEOREM LimitHolds == Spec => []LimitPerUnskewedWindow
BY Inductive, RecentIsKept, PTL

LEMMA RefusalIsDue ==
    ASSUME IInv, [Next]_vars, NEW c \in Callers,
           c \in arrived \ arrived', granted' = granted
    PROVE  Cardinality({g \in granted : now[c] - g.stamp < Window}) >= Limit
<1> DEFINE near == {g \in granted : now[c] - g.stamp < Window}
<1>1. ~Grants(c)
  <2> SUFFICES ASSUME Grants(c) PROVE FALSE
    OBVIOUS
  <2> DEFINE g == [id |-> Cardinality(granted) + 1, stamp |-> now[c], at |-> clock]
  <2>1. g \in granted
    BY DEF Grants
  <2>2. Cardinality(granted) \in Nat
    BY FS_CardinalityType DEF IInv, Numbered
  <2>3. QED
    BY <2>1, <2>2 DEF IInv, Numbered
<1>2. Exceeded(c)
  BY <1>1 DEF Next, vars, Tick, Arrive, Grants, Exceeded
<1>3. now[c] \in Times
  BY DEF IInv, TypeOK
<1>4. Retained(now[c]) \subseteq near
  BY <1>3, LimiterAssumption DEF IInv, Retained, DurationSince, TypeOK, Grant, Times
<1>5. IsFiniteSet(near)
  BY FS_Subset DEF IInv, Numbered
<1>6. Cardinality(Retained(now[c])) <= Cardinality(near)
  BY <1>4, <1>5, FS_Subset
<1>7. Cardinality(Retained(now[c])) \in Nat /\ Cardinality(near) \in Nat
  BY <1>3, <1>5, RetainedIsSubset, FS_CardinalityType DEF IInv
<1>8. QED
  BY <1>2, <1>6, <1>7, LimiterAssumption DEF Exceeded, Full

\* No caller is refused unless `limit` calls were granted with instants less
\* than one window before its own.
THEOREM RefusalsAreDue == Spec => RefusedOnlyOverLimit
<1>1. IInv /\ [Next]_vars
        => [\A c \in Callers :
               c \in arrived \ arrived' /\ granted' = granted
                  => Cardinality({g \in granted : now[c] - g.stamp < Window}) >= Limit]_vars
  BY RefusalIsDue
<1>2. QED
  BY <1>1, Inductive, PTL DEF Spec, RefusedOnlyOverLimit

-----------------------------------------------------------------------------
(* What a full window can hold.                                             *)

\* The calls granted in the span that ended at t, of a window less the skew.
Span(t) == {g \in granted : t - (Window - MaxSkew) < g.at /\ g.at <= t}

\* The limit holds for every span there has been, not only for the one that ends now.
LimitPerSpan == \A t \in 0..clock : Cardinality(Span(t)) <= Limit

\* A real window holds at most twice the limit.
AtMostTwice == Cardinality(GrantedDuring(Window)) <= 2 * Limit

LEMMA SpansAreFinite ==
    ASSUME IInv, NEW t
    PROVE  IsFiniteSet(Span(t)) /\ Cardinality(Span(t)) \in Nat
BY FS_Subset, FS_CardinalityType DEF IInv, Numbered, Span

\* The span that ends now is what LimitPerUnskewedWindow is about.
LastSpanLimited == Cardinality(Span(clock)) <= Limit

LEMMA LastSpan == IInv => LastSpanLimited
<1> SUFFICES ASSUME IInv  PROVE LastSpanLimited
  OBVIOUS
<1>1. Span(clock) = GrantedDuring(Window - MaxSkew)
  BY LimiterAssumption DEF IInv, SkewBounded, TypeOK, Grant, Times, Span, GrantedDuring
<1> QED  BY <1>1, RecentIsKept DEF LimitPerUnskewedWindow, LastSpanLimited

LEMMA SpansStayLimited ==
    ASSUME IInv, LimitPerSpan, [Next]_vars, LastSpanLimited'
    PROVE  LimitPerSpan'
<1>1. \A g \in granted' \ granted : g.at = clock
  BY DEF Next, Tick, Arrive, Grants, Exceeded, vars
<1>2. granted \subseteq granted' /\ clock \in Nat /\ clock' \in {clock, clock + 1}
  BY DEF Next, Tick, Arrive, Grants, Exceeded, vars, IInv, TypeOK, Times
<1> SUFFICES ASSUME NEW t \in 0..clock'  PROVE Cardinality(Span(t)') <= Limit
  BY DEF LimitPerSpan, Span
<1>3. CASE t = clock'
  <2>1. Span(t)' = Span(clock)'
    BY <1>3 DEF Span
  <2> QED  BY <2>1 DEF LastSpanLimited
<1>4. CASE t # clock' /\ t < clock
  <2>1. Span(t)' = Span(t)
    BY <1>1, <1>2, <1>4 DEF Span
  <2> QED  BY <1>2, <1>4, <2>1 DEF LimitPerSpan
<1>5. CASE t # clock' /\ t = clock
  <2>1. Tick
    BY <1>2, <1>5 DEF Next, Arrive, Grants, Exceeded, vars
  <2>2. Span(t)' = Span(t)
    BY <2>1 DEF Span, Tick
  <2> QED  BY <1>2, <1>5, <2>2 DEF LimitPerSpan
<1> QED  BY <1>2, <1>3, <1>4, <1>5

LEMMA SpansAreLimited == Spec => []LimitPerSpan
<1>1. Init => LimitPerSpan
  <2> SUFFICES ASSUME Init, NEW t \in 0..clock  PROVE Cardinality(Span(t)) <= Limit
    BY DEF LimitPerSpan
  <2>1. Span(t) = {}
    BY DEF Init, Span
  <2> QED  BY <2>1, FS_EmptySet, LimiterAssumption
<1> QED  BY <1>1, SpansStayLimited, LastSpan, Inductive, PTL DEF Spec

\* A window is covered by the span that ends now and the one before it.
LEMMA TwoSpansCover ==
    ASSUME IInv, LimitPerSpan, 2 * MaxSkew <= Window
    PROVE  AtMostTwice
<1> DEFINE t == clock - (Window - MaxSkew)
           before == Span(t)
           last == Span(clock)
<1>1. /\ clock \in Nat /\ t \in Int
      /\ \A g \in granted : g.at \in Nat /\ g.at <= clock
  BY LimiterAssumption DEF IInv, TypeOK, SkewBounded, Grant, Times
<1>2. GrantedDuring(Window) \subseteq before \cup last
  BY <1>1, LimiterAssumption DEF GrantedDuring, Span
<1>3. Cardinality(last) <= Limit
  BY LastSpan DEF LastSpanLimited
<1>4. Cardinality(before) <= Limit
  <2>1. CASE t >= 0
    <3>1. t \in 0..clock
      BY <1>1, <2>1, LimiterAssumption
    <3> QED  BY <3>1 DEF LimitPerSpan
  <2>2. CASE t < 0
    <3>1. before = {}
      BY <1>1, <2>2 DEF Span
    <3> QED  BY <3>1, FS_EmptySet, LimiterAssumption
  <2> QED  BY <1>1, <2>1, <2>2
<1>5. /\ IsFiniteSet(before) /\ Cardinality(before) \in Nat
      /\ IsFiniteSet(last) /\ Cardinality(last) \in Nat
  BY SpansAreFinite
<1> HIDE DEF before, last
<1>6. /\ IsFiniteSet(before \cup last)
      /\ Cardinality(before \cup last) =
             Cardinality(before) + Cardinality(last) - Cardinality(before \cap last)
      /\ Cardinality(before \cap last) \in Nat
  BY <1>5, FS_Union, FS_Intersection, FS_CardinalityType
<1>7. Cardinality(GrantedDuring(Window)) <= Cardinality(before \cup last)
  BY <1>2, <1>6, FS_Subset
<1>8. Cardinality(GrantedDuring(Window)) \in Nat
  BY <1>2, <1>6, FS_Subset, FS_CardinalityType
<1> QED  BY <1>3, <1>4, <1>5, <1>6, <1>7, <1>8, LimiterAssumption DEF AtMostTwice

\* How far the doc comment's bound can be missed: callers that wait for the lock no
\* longer than half a window get at most twice the limit through in a window.
THEOREM TwiceTheLimitAtMost ==
    ASSUME 2 * MaxSkew <= Window
    PROVE  Spec => []AtMostTwice
BY TwoSpansCover, SpansAreLimited, Inductive, PTL

\* The doc comment's bound is missed only because callers wait for the lock with an
\* instant that ages: when none does, `limit` calls in any window is the most.
THEOREM LimitPerWindowUnskewed ==
    ASSUME MaxSkew = 0
    PROVE  Spec => []LimitPerWindow
<1>1. LimitPerUnskewedWindow => LimitPerWindow
  BY LimiterAssumption DEF LimitPerUnskewedWindow, LimitPerWindow
<1> QED  BY <1>1, LimitHolds, PTL
=============================================================================
